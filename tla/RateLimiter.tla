---------------------------- MODULE RateLimiter -----------------------------
(***************************************************************************)
(* The per-(resource, skill) rate limiter of the dispatcher (safeguard     *)
(* S3).  allow reads the clock before it takes the mutex, so a worker may  *)
(* decide with an old reading, and two workers may take the mutex in the   *)
(* other order than they read the clock: reading the clock and deciding    *)
(* are two steps.                                                          *)
(*                                                                         *)
(* Two workers meet on one entry when two resource types have an object of *)
(* the same "namespace/name": the entry's key has no resource type in it.  *)
(***************************************************************************)
EXTENDS Integers

CONSTANTS Caller,    \* goroutines that call allow: the workers
          Resource,  \* "namespace/name"
          Skill,     \* skill names
          Window,    \* rateLimitWindow, in ticks of the clock
          MaxStall,  \* longest wait between reading the clock and the mutex
          MaxTime    \* bound on the clock

ASSUME WindowAssumption == Window \in Nat
ASSUME StallAssumption  == MaxStall \in Nat
ASSUME TimeAssumption   == MaxTime \in Nat

VARIABLES now,       \* the monotonic clock
          reading,   \* [Caller -> time read by a pending allow, or Idle]
          lastFire   \* [Entry -> recorded time of the last grant, or Never]

vars == <<now, reading, lastFire>>

Idle  == -1
Never == -1
Entry == Resource \X Skill

TypeOK == /\ now \in 0..MaxTime
          /\ reading \in [Caller -> 0..MaxTime \cup {Idle}]
          /\ lastFire \in [Entry -> 0..MaxTime \cup {Never}]

Init == /\ now = 0
        /\ reading = [w \in Caller |-> Idle]
        /\ lastFire = [e \in Entry |-> Never]
-----------------------------------------------------------------------------
(* Faulty variants of the decisions further down, which the properties must  *)
(* tell from the code's: a window that only looks back from the reading, and  *)
(* a record of the time the window ends.                                      *)

TooSoonAfter(w, e) == lastFire[e] # Never /\ reading[w] - lastFire[e] \in 0..(Window - 1)

AllowUntil(w, e) == /\ reading[w] # Idle
                    /\ lastFire[e] = Never \/ reading[w] >= lastFire[e]
                    /\ lastFire' = [lastFire EXCEPT ![e] = reading[w] + Window]
                    /\ reading' = [reading EXCEPT ![w] = Idle]
                    /\ UNCHANGED now
-----------------------------------------------------------------------------
\* allow is called: time.Now().
ReadClock(w) == /\ reading[w] = Idle
                /\ reading' = [reading EXCEPT ![w] = now]
                /\ UNCHANGED <<now, lastFire>>

\* Caller w, holding the mutex, finds a grant of the entry less than a window
\* before its reading; a grant recorded later than its reading counts too.
TooSoon(w, e) == lastFire[e] # Never /\ reading[w] - lastFire[e] < Window

Allow(w, e) == /\ reading[w] # Idle
               /\ ~TooSoon(w, e)
               /\ lastFire' = [lastFire EXCEPT ![e] = reading[w]]
               /\ reading' = [reading EXCEPT ![w] = Idle]
               /\ UNCHANGED now

Deny(w, e) == /\ reading[w] # Idle
              /\ TooSoon(w, e)
              /\ reading' = [reading EXCEPT ![w] = Idle]
              /\ UNCHANGED <<now, lastFire>>

\* Time passes; nobody waits for the mutex longer than MaxStall.
Tick == /\ now < MaxTime
        /\ \A w \in Caller : reading[w] # Idle => now - reading[w] < MaxStall
        /\ now' = now + 1
        /\ UNCHANGED <<reading, lastFire>>

Next == \/ \E w \in Caller : ReadClock(w)
        \/ \E w \in Caller, e \in Entry : Allow(w, e) \/ Deny(w, e)
        \/ Tick

Spec == Init /\ [][Next]_vars
=============================================================================
