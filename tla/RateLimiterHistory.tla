------------------------- MODULE RateLimiterHistory -------------------------
(***************************************************************************)
(* RateLimiter with a history variable: the real time of the last grant of *)
(* every entry, which the code does not record (it records the reading).   *)
(* S3 is about when reconciles start, that is, about this time.            *)
(***************************************************************************)
EXTENDS RateLimiter

VARIABLE started   \* [Entry -> time of the last grant, or Never]

hvars == <<vars, started>>

HInit == Init /\ started = [e \in Entry |-> Never]

\* A grant is given at the time the mutex is held, not at the time read.
HAllow(w, e) == Allow(w, e) /\ started' = [started EXCEPT ![e] = now]

HNext == \/ \E w \in Caller : ReadClock(w) /\ UNCHANGED started
         \/ \E w \in Caller, e \in Entry : \/ HAllow(w, e)
                                           \/ Deny(w, e) /\ UNCHANGED started
         \/ Tick /\ UNCHANGED started

HSpec == HInit /\ [][HNext]_hvars

HTypeOK == TypeOK /\ started \in [Entry -> 0..MaxTime \cup {Never}]
-----------------------------------------------------------------------------
\* The record never runs ahead of the grant it stands for, and lags it by at
\* most the stall: a grant recorded in the future would lock the skill out of
\* its object, one recorded too early would let it in again at once.
RecordTracksGrants ==
    \A e \in Entry : /\ lastFire[e] = Never <=> started[e] = Never
                     /\ lastFire[e] <= started[e]
                     /\ started[e] - lastFire[e] <= MaxStall

\* S3, in real time: between two reconciles of one skill on one object at
\* least a window passes, less the time a worker can hold an old reading.
\* With MaxStall = 0 this is the "at most one reconcile per window" of the
\* source's comment.
StartsSpaced ==
    [][\A e \in Entry :
         started[e] # Never /\ lastFire'[e] # lastFire[e]
            => started'[e] - started[e] >= Window - MaxStall]_hvars
=============================================================================
