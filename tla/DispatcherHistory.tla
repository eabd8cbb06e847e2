------------------------- MODULE DispatcherHistory --------------------------
(***************************************************************************)
(* Dispatcher with a history variable: when the last session of a skill on *)
(* an object of a name started.  Safeguard S3 is about the sessions of the *)
(* whole event loop, not about the calls of allow alone: it has to hold of *)
(* the workers of all types, with skills reloaded, sessions failing and    *)
(* keys queued again in between.                                           *)
(***************************************************************************)
EXTENDS Dispatcher

VARIABLE started   \* [<<namespace/name, skill>> -> time of the last start, or Never]

hvars == <<vars, started>>

H == INSTANCE RateLimiterHistory WITH Caller <- GVR, Resource <- Key

\* In this step worker g begins the session of skill s.
Begins(g, s) == Current(g, s) /\ pc[g] # "run" /\ pc'[g] = "run"

\* In this step worker g skips skill s, and with it the update.
Skips(g, s) == Current(g, s) /\ pc[g] = "limit" /\ pc'[g] \notin {"limit", "run"}

HInit == Init /\ started = [e \in L!Entry |-> L!Never]

HNext == /\ Next
         /\ started' = [e \in L!Entry |->
                          IF \E g \in GVR : key[g] = e[1] /\ Begins(g, e[2])
                          THEN now ELSE started[e]]

HSpec == HInit /\ [][HNext]_hvars
-----------------------------------------------------------------------------
\* S3, "at most one reconcile per (resource-key, skill-name) per 5s", of the event loop:
\* two sessions of one skill on objects of one name begin a window apart, less
\* the time a worker can hold an old reading of the clock.
SessionsSpaced ==
    [][\A g \in GVR, s \in Skill : Begins(g, s) =>
          \/ started[<<key[g], s>>] = L!Never
          \/ now - started[<<key[g], s>>] >= Window - MaxStall]_hvars

\* An update is dropped for a skill only because a session of the skill on an object
\* of the name began a moment ago: less than a window, and what the worker may have
\* waited since it read the clock. No failure, reload or race shuts a skill out longer.
SkipsAreJustified ==
    [][\A g \in GVR, s \in Skill : Skips(g, s) =>
          /\ started[<<key[g], s>>] # L!Never
          /\ now - started[<<key[g], s>>] < Window + MaxStall]_hvars

\* The event loop uses the limiter as RateLimiter has it used: one reading and one
\* decision of a worker in turn, and a session begins exactly when one is granted.
ImplementsLimiter == H!HSpec
=============================================================================
