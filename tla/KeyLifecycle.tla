---------------------------- MODULE KeyLifecycle ----------------------------
(***************************************************************************)
(* What the workqueue registry promises to its clients, with the queues    *)
(* abstracted away: for every resource type g, the keys that still need a  *)
(* reconcile (pending) and the keys being reconciled now (active).         *)
(*                                                                         *)
(* A key is never reconciled twice at once, an event that arrives while    *)
(* its key is being reconciled is remembered, events of one key coalesce,  *)
(* nothing is accepted after the queue is closed, and whatever was         *)
(* accepted is eventually reconciled.                                      *)
(***************************************************************************)
CONSTANTS GVR, Key

VARIABLES pending, active, closed

vars == <<pending, active, closed>>

Init == /\ pending = [g \in GVR |-> {}]
        /\ active  = [g \in GVR |-> {}]
        /\ closed  = {}

\* An event for key k of resource type g is accepted, unless g is closed.
Mark(g, k) == /\ g \notin closed
              /\ pending' = [pending EXCEPT ![g] = @ \cup {k}]
              /\ UNCHANGED <<active, closed>>

\* A worker starts the reconcile of k; it must not be under way already.
Start(g, k) == /\ k \in pending[g] \ active[g]
               /\ pending' = [pending EXCEPT ![g] = @ \ {k}]
               /\ active'  = [active EXCEPT ![g] = @ \cup {k}]
               /\ UNCHANGED closed

\* The reconcile of k ends, with or without an error.
Finish(g, k) == /\ k \in active[g]
                /\ active' = [active EXCEPT ![g] = @ \ {k}]
                /\ UNCHANGED <<pending, closed>>

\* Some resource types accept no more events.
Close == \E S \in SUBSET GVR : /\ closed' = closed \cup S
                               /\ UNCHANGED <<pending, active>>

Next == \/ \E g \in GVR, k \in Key : Mark(g, k) \/ Start(g, k) \/ Finish(g, k)
        \/ Close

\* The safety part, which TLAPS proves of the queue; TLC checks the rest too.
Safety == Init /\ [][Next]_vars

Spec == /\ Safety
        /\ \A g \in GVR, k \in Key : WF_vars(Start(g, k)) /\ WF_vars(Finish(g, k))
=============================================================================
