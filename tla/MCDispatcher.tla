---------------------------- MODULE MCDispatcher ----------------------------
(* Model checking of the event loop's progress, in a cluster without the     *)
(* ScheduledTask type and with one skill, for every version of every pod.    *)
EXTENDS Dispatcher

MCPod == <<"", "v1", "Pod">>

MCGVK      == {MCPod}
MCMapping  == [k \in {MCPod} |-> "pods"]
MCTriggers == <<<<[gvk |-> MCPod, types |-> {"Add"}, when |-> Version]>>>>
=============================================================================
