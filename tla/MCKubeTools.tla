---------------------------- MODULE MCKubeTools -----------------------------
(* Model checking of field ownership: two skills that write two fields of   *)
(* one task's status and one of its spec.  Neither names a field manager.   *)
EXTENDS KubeTools

MCGVK     == {<<"agentic.io", "v1alpha1", "ScheduledTask">>, <<"ScheduledTask">>}
MCMapping == [k \in {<<"agentic.io", "v1alpha1", "ScheduledTask">>} |-> "tasks"]
MCManager == [s \in Skill |-> {NoName}]
=============================================================================
