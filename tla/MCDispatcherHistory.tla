------------------------ MODULE MCDispatcherHistory -------------------------
(* Model checking of the event loop's safety. The first skill is triggered   *)
(* by pods, the second by the first version of tasks and, as the first, by   *)
(* the last version of pods, spelled the other way parseGVR reads. A pod and *)
(* a task have one name, so their workers meet at the limiter.               *)
EXTENDS DispatcherHistory

Pod  == <<"", "v1", "Pod">>
Task == <<"agentic.io", "v1alpha1", "ScheduledTask">>

\* "/v1/Pod", the same without the slash, a task, and a string without a version.
MCGVK == {Pod, <<"v1", "Pod">>, Task, <<"Pod">>}

MCMapping == [k \in {Pod, Task} |-> IF k = Pod THEN "pods" ELSE "tasks"]

On(gvk, types, when) == [gvk |-> gvk, types |-> types, when |-> when]

MCTriggers == <<
    <<On(Pod, {"Add"}, Version), On(<<"Pod">>, {"Add"}, Version),
      On(<<"v1", "Pod">>, {"Add"}, {2})>>,
    <<On(Task, {"Add", "Modify"}, {1}), On(<<"v1", "Pod">>, {"Add"}, {2})>> >>
=============================================================================
