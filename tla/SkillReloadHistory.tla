------------------------- MODULE SkillReloadHistory -------------------------
(***************************************************************************)
(* SkillReload with a history variable: what was on disk since the load in  *)
(* progress, or the last one, began.  With it the loads implement HotReload.*)
(***************************************************************************)
EXTENDS SkillReload

VARIABLE seen   \* [Dir -> the skills, or None, on disk since ReadDir]

hvars == <<vars, seen>>

HInit == Init /\ seen = [d \in Dir |-> {OnDisk[d]}]

HNext == /\ Next
         /\ seen' = [d \in Dir |-> IF pc = "readdir" /\ pc' = "read" THEN {OnDisk[d]}
                                   ELSE seen[d] \cup {OnDisk'[d]}]

HSpec == HInit /\ [][HNext]_hvars /\ Fairness

HR == INSTANCE HotReload
         WITH Skill <- Document, onDisk <- OnDisk, inUse <- skills, lost <- missed
-----------------------------------------------------------------------------
\* A reload puts into use what was on disk since it began, never what an earlier
\* one read; it drops a skill that was there all along only if a read of it failed
\* or an edit of it was missed; and it never leaves the dispatcher without skills
\* that had some.
ReloadsAreFresh == HR!Spec
=============================================================================
