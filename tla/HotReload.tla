----------------------------- MODULE HotReload ------------------------------
(***************************************************************************)
(* What a hot reload promises its users, whatever they edit meanwhile.      *)
(* Skills are read from the disk, one directory after the other and none    *)
(* under a lock, and put into use all at once.  What is put into use was    *)
(* on disk at some time since the reload began, each directory at a time    *)
(* of its own; a skill that was there all along is left out only if the     *)
(* file system kept it from the reload; and skills in use are never         *)
(* replaced by none at all.                                                 *)
(***************************************************************************)
CONSTANTS Dir, Skill, None

VARIABLES onDisk,   \* [Dir -> skill or None]
          inUse,    \* [Dir -> skill or None]
          seen,     \* [Dir -> what was on disk since the reload began]
          lost      \* directories whose changes or files were kept from the reloads

vars == <<onDisk, inUse, seen, lost>>

Skills  == [Dir -> Skill \cup {None}]
Nothing == [d \in Dir |-> None]

Init == /\ onDisk \in Skills
        /\ inUse = Nothing
        /\ seen = [d \in Dir |-> {onDisk[d]}]
        /\ lost = {}

Change(d) == /\ \E s \in Skill \cup {None} :
                   /\ onDisk' = [onDisk EXCEPT ![d] = s]
                   /\ seen' = [seen EXCEPT ![d] = @ \cup {s}]
             /\ lost' \in {lost, lost \cup {d}}
             /\ UNCHANGED inUse

Begin == /\ seen' = [d \in Dir |-> {onDisk[d]}]
         /\ lost' \in SUBSET lost
         /\ UNCHANGED <<onDisk, inUse>>

\* The file system keeps something from a reload, or a reload catches up.
Miss == lost' \in SUBSET Dir /\ UNCHANGED <<onDisk, inUse, seen>>

Use == /\ inUse' \in Skills
       /\ \A d \in Dir : inUse'[d] \in seen[d] \/ (inUse'[d] = None /\ d \in lost)
       /\ inUse # Nothing => inUse' # Nothing
       /\ UNCHANGED <<onDisk, seen, lost>>

Next == Begin \/ Miss \/ Use \/ \E d \in Dir : Change(d)

Spec == Init /\ [][Next]_vars
=============================================================================
