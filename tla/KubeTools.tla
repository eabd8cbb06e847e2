------------------------------ MODULE KubeTools -----------------------------
(***************************************************************************)
(* The kube tools that write: skills patch, create and delete objects while *)
(* the API server keeps, for every field, who manages it.  A patch is an    *)
(* apply unless the call asks for a merge patch or a JSON patch.            *)
(*                                                                         *)
(* The API server is external.  A manager is the field manager's name, the  *)
(* operation and the endpoint; an apply takes its fields from managers with *)
(* other values (Force) and removes those it applied before, omits now and  *)
(* nobody else manages.  A type has a status endpoint: its fields cannot be *)
(* written through the main one, and the others cannot through it.          *)
(***************************************************************************)
EXTENDS Integers, Sequences

CONSTANTS Skill, GVR, Key,     \* skills, resource types, "namespace/name"
          GVK, RESTMapping,    \* type strings, split at "/"; the REST mapper
          MainField, StatusField, Value,
          FieldManager,        \* [Skill -> the fieldManager arguments of its calls]
          NoName,              \* no such argument
          NoGVR, Unset, Nobody

VARIABLES
    live,      \* objects that exist
    value,     \* [objects -> [fields -> value or Unset]]
    managers,  \* [objects -> [fields -> set of managers]]
    claims,    \* history: [objects -> [fields -> the skills that keep its value]]
    last       \* history: the last call's skill and the fields it named

vars == <<live, value, managers, claims, last>>

Object   == GVR \X Key
Field    == MainField \cup StatusField
Endpoint == {"main", "status"}
Patch    == UNION {[F -> Value] : F \in SUBSET Field \ {{}}}

Fields(endpoint) == IF endpoint = "main" THEN MainField ELSE StatusField

Fresh(v) == [f \in Field |-> v]

Init == /\ live \in SUBSET Object
        /\ value = [o \in Object |-> Fresh(Unset)]
        /\ managers = [o \in Object |-> Fresh({})]
        /\ claims = [o \in Object |-> Fresh({})]
        /\ last = [skill |-> Nobody, fields |-> {}]

\* "group/version/Kind" or, of the core group, "version/Kind".
resolveGVR(k) ==
    LET gvk == IF Len(k) = 2 THEN <<"">> \o k ELSE k IN
    IF gvk \in DOMAIN RESTMapping THEN RESTMapping[gvk] ELSE NoGVR
-----------------------------------------------------------------------------
(* The API server.                                                          *)

\* The call sets the fields of p it reaches, drops others, and so removes those in
\* gone.
Set(s, o, p, reached, dropped, gone, newManagers) ==
    /\ value' = [value EXCEPT ![o] = [f \in Field |->
                    IF f \in reached THEN p[f] ELSE IF f \in gone THEN Unset ELSE @[f]]]
    /\ managers' = [managers EXCEPT ![o] = newManagers]
    /\ claims' = [claims EXCEPT ![o] = [f \in Field |->
                    IF f \in reached THEN {s} \cup (IF value[o][f] = p[f] THEN @[f] ELSE {})
                    ELSE IF f \in gone THEN {}
                    ELSE IF f \in dropped THEN @[f] \ {s} ELSE @[f]]]
    /\ last' = [skill |-> s, fields |-> DOMAIN p]

\* Applying to the main endpoint creates what does not exist.
ForcedApply(s, o, p, name, endpoint) ==
    LET me      == <<name, "Apply", endpoint>>
        reached == DOMAIN p \cap Fields(endpoint)
        dropped == {f \in Field \ reached : me \in managers[o][f]}
        gone    == {f \in dropped : managers[o][f] = {me}}
    IN  /\ o \in live \/ endpoint = "main"
        /\ live' = live \cup {o}
        /\ Set(s, o, p, reached, dropped, gone, [f \in Field |->
              IF f \in reached
              THEN {me} \cup (IF value[o][f] = p[f] THEN managers[o][f] ELSE {})
              ELSE managers[o][f] \ {me}])

\* A merge patch manages the fields it changes and leaves the others alone.
Merge(s, o, p, name, endpoint) ==
    LET reached == {f \in DOMAIN p \cap Fields(endpoint) : value[o][f] # p[f]}
    IN  /\ o \in live
        /\ UNCHANGED live
        /\ Set(s, o, p, reached, {}, {}, [f \in Field |->
              IF f \in reached THEN {<<name, "Update", endpoint>>} ELSE managers[o][f]])
-----------------------------------------------------------------------------
(* The tools.                                                               *)

\* The name a call's writes go by.
fieldManager(argument) == IF argument = NoName THEN "controllerless" ELSE argument

\* A merge patch goes to the main endpoint whatever subresource the call names,
\* and a JSON patch, which has to be a list, is never one: it is rejected.
patch(s, k, key, p, type, argument, subresource) ==
    LET o == <<resolveGVR(k), key>>  fm == fieldManager(argument) IN
    /\ resolveGVR(k) # NoGVR
    /\ \/ type = "SSA" /\ ForcedApply(s, o, p, fm, subresource)
       \/ type = "MergePatch" /\ Merge(s, o, p, fm, "main")
       \/ type = "JSONPatch" /\ UNCHANGED vars

\* Creating drops the fields of the status and fails on what exists. The server
\* names the manager after the program.
create(s, k, key, p) ==
    LET o == <<resolveGVR(k), key>>  set == DOMAIN p \cap MainField IN
    /\ resolveGVR(k) # NoGVR
    /\ o \notin live
    /\ live' = live \cup {o}
    /\ Set(s, o, p, set, {}, {}, [f \in Field |->
          IF f \in set THEN {<<"controllerless", "Update", "main">>} ELSE {}])

\* The object is deleted in the background, or however the call asks for it.
delete(s, k, key) ==
    LET o == <<resolveGVR(k), key>> IN
    /\ resolveGVR(k) # NoGVR
    /\ o \in live
    /\ live' = live \ {o}
    /\ value' = [value EXCEPT ![o] = Fresh(Unset)]
    /\ managers' = [managers EXCEPT ![o] = Fresh({})]
    /\ claims' = [claims EXCEPT ![o] = Fresh({})]
    /\ last' = [skill |-> s, fields |-> {}]

Next == \E s \in Skill, k \in GVK, key \in Key :
    \/ \E p \in Patch : \/ create(s, k, key, p)
                        \/ \E type \in {"SSA", "MergePatch", "JSONPatch"},
                              argument \in FieldManager[s], subresource \in Endpoint :
                              patch(s, k, key, p, type, argument, subresource)
    \/ delete(s, k, key)

Spec == Init /\ [][Next]_vars
-----------------------------------------------------------------------------
\* Safeguard S2, "SSA with fieldManager=skill/<name> lets each skill own a subset
\* and merge cleanly": while an object exists, a call changes no field another
\* skill keeps unless it names that field.
SkillsMergeCleanly ==
    [][\A o \in live \cap live', f \in Field :
          value'[o][f] # value[o][f] =>
              f \in last'.fields \/ claims[o][f] \subseteq {last'.skill}]_vars
=============================================================================
