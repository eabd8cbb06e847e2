--------------------------- MODULE KubeToolsProofs --------------------------
(***************************************************************************)
(* What safeguard S2 rests on: the skills' writes merge cleanly if no two   *)
(* skills go by one field manager, for any number of skills, objects and    *)
(* fields.  The default name makes them go by one.                          *)
(***************************************************************************)
EXTENDS KubeTools, TLAPS

\* The names a skill's writes go by.
ManagerNames(s) == {fieldManager(a) : a \in FieldManager[s]}

\* No two skills share a manager: none leaves its name to the default, say.
Distinct == \A s, t \in Skill : s # t => ManagerNames(s) \cap ManagerNames(t) = {}

\* Who create's writes go by.
Creator == <<"controllerless", "Update", "main">>

Types == /\ live \in SUBSET Object
         /\ \A o \in Object : /\ DOMAIN value[o] = Field
                              /\ DOMAIN managers[o] = Field
                              /\ DOMAIN claims[o] = Field
                              /\ \A f \in Field : claims[o][f] \in SUBSET Skill
         /\ DOMAIN value = Object /\ DOMAIN managers = Object /\ DOMAIN claims = Object

\* A field that a skill keeps is managed under one of its names, or create's.
ClaimsAreManaged ==
    \A o \in Object, f \in Field : \A t \in claims[o][f] :
        \E m \in managers[o][f] : m = Creator \/ m[1] \in ManagerNames(t)

NothingOfTheDead == \A o \in Object \ live : \A f \in Field : claims[o][f] = {}

Inv == Types /\ ClaimsAreManaged /\ NothingOfTheDead
-----------------------------------------------------------------------------
LEMMA ResolveType ==
    ASSUME RESTMapping \in [DOMAIN RESTMapping -> GVR],
           NEW k \in GVK, NEW n \in Key, resolveGVR(k) # NoGVR
    PROVE  <<resolveGVR(k), n>> \in Object
BY DEF resolveGVR, Object

\* What Set makes of the object's fields; it leaves other objects alone.
Sets(s, o, p, reached, dropped, gone, new) ==
    /\ DOMAIN value' = Object /\ DOMAIN managers' = Object /\ DOMAIN claims' = Object
    /\ \A q \in Object \ {o} : /\ value'[q] = value[q]
                               /\ managers'[q] = managers[q]
                               /\ claims'[q] = claims[q]
    /\ DOMAIN value'[o] = Field /\ DOMAIN managers'[o] = Field /\ DOMAIN claims'[o] = Field
    /\ \A f \in Field :
         /\ managers'[o][f] = new[f]
         /\ f \notin reached \cup gone => value'[o][f] = value[o][f]
         /\ f \in reached => claims'[o][f] =
                 {s} \cup (IF value[o][f] = p[f] THEN claims[o][f] ELSE {})
         /\ f \in gone \ reached => claims'[o][f] = {}
         /\ f \in dropped \ (reached \cup gone) => claims'[o][f] = claims[o][f] \ {s}
         /\ f \notin reached \cup gone \cup dropped => claims'[o][f] = claims[o][f]
    /\ last' = [skill |-> s, fields |-> DOMAIN p]

LEMMA SetFields ==
    ASSUME Types, NEW s \in Skill, NEW o \in Object, NEW p,
           NEW reached, NEW dropped, NEW gone, NEW new, DOMAIN new = Field,
           Set(s, o, p, reached, dropped, gone, new)
    PROVE  Sets(s, o, p, reached, dropped, gone, new)
BY DEF Types, Set, Sets

\* What a call did not touch keeps the invariant; o is the object it wrote.
LEMMA WriteInv ==
    ASSUME Inv, NEW s \in Skill, NEW o \in Object, NEW p,
           NEW reached, NEW dropped, NEW gone, NEW new, DOMAIN new = Field,
           Set(s, o, p, reached, dropped, gone, new), live' = live \cup {o},
           \A f \in Field : \A t \in claims'[o][f] :
               \E m \in new[f] : m = Creator \/ m[1] \in ManagerNames(t)
    PROVE  Inv'
<1>1. Types /\ Sets(s, o, p, reached, dropped, gone, new)
  BY SetFields DEF Inv
<1>2. Types'
  <2>1. live' \in SUBSET Object
    BY <1>1 DEF Types
  <2>2. \A f \in Field : claims'[o][f] \in SUBSET Skill
    <3> SUFFICES ASSUME NEW f \in Field PROVE claims'[o][f] \in SUBSET Skill
      OBVIOUS
    <3>1. claims[o][f] \in SUBSET Skill
      BY <1>1 DEF Types
    <3> QED BY <1>1, <3>1 DEF Sets
  <2>3. ASSUME NEW q \in Object
        PROVE  /\ DOMAIN value'[q] = Field /\ DOMAIN managers'[q] = Field
               /\ DOMAIN claims'[q] = Field
               /\ \A f \in Field : claims'[q][f] \in SUBSET Skill
    <3>1. CASE q = o
      BY <1>1, <2>2, <3>1 DEF Sets
    <3>2. CASE q # o
      BY <1>1, <3>2 DEF Types, Sets
    <3> QED BY <3>1, <3>2
  <2>4. DOMAIN value' = Object /\ DOMAIN managers' = Object /\ DOMAIN claims' = Object
    BY <1>1 DEF Sets
  <2> QED BY <2>1, <2>3, <2>4 DEF Types
<1>3. \A q \in Object \ {o} : managers'[q] = managers[q] /\ claims'[q] = claims[q]
  BY <1>1 DEF Sets
<1>4. ClaimsAreManaged'
  <2> SUFFICES ASSUME NEW q \in Object, NEW f \in Field, NEW t \in claims'[q][f]
               PROVE  \E m \in managers'[q][f] : m = Creator \/ m[1] \in ManagerNames(t)
    BY DEF ClaimsAreManaged, Creator, ManagerNames, fieldManager
  <2>1. CASE q = o
    <3>1. managers'[o][f] = new[f]
      BY <1>1 DEF Sets
    <3> QED BY <2>1, <3>1
  <2>2. CASE q # o
    BY <1>3, <2>2 DEF Inv, ClaimsAreManaged
  <2> QED BY <2>1, <2>2
<1>5. NothingOfTheDead'
  BY <1>3 DEF Inv, NothingOfTheDead
<1> QED BY <1>2, <1>4, <1>5 DEF Inv

\* A field an apply removes was managed under the applying skill's name only, so
\* no other skill keeps it.
LEMMA GoneIsOwn ==
    ASSUME Distinct, Inv, NEW s \in Skill, NEW o \in Object, NEW f \in Field,
           NEW a \in FieldManager[s], NEW endpoint,
           managers[o][f] = {<<fieldManager(a), "Apply", endpoint>>}
    PROVE  claims[o][f] \subseteq {s}
<1> SUFFICES ASSUME NEW t \in claims[o][f] PROVE t = s
  OBVIOUS
<1>1. PICK m \in managers[o][f] : m = Creator \/ m[1] \in ManagerNames(t)
  BY DEF Inv, ClaimsAreManaged
<1>2. m[1] = fieldManager(a) /\ m # Creator
  BY DEF Creator
<1>3. fieldManager(a) \in ManagerNames(s) /\ fieldManager(a) \in ManagerNames(t)
  BY <1>1, <1>2 DEF ManagerNames
<1>4. t \in Skill
  BY DEF Inv, Types
<1> QED BY <1>3, <1>4 DEF Distinct

LEMMA ApplyInv ==
    ASSUME Distinct, Inv, NEW s \in Skill, NEW o \in Object, NEW p \in Patch,
           NEW a \in FieldManager[s], NEW endpoint \in Endpoint,
           ForcedApply(s, o, p, fieldManager(a), endpoint)
    PROVE  /\ Inv'
           /\ \A q \in live \cap live', f \in Field : value'[q][f] # value[q][f] =>
                 f \in last'.fields \/ claims[q][f] \subseteq {last'.skill}
<1> DEFINE me      == <<fieldManager(a), "Apply", endpoint>>
           reached == DOMAIN p \cap Fields(endpoint)
           dropped == {f \in Field \ reached : me \in managers[o][f]}
           gone    == {f \in dropped : managers[o][f] = {me}}
           new     == [f \in Field |->
                         IF f \in reached
                         THEN {me} \cup (IF value[o][f] = p[f] THEN managers[o][f] ELSE {})
                         ELSE managers[o][f] \ {me}]
<1>1. Set(s, o, p, reached, dropped, gone, new) /\ live' = live \cup {o}
  BY DEF ForcedApply
<1>2. DOMAIN new = Field /\ Types
  BY DEF Inv
<1> HIDE DEF new, gone, dropped
<1>3. Sets(s, o, p, reached, dropped, gone, new)
  BY <1>1, <1>2, SetFields
<1>4. fieldManager(a) \in ManagerNames(s) /\ me[1] = fieldManager(a) /\ me # Creator
  BY DEF ManagerNames, Creator
<1>5. ASSUME NEW f \in Field, NEW t \in claims'[o][f]
      PROVE  \E m \in new[f] : m = Creator \/ m[1] \in ManagerNames(t)
  <2>1. CASE f \in reached
    <3>1. new[f] = {me} \cup (IF value[o][f] = p[f] THEN managers[o][f] ELSE {})
      BY <2>1 DEF new
    <3>2. CASE t = s
      BY <1>4, <3>1, <3>2
    <3>3. CASE t # s
      <4>1. value[o][f] = p[f] /\ t \in claims[o][f]
        BY <1>3, <1>5, <2>1, <3>3 DEF Sets
      <4> QED BY <3>1, <4>1 DEF Inv, ClaimsAreManaged
    <3> QED BY <3>2, <3>3
  <2>2. CASE f \notin reached
    <3>1. new[f] = managers[o][f] \ {me} /\ t \in claims[o][f]
      BY <1>3, <1>5, <2>2 DEF new, Sets
    <3>2. PICK m \in managers[o][f] : m = Creator \/ m[1] \in ManagerNames(t)
      BY <3>1 DEF Inv, ClaimsAreManaged
    <3>3. CASE m = me
      <4>1. fieldManager(a) \in ManagerNames(t) /\ t \in Skill
        BY <1>4, <3>1, <3>2, <3>3 DEF Inv, Types
      <4>2. t = s
        BY <1>4, <4>1 DEF Distinct
      <4>3. f \in dropped
        BY <2>2, <3>2, <3>3 DEF dropped
      <4> QED BY <1>3, <1>5, <2>2, <4>2, <4>3 DEF Sets
    <3>4. CASE m # me
      BY <3>1, <3>2, <3>4
    <3> QED BY <3>3, <3>4
  <2> QED BY <2>1, <2>2
<1>6. Inv'
  BY <1>1, <1>2, <1>5, WriteInv
<1>7. ASSUME NEW q \in live \cap live', NEW f \in Field, value'[q][f] # value[q][f]
      PROVE  f \in last'.fields \/ claims[q][f] \subseteq {last'.skill}
  <2>1. q = o /\ (f \in reached \/ f \in gone)
    <3>1. q \in Object
      BY <1>2 DEF Types
    <3> QED BY <1>3, <1>7, <3>1 DEF Sets
  <2>2. last'.skill = s /\ (f \in reached => f \in last'.fields)
    BY <1>3 DEF Sets
  <2>3. f \in gone => claims[o][f] \subseteq {s}
    BY GoneIsOwn DEF gone
  <2> QED BY <2>1, <2>2, <2>3
<1> QED BY <1>6, <1>7

LEMMA MergeInv ==
    ASSUME Inv, NEW s \in Skill, NEW o \in Object, NEW p \in Patch,
           NEW a \in FieldManager[s], Merge(s, o, p, fieldManager(a), "main")
    PROVE  /\ Inv'
           /\ \A q \in live \cap live', f \in Field : value'[q][f] # value[q][f] =>
                 f \in last'.fields
<1> DEFINE reached == {f \in DOMAIN p \cap Fields("main") : value[o][f] # p[f]}
           new     == [f \in Field |-> IF f \in reached
                                       THEN {<<fieldManager(a), "Update", "main">>}
                                       ELSE managers[o][f]]
<1>1. Set(s, o, p, reached, {}, {}, new) /\ live' = live \cup {o}
  BY DEF Merge
<1>2. DOMAIN new = Field /\ Types
  BY DEF Inv
<1> HIDE DEF new
<1>3. /\ \A q \in Object \ {o} : value'[q] = value[q]
      /\ \A f \in Field :
           /\ f \notin reached => value'[o][f] = value[o][f] /\ claims'[o][f] = claims[o][f]
           /\ f \in reached => claims'[o][f] = {s}
      /\ last' = [skill |-> s, fields |-> DOMAIN p]
  <2>1. Sets(s, o, p, reached, {}, {}, new)
    BY <1>1, <1>2, SetFields
  <2> QED BY <2>1 DEF Sets
<1>4. ASSUME NEW f \in Field, NEW t \in claims'[o][f]
      PROVE  \E m \in new[f] : m = Creator \/ m[1] \in ManagerNames(t)
  <2>1. CASE f \in reached
    <3>1. new[f] = {<<fieldManager(a), "Update", "main">>} /\ t = s
      BY <1>3, <1>4, <2>1 DEF new
    <3> QED BY <3>1 DEF ManagerNames
  <2>2. CASE f \notin reached
    <3>1. new[f] = managers[o][f] /\ t \in claims[o][f]
      BY <1>3, <1>4, <2>2 DEF new
    <3> QED BY <3>1 DEF Inv, ClaimsAreManaged
  <2> QED BY <2>1, <2>2
<1>5. Inv'
  BY <1>1, <1>2, <1>4, WriteInv
<1>6. live \subseteq Object
  BY <1>2 DEF Types
<1> QED BY <1>3, <1>5, <1>6

LEMMA CreateInv ==
    ASSUME RESTMapping \in [DOMAIN RESTMapping -> GVR], Inv,
           NEW s \in Skill, NEW k \in GVK, NEW n \in Key, NEW p \in Patch,
           create(s, k, n, p)
    PROVE  /\ Inv'
           /\ \A q \in live \cap live' : value'[q] = value[q]
<1> DEFINE o   == <<resolveGVR(k), n>>
           set == DOMAIN p \cap MainField
           new == [f \in Field |-> IF f \in set
                                   THEN {<<"controllerless", "Update", "main">>} ELSE {}]
<1>1. /\ Set(s, o, p, set, {}, {}, new) /\ live' = live \cup {o}
      /\ o \in Object /\ o \notin live
  BY ResolveType DEF create
<1>2. DOMAIN new = Field /\ Types
  BY DEF Inv
<1> HIDE DEF new, o
<1>3. /\ \A q \in Object \ {o} : value'[q] = value[q]
      /\ \A f \in Field : f \notin set => claims'[o][f] = claims[o][f]
  <2>1. Sets(s, o, p, set, {}, {}, new)
    BY <1>1, <1>2, SetFields
  <2> QED BY <2>1 DEF Sets
<1>4. ASSUME NEW f \in Field, NEW t \in claims'[o][f]
      PROVE  \E m \in new[f] : m = Creator \/ m[1] \in ManagerNames(t)
  <2>1. f \in set
    BY <1>1, <1>3, <1>4 DEF Inv, NothingOfTheDead
  <2> QED BY <2>1 DEF new, Creator
<1>5. Inv'
  BY <1>1, <1>2, <1>4, WriteInv
<1>6. live \subseteq Object
  BY <1>2 DEF Types
<1> QED BY <1>1, <1>3, <1>5, <1>6

LEMMA DeleteInv ==
    ASSUME RESTMapping \in [DOMAIN RESTMapping -> GVR], Inv,
           NEW s \in Skill, NEW k \in GVK, NEW n \in Key, delete(s, k, n)
    PROVE  /\ Inv'
           /\ \A q \in live \cap live' : value'[q] = value[q]
<1> DEFINE o == <<resolveGVR(k), n>>
<1>1. o \in Object /\ live' = live \ {o}
  BY ResolveType DEF delete
<1>2. /\ value' = [value EXCEPT ![o] = Fresh(Unset)]
      /\ managers' = [managers EXCEPT ![o] = Fresh({})]
      /\ claims' = [claims EXCEPT ![o] = Fresh({})]
  BY DEF delete
<1> HIDE DEF o
<1>3. \A q \in Object : q # o => /\ value'[q] = value[q] /\ managers'[q] = managers[q]
                                 /\ claims'[q] = claims[q]
  BY <1>2 DEF Inv, Types
<1>4. /\ value'[o] = Fresh(Unset) /\ managers'[o] = Fresh({}) /\ claims'[o] = Fresh({})
      /\ \A f \in Field : claims'[o][f] = {}
  BY <1>1, <1>2 DEF Inv, Types, Fresh
<1>5. Types'
  BY <1>1, <1>2, <1>3, <1>4 DEF Inv, Types, Fresh
<1>6. ClaimsAreManaged'
  <2> SUFFICES ASSUME NEW q \in Object, NEW f \in Field, NEW t \in claims'[q][f]
               PROVE  \E m \in managers'[q][f] : m = Creator \/ m[1] \in ManagerNames(t)
    BY DEF ClaimsAreManaged, Creator, ManagerNames, fieldManager
  <2> QED BY <1>3, <1>4 DEF Inv, ClaimsAreManaged
<1>7. NothingOfTheDead'
  BY <1>1, <1>3, <1>4 DEF Inv, NothingOfTheDead
<1> QED BY <1>1, <1>3, <1>5, <1>6, <1>7 DEF Inv, Types
-----------------------------------------------------------------------------
LEMMA InitInv == Init => Inv
BY DEF Init, Inv, Types, ClaimsAreManaged, NothingOfTheDead, Fresh

LEMMA StutterInv == Inv /\ UNCHANGED vars => Inv'
BY DEF vars, Inv, Types, ClaimsAreManaged, NothingOfTheDead

\* Every call keeps the invariant and merges cleanly.
LEMMA CallInv ==
    ASSUME Distinct, RESTMapping \in [DOMAIN RESTMapping -> GVR], Inv, Next
    PROVE  /\ Inv'
           /\ \A q \in live \cap live', f \in Field : value'[q][f] # value[q][f] =>
                 f \in last'.fields \/ claims[q][f] \subseteq {last'.skill}
<1> PICK s \in Skill, k \in GVK, n \in Key :
        \/ \E p \in Patch : \/ create(s, k, n, p)
                            \/ \E type \in {"SSA", "MergePatch", "JSONPatch"},
                                  argument \in FieldManager[s], subresource \in Endpoint :
                                  patch(s, k, n, p, type, argument, subresource)
        \/ delete(s, k, n)
  BY DEF Next
<1>1. CASE delete(s, k, n)
  BY <1>1, DeleteInv
<1>2. CASE \E p \in Patch : create(s, k, n, p)
  BY <1>2, CreateInv
<1>3. CASE \E p \in Patch, type \in {"SSA", "MergePatch", "JSONPatch"},
              argument \in FieldManager[s], subresource \in Endpoint :
              patch(s, k, n, p, type, argument, subresource)
  <2> DEFINE o == <<resolveGVR(k), n>>
  <2> PICK p \in Patch, type \in {"SSA", "MergePatch", "JSONPatch"},
           argument \in FieldManager[s], subresource \in Endpoint :
           patch(s, k, n, p, type, argument, subresource)
    BY <1>3
  <2>1. o \in Object
    BY ResolveType DEF patch
  <2>2. \/ ForcedApply(s, o, p, fieldManager(argument), subresource)
        \/ Merge(s, o, p, fieldManager(argument), "main")
        \/ UNCHANGED vars
    BY DEF patch
  <2>3. CASE UNCHANGED vars
    BY <2>3, StutterInv DEF vars
  <2> QED BY <2>1, <2>2, <2>3, ApplyInv, MergeInv
<1> QED BY <1>1, <1>2, <1>3

\* Skills that go by names of their own merge cleanly: a call changes a field that
\* another skill keeps only if it names the field.
THEOREM OwnNamesMergeCleanly ==
    ASSUME Distinct, RESTMapping \in [DOMAIN RESTMapping -> GVR]
    PROVE  Spec => SkillsMergeCleanly
<1>1. Inv /\ [Next]_vars => Inv'
  BY CallInv, StutterInv
<1>2. Inv /\ [Next]_vars =>
        [\A o \in live \cap live', f \in Field :
            value'[o][f] # value[o][f] =>
                f \in last'.fields \/ claims[o][f] \subseteq {last'.skill}]_vars
  BY CallInv
<1> QED BY InitInv, <1>1, <1>2, PTL DEF Spec, SkillsMergeCleanly
=============================================================================
