-------------------------- MODULE DispatcherProofs --------------------------
(* Proofs about the event loop, for every cluster, key and set of skills.   *)
EXTENDS Dispatcher, SequenceTheorems, TLAPS

QP == INSTANCE WorkQueueProofs

-----------------------------------------------------------------------------
(* Every step of the event loop is a step of its workqueues.                *)

LEMMA QueueStep == TypeOK /\ [Next]_vars => [QP!Next]_(QP!vars)
<1> SUFFICES ASSUME TypeOK, [Next]_vars PROVE [QP!Next]_(QP!vars)
  OBVIOUS
<1>1. CASE UNCHANGED vars
  BY <1>1 DEF vars, qvars, QP!vars
<1>2. CASE Environment
  BY <1>2 DEF Environment, Create, Modify, Delete, Write, List, Relist, Cancel,
              UpdateSkills, Tick, qvars, QP!vars
<1>3. CASE Run
  <2>1. CASE ShutDown
    BY <2>1 DEF ShutDown, Q!ShutDownAll, QP!ShutDownAll, QP!Next
  <2>2. CASE CollectGVRs \/ StartWorkers \/ Return
    BY <2>2 DEF CollectGVRs, StartWorkers, Return, qvars, QP!vars
  <2> QED BY <1>3, <2>1, <2>2 DEF Run
<1>4. ASSUME NEW g \in GVR, Handler(g)
      PROVE  [QP!Next]_(QP!vars)
  <2>1. CASE HandlerQueueFor(g)
    BY <2>1 DEF HandlerQueueFor, Q!QueueFor, QP!QueueFor, QP!Next
  <2>2. CASE \E k \in Key : HandlerAdd(g, k)
    BY <2>2 DEF HandlerAdd, Q!Add, QP!Add, Q!Accepts, QP!Accepts, QP!Next
  <2>3. CASE \E k \in Key : IgnoreDelete(g, k)
    BY <2>3 DEF IgnoreDelete, qvars, QP!vars
  <2> QED BY <1>4, <2>1, <2>2, <2>3 DEF Handler
<1>5. ASSUME NEW g \in GVR, Worker(g)
      PROVE  [QP!Next]_(QP!vars)
  <2>1. CASE WorkerQueueFor(g)
    BY <2>1 DEF WorkerQueueFor, Q!QueueFor, QP!QueueFor, QP!Next
  <2>2. CASE WorkerGet(g)
    BY <2>2 DEF WorkerGet, Q!Get, QP!Get, QP!Next
  <2>3. CASE WorkerDone(g)
    <3>1. key[g] \in Key
      BY DEF TypeOK
    <3> QED BY <2>3, <3>1 DEF WorkerDone, Q!Done, QP!Done, QP!Next
  <2>4. CASE WorkerQuit(g) \/ Fetch(g) \/ MatchSkills(g) \/ ReadClock(g) \/ FailSession(g)
    BY <2>4 DEF WorkerQuit, Fetch, MatchSkills, ReadClock, FailSession, qvars, QP!vars
  <2>5. CASE \E s \in Skill : AllowSkill(g, s) \/ SkipSkill(g, s) \/ EndSession(g, s)
    BY <2>5 DEF AllowSkill, SkipSkill, EndSession, qvars, QP!vars
  <2> QED BY <1>5, <2>1, <2>2, <2>3, <2>4, <2>5 DEF Worker
<1> QED BY <1>1, <1>2, <1>3, <1>4, <1>5 DEF Next

-----------------------------------------------------------------------------
(* Types. The queues' part follows from WorkQueue; the rest goes action by  *)
(* action.                                                                  *)

QueueTypes   == Q!TypeOK
LimiterTypes == L!TypeOK

ApiTypes == /\ ver \in [Object -> Version]
            /\ live \in [Object -> BOOLEAN]
            /\ listed \in SUBSET GVR
            /\ events \in [Object -> Seq(EventType)]

RunTypes == /\ skills \in SUBSET Skill
            /\ phase \in {"init", "idle", "syncing", "serving", "waiting", "returned"}
            /\ cancelled \in BOOLEAN
            /\ gvrMap \in [GVR -> GVK \cup {NoGVK}]

WorkerTypes == /\ pc \in [GVR -> WorkerPC]
               /\ key \in [GVR -> Key]
               /\ got \in [GVR -> Version]
               /\ todo \in [GVR -> SUBSET Skill]
               /\ looked \in [Object -> Version]
               /\ owed \in SUBSET Object

LEMMA TypeParts == TypeOK <=> /\ QueueTypes /\ LimiterTypes
                              /\ ApiTypes /\ RunTypes /\ WorkerTypes
BY DEF TypeOK, QueueTypes, LimiterTypes, ApiTypes, RunTypes, WorkerTypes

LEMMA LimiterTypesNext ==
  ASSUME TypeOK, [Next]_vars
  PROVE  LimiterTypes'
<1> USE DEF LimiterTypes, L!TypeOK
<1>0. LimiterTypes
  BY TypeParts
<1>1. CASE UNCHANGED lvars
  BY <1>0, <1>1 DEF lvars
<1>2. CASE Tick
  <2>1. now \in Int /\ now < MaxTime /\ now' = now + 1 /\ UNCHANGED <<reading, lastFire>>
    BY <1>0, <1>2 DEF Tick, L!Tick
  <2>2. now' \in 0..MaxTime
    BY <1>0, <2>1, LimiterAssumption
  <2> QED BY <1>0, <2>1, <2>2
<1>3. CASE \E g \in GVR : ReadClock(g)
  BY <1>0, <1>3 DEF ReadClock, L!ReadClock
<1>4. ASSUME NEW g \in GVR, NEW s \in Skill, AllowSkill(g, s)
      PROVE  LimiterTypes'
  <2>1. reading[g] \in 0..MaxTime
    BY <1>0, <1>4 DEF AllowSkill, L!Allow
  <2> QED BY <1>0, <1>4, <2>1 DEF AllowSkill, L!Allow
<1>5. ASSUME NEW g \in GVR, NEW s \in Skill, SkipSkill(g, s)
      PROVE  LimiterTypes'
  BY <1>0, <1>5 DEF SkipSkill, L!Deny
<1>6. CASE Environment \/ Run
  BY <1>1, <1>2, <1>6 DEF Environment, Create, Modify, Delete, Write, List, Relist,
     Cancel, UpdateSkills, Run, CollectGVRs, StartWorkers, ShutDown, Return
<1>7. CASE \E g \in GVR : Handler(g)
  BY <1>1, <1>7 DEF Handler, HandlerQueueFor, HandlerAdd, IgnoreDelete
<1>8. CASE \E g \in GVR : Worker(g)
  BY <1>1, <1>3, <1>4, <1>5, <1>8 DEF Worker, WorkerQueueFor, WorkerGet, WorkerQuit,
     Fetch, MatchSkills, EndSession, FailSession, WorkerDone
<1> QED BY <1>1, <1>6, <1>7, <1>8 DEF Next, vars

LEMMA ApiTypesNext ==
  ASSUME TypeOK, [Next]_vars
  PROVE  ApiTypes'
<1> USE DEF ApiTypes
<1>0. ApiTypes
  BY TypeParts
<1>1. CASE UNCHANGED api
  BY <1>0, <1>1 DEF api
<1>2. ASSUME NEW o \in Object, NEW exists \in BOOLEAN, NEW type \in EventType,
             Write(o, exists, type)
      PROVE  ApiTypes'
  <2>1. ver' \in [Object -> Version] /\ live' \in [Object -> BOOLEAN] /\ listed' = listed
    BY <1>0, <1>2, VersionAssumption DEF Write, Version
  <2>2. Append(events[o], type) \in Seq(EventType)
    BY <1>0
  <2>3. events' \in [Object -> Seq(EventType)]
    BY <1>0, <1>2, <2>2 DEF Write, Notify
  <2> QED BY <1>0, <2>1, <2>3
<1>3. \A o \in Object : Latest(o) \in Seq(EventType)
  <2>1. /\ <<>> \in Seq(EventType)
        /\ \A t \in EventType : <<t>> \in Seq(EventType)
    OBVIOUS
  <2> QED BY <2>1 DEF Latest, EventType
<1>4. CASE \E g \in GVR : List(g) \/ Relist(g)
  <2>1. <<"Add">> \in Seq(EventType)
    BY DEF EventType
  <2> QED BY <1>0, <1>3, <1>4, <2>1 DEF List, Relist
<1>5. CASE Environment
  <2>1. CASE \E o \in Object : Create(o) \/ Modify(o) \/ Delete(o)
    BY <1>2, <2>1 DEF Create, Modify, Delete, EventType
  <2>2. CASE Cancel \/ UpdateSkills \/ Tick
    BY <1>1, <2>2 DEF Cancel, UpdateSkills, Tick
  <2> QED BY <1>4, <1>5, <2>1, <2>2 DEF Environment
<1>6. CASE Run
  BY <1>1, <1>6 DEF Run, CollectGVRs, StartWorkers, ShutDown, Return
<1>7. ASSUME NEW g \in GVR, NEW k \in Key, HandlerAdd(g, k) \/ IgnoreDelete(g, k)
      PROVE  ApiTypes'
  <2>1. <<g, k>> \in Object
    BY DEF Object
  <2>2. events[<<g, k>>] \in Seq(EventType) /\ events[<<g, k>>] # <<>>
    BY <1>0, <1>7, <2>1 DEF HandlerAdd, IgnoreDelete
  <2>3. Tail(events[<<g, k>>]) \in Seq(EventType)
    BY <2>2, HeadTailProperties
  <2> QED BY <1>0, <1>7, <2>3 DEF HandlerAdd, IgnoreDelete
<1>8. CASE \E g \in GVR : Handler(g)
  BY <1>1, <1>7, <1>8 DEF Handler, HandlerQueueFor
<1>9. CASE \E g \in GVR : Worker(g)
  BY <1>1, <1>9 DEF Worker, WorkerQueueFor, WorkerGet, WorkerQuit, Fetch, MatchSkills,
     ReadClock, AllowSkill, SkipSkill, EndSession, FailSession, WorkerDone
<1> QED BY <1>1, <1>5, <1>6, <1>8, <1>9 DEF Next, vars

LEMMA RunTypesNext ==
  ASSUME TypeOK, [Next]_vars
  PROVE  RunTypes'
<1> USE DEF RunTypes
<1>0. RunTypes
  BY TypeParts
<1>1. CASE UNCHANGED <<skills, run>>
  BY <1>0, <1>1 DEF run
<1>2. CASE Run
  <2>1. CASE CollectGVRs
    BY <1>0, <2>1 DEF CollectGVRs
  <2>2. CASE StartWorkers \/ ShutDown \/ Return
    BY <1>0, <2>2 DEF StartWorkers, ShutDown, Return
  <2> QED BY <1>2, <2>1, <2>2 DEF Run
<1>3. CASE Cancel \/ UpdateSkills
  BY <1>0, <1>3 DEF Cancel, UpdateSkills, run
<1>4. CASE Environment
  BY <1>1, <1>3, <1>4 DEF Environment, Create, Modify, Delete, Write, List, Relist, Tick
<1>5. CASE \E g \in GVR : Handler(g)
  BY <1>1, <1>5 DEF Handler, HandlerQueueFor, HandlerAdd, IgnoreDelete
<1>6. CASE \E g \in GVR : Worker(g)
  BY <1>1, <1>6 DEF Worker, WorkerQueueFor, WorkerGet, WorkerQuit, Fetch, MatchSkills,
     ReadClock, AllowSkill, SkipSkill, EndSession, FailSession, WorkerDone
<1> QED BY <1>1, <1>2, <1>4, <1>5, <1>6 DEF Next, vars

LEMMA WorkerTypesNext ==
  ASSUME TypeOK, [Next]_vars
  PROVE  WorkerTypes'
<1> USE DEF WorkerTypes, WorkerPC
<1>0. WorkerTypes /\ ApiTypes /\ RunTypes
  BY TypeParts
<1>1. CASE UNCHANGED <<pc, local, hist>>
  BY <1>0, <1>1 DEF local, hist
<1>2. CASE Environment
  BY <1>1, <1>2 DEF Environment, Create, Modify, Delete, Write, List, Relist,
     Cancel, UpdateSkills, Tick
<1>3. CASE Run
  <2>1. CASE StartWorkers
    BY <1>0, <2>1 DEF StartWorkers, local, hist
  <2>2. CASE CollectGVRs \/ ShutDown \/ Return
    BY <1>1, <2>2 DEF CollectGVRs, ShutDown, Return
  <2> QED BY <1>3, <2>1, <2>2 DEF Run
<1>4. ASSUME NEW g \in GVR, Handler(g)
      PROVE  WorkerTypes'
  <2>1. CASE \E k \in Key : HandlerAdd(g, k)
    BY <1>0, <2>1 DEF HandlerAdd, local
  <2>2. CASE HandlerQueueFor(g) \/ \E k \in Key : IgnoreDelete(g, k)
    BY <1>1, <2>2 DEF HandlerQueueFor, IgnoreDelete
  <2> QED BY <1>4, <2>1, <2>2 DEF Handler
<1>5. ASSUME NEW g \in GVR, Worker(g)
      PROVE  WorkerTypes'
  <2>1. CASE WorkerQueueFor(g) \/ WorkerQuit(g) \/ ReadClock(g) \/ WorkerDone(g)
    BY <1>0, <2>1 DEF WorkerQueueFor, WorkerQuit, ReadClock, WorkerDone, Goto, local, hist
  <2>2. CASE WorkerGet(g)
    BY <1>0, <2>2 DEF WorkerGet, Goto, hist
  <2>3. CASE Fetch(g)
    <3>1. <<g, key[g]>> \in Object
      BY <1>0 DEF Object
    <3>2. ver[<<g, key[g]>>] \in Version
      BY <1>0, <3>1 DEF ApiTypes
    <3> QED BY <1>0, <2>3, <3>1, <3>2 DEF Fetch, Goto
  <2>4. CASE MatchSkills(g)
    <3>1. Matching(g) \in SUBSET Skill
      BY <1>0 DEF Matching, RunTypes
    <3> QED BY <1>0, <2>4, <3>1 DEF MatchSkills, AfterSkills, Goto, hist
  <2>5. ASSUME NEW s \in Skill, AllowSkill(g, s) \/ SkipSkill(g, s) \/ EndSession(g, s)
        PROVE  WorkerTypes'
    <3>1. <<g, key[g]>> \in Object
      BY <1>0 DEF Object
    <3> QED BY <1>0, <2>5, <3>1 DEF AllowSkill, SkipSkill, EndSession, AfterSkills, Goto,
               local, hist
  <2>6. CASE FailSession(g)
    BY <1>0, <2>6 DEF FailSession, Goto, hist
  <2> QED BY <1>5, <2>1, <2>2, <2>3, <2>4, <2>5, <2>6 DEF Worker
<1> QED BY <1>1, <1>2, <1>3, <1>4, <1>5 DEF Next, vars

-----------------------------------------------------------------------------
(* The inductive invariant. StopOrder says how far Run and the workers are  *)
(* when the queues are shut down: it rules out that a handler's Add is      *)
(* ignored before the context is cancelled, and that a worker leaves before *)
(* its queue is shut down and empty.                                        *)

StopOrder ==
    /\ shut # {} => cancelled
    /\ \A g \in GVR : pc[g] = "exited" => g \in shut /\ queue[g] = <<>>
    /\ phase \in {"init", "idle", "syncing"} => \A g \in GVR : pc[g] = "none"
    /\ phase = "idle" => Watched = {}
    /\ phase = "returned" => \A g \in Watched : pc[g] = "exited"

QueueSafe == QP!Inv

Inv == /\ TypeOK
       /\ QueueSafe
       /\ WorkersHoldTheirKey
       /\ StopOrder
       /\ NoUpdateForgotten

LEMMA InitInv == Init => Inv
<1> SUFFICES ASSUME Init PROVE Inv
  OBVIOUS
<1>1. Q!Init /\ L!Init
  BY DEF Init
<1>2. QueueSafe
  <2>1. QP!Init
    BY <1>1 DEF Q!Init, QP!Init
  <2> QED BY <2>1, QP!InitInv DEF QueueSafe
<1>3. Q!TypeOK
  BY <1>2 DEF QueueSafe, QP!Inv, QP!TypeOK, Q!TypeOK
<1>4. L!TypeOK
  BY <1>1, LimiterAssumption DEF L!Init, L!TypeOK
<1>5. TypeOK
  <2>1. <<>> \in Seq(EventType)
    OBVIOUS
  <2>2. 0 \in Version
    BY VersionAssumption DEF Version
  <2>3. ApiTypes
    BY <2>1, <2>2 DEF Init, ApiTypes
  <2>4. RunTypes
    BY DEF Init, RunTypes
  <2>5. WorkerTypes
    BY <2>2 DEF Init, WorkerTypes, WorkerPC
  <2> QED BY <1>3, <1>4, <2>3, <2>4, <2>5, TypeParts DEF QueueTypes, LimiterTypes
<1>6. WorkersHoldTheirKey
  BY <1>1 DEF Init, Q!Init, WorkersHoldTheirKey, Busy
<1>7. StopOrder
  BY <1>1 DEF Init, Q!Init, StopOrder
<1>8. NoUpdateForgotten
  BY DEF Init, NoUpdateForgotten
<1> QED BY <1>2, <1>5, <1>6, <1>7, <1>8 DEF Inv

LEMMA QueueSafeNext ==
  ASSUME Inv, [Next]_vars
  PROVE  QueueSafe' /\ Q!TypeOK'
<1>1. [QP!Next]_(QP!vars)
  BY QueueStep DEF Inv
<1>2. QP!Inv'
  BY <1>1, QP!NextInv DEF Inv, QueueSafe
<1> QED BY <1>2 DEF QueueSafe, QP!Inv, QP!TypeOK, Q!TypeOK

LEMMA TypeNext ==
  ASSUME Inv, [Next]_vars
  PROVE  TypeOK'
<1>1. TypeOK
  BY DEF Inv
<1>2. LimiterTypes' /\ ApiTypes' /\ RunTypes' /\ WorkerTypes'
  BY <1>1, LimiterTypesNext, ApiTypesNext, RunTypesNext, WorkerTypesNext
<1>3. QueueTypes'
  BY QueueSafeNext DEF QueueTypes
<1> QED BY <1>2, <1>3 DEF TypeOK, QueueTypes, LimiterTypes, ApiTypes, RunTypes, WorkerTypes

\* A worker takes its key in Get and gives it back in Done, and in between
\* every path leads to Done.
LEMMA HoldNext ==
  ASSUME Inv, [Next]_vars
  PROVE  WorkersHoldTheirKey'
<1> USE DEF WorkersHoldTheirKey, Busy
<1>0. /\ WorkersHoldTheirKey
      /\ pc \in [GVR -> WorkerPC] /\ key \in [GVR -> Key]
      /\ processing \in [GVR -> SUBSET Key]
  BY DEF Inv, TypeOK, Q!TypeOK
<1>1. CASE UNCHANGED <<processing, pc, key>>
  BY <1>0, <1>1
<1>2. CASE Environment
  BY <1>1, <1>2 DEF Environment, Create, Modify, Delete, Write, List, Relist,
     Cancel, UpdateSkills, Tick, qvars, local
<1>3. CASE Run
  <2>1. CASE StartWorkers
    <3>1. \A g \in GVR : pc[g] = "none"
      BY <2>1 DEF StartWorkers, Inv, StopOrder
    <3> QED BY <1>0, <2>1, <3>1 DEF StartWorkers, qvars, local
  <2>2. CASE CollectGVRs \/ Return
    BY <1>1, <2>2 DEF CollectGVRs, Return, qvars, local
  <2>3. CASE ShutDown
    BY <1>1, <2>3 DEF ShutDown, Q!ShutDownAll, local
  <2> QED BY <1>3, <2>1, <2>2, <2>3 DEF Run
<1>4. CASE \E g \in GVR : Handler(g)
  BY <1>1, <1>4 DEF Handler, HandlerQueueFor, HandlerAdd, IgnoreDelete, Q!QueueFor,
     Q!Add, qvars, local
<1>5. ASSUME NEW g \in GVR, Worker(g)
      PROVE  WorkersHoldTheirKey'
  <2>1. CASE WorkerQueueFor(g)
    BY <1>0, <2>1 DEF WorkerQueueFor, Goto, Q!QueueFor, local
  <2>2. CASE WorkerGet(g)
    BY <1>0, <2>2 DEF WorkerGet, Goto, Q!Get
  <2>3. CASE WorkerQuit(g) \/ Fetch(g) \/ ReadClock(g) \/ FailSession(g)
    BY <1>0, <2>3 DEF WorkerQuit, Fetch, ReadClock, FailSession, Goto, qvars, local
  <2>4. CASE MatchSkills(g)
    BY <1>0, <2>4 DEF MatchSkills, AfterSkills, Goto, qvars
  <2>5. CASE \E s \in Skill : AllowSkill(g, s) \/ SkipSkill(g, s) \/ EndSession(g, s)
    BY <1>0, <2>5 DEF AllowSkill, SkipSkill, EndSession, AfterSkills, Goto, qvars, local
  <2>6. CASE WorkerDone(g)
    BY <1>0, <2>6 DEF WorkerDone, Goto, Q!Done, local
  <2> QED BY <1>5, <2>1, <2>2, <2>3, <2>4, <2>5, <2>6 DEF Worker
<1> QED BY <1>1, <1>2, <1>3, <1>4, <1>5 DEF Next, vars, qvars, local

\* The stages of the shutdown come in their order.
LEMMA StopOrderNext ==
  ASSUME Inv, [Next]_vars
  PROVE  StopOrder'
<1> USE DEF StopOrder, Watched
<1>0. /\ StopOrder
      /\ pc \in [GVR -> WorkerPC]
      /\ queue \in [GVR -> Seq(Key)]
      /\ shut \in SUBSET created
      /\ created \in SUBSET GVR
  BY DEF Inv, TypeOK, Q!TypeOK
<1>1. CASE UNCHANGED <<queue, shut, run, pc>>
  BY <1>0, <1>1 DEF run
<1>2. CASE Environment
  <2>1. CASE Cancel
    BY <1>0, <2>1 DEF Cancel, qvars
  <2>2. CASE ~Cancel
    BY <1>1, <1>2, <2>2 DEF Environment, Create, Modify, Delete, Write, List, Relist,
       UpdateSkills, Tick, qvars
  <2> QED BY <2>1, <2>2
<1>3. CASE Run
  <2>1. CASE CollectGVRs
    <3>1. phase = "init" /\ phase' \in {"idle", "syncing"}
      BY <2>1 DEF CollectGVRs
    <3>2. phase' = "idle" => \A g \in GVR : gvrMap'[g] = NoGVK
      BY <2>1 DEF CollectGVRs, IsCollected
    <3>3. UNCHANGED <<queue, shut, cancelled, pc>>
      BY <2>1 DEF CollectGVRs, qvars
    <3> QED BY <1>0, <3>1, <3>2, <3>3
  <2>2. CASE StartWorkers
    BY <1>0, <2>2 DEF StartWorkers, qvars
  <2>3. CASE ShutDown
    BY <1>0, <2>3 DEF ShutDown, Q!ShutDownAll
  <2>4. CASE Return
    BY <1>0, <2>4 DEF Return, qvars
  <2> QED BY <1>3, <2>1, <2>2, <2>3, <2>4 DEF Run
<1>4. ASSUME NEW g \in GVR, Handler(g), phase # "returned"
      PROVE  StopOrder'
  <2>1. CASE HandlerQueueFor(g)
    BY <1>0, <2>1 DEF HandlerQueueFor, Q!QueueFor, run
  <2>2. ASSUME NEW k \in Key, HandlerAdd(g, k)
        PROVE  StopOrder'
    <3>1. UNCHANGED <<shut, run, pc>>
      BY <2>2 DEF HandlerAdd, Q!Add
    <3>2. \A h \in GVR : h \in shut => queue'[h] = queue[h]
      BY <1>0, <2>2 DEF HandlerAdd, Q!Add, Q!Accepts
    <3> QED BY <1>0, <3>1, <3>2 DEF run
  <2>3. CASE \E k \in Key : IgnoreDelete(g, k)
    BY <1>1, <2>3 DEF IgnoreDelete, qvars
  <2> QED BY <1>4, <2>1, <2>2, <2>3 DEF Handler
<1>5. ASSUME NEW g \in GVR, Worker(g), phase # "returned"
      PROVE  StopOrder'
  <2>1. UNCHANGED <<shut, run>>
    BY <1>5 DEF Worker, WorkerQueueFor, WorkerGet, WorkerQuit, Fetch, MatchSkills,
       ReadClock, AllowSkill, SkipSkill, EndSession, FailSession, WorkerDone,
       Q!QueueFor, Q!Get, Q!Done, qvars
  <2>2. \E to \in WorkerPC : /\ pc' = [pc EXCEPT ![g] = to]
                             /\ to = "exited" => Q!Quits(g) /\ queue' = queue
    BY <1>5 DEF Worker, WorkerQueueFor, WorkerGet, WorkerQuit, Fetch, MatchSkills,
       ReadClock, AllowSkill, SkipSkill, EndSession, FailSession, WorkerDone,
       AfterSkills, Goto, WorkerPC, qvars
  <2>3. pc[g] \notin {"none", "exited"}
    BY <1>5 DEF Worker, WorkerQueueFor, WorkerGet, WorkerQuit, Fetch, MatchSkills,
       ReadClock, AllowSkill, SkipSkill, EndSession, FailSession, WorkerDone, Goto
  <2>4. \A h \in GVR \ {g} : queue'[h] = queue[h]
    BY <1>0, <1>5 DEF Worker, WorkerQueueFor, WorkerGet, WorkerQuit, Fetch, MatchSkills,
       ReadClock, AllowSkill, SkipSkill, EndSession, FailSession, WorkerDone,
       Q!QueueFor, Q!Get, Q!Done, qvars
  <2>5. \A h \in GVR : pc'[h] = "exited" => h \in shut /\ queue'[h] = <<>>
    BY <1>0, <2>2, <2>4 DEF Q!Quits
  <2> QED BY <1>0, <1>5, <2>1, <2>2, <2>3, <2>5 DEF run
<1> QED BY <1>1, <1>2, <1>3, <1>4, <1>5 DEF Next, vars, qvars

-----------------------------------------------------------------------------
(* No update is forgotten. What one object's part of the invariant needs:    *)
(* that it is stale, and where it is remembered.                             *)

Stale(o) == o[1] \in listed /\ ~cancelled /\ live[o] /\ looked[o] < ver[o]

Noted(o)   == events[o] # <<>> /\ Newest(o) # "Delete"
InQueue(o) == o[2] \in dirty[o[1]]
AtHand(o)  == pc[o[1]] = "fetch" /\ key[o[1]] = o[2]

LEMMA ForgottenParts ==
  NoUpdateForgotten <=> \A o \in Object : Stale(o) => Noted(o) \/ InQueue(o) \/ AtHand(o)
BY DEF NoUpdateForgotten, Stale, Noted, InQueue, AtHand

\* The last element of a sequence after an append, and of what follows a head.
LEMMA NewestAppended ==
  ASSUME NEW S, NEW s \in Seq(S), NEW x \in S
  PROVE  Append(s, x) # <<>> /\ Append(s, x)[Len(Append(s, x))] = x
BY AppendProperties

LEMMA NewestKept ==
  ASSUME NEW S, NEW s \in Seq(S), s # <<>>
  PROVE  IF Tail(s) = <<>> THEN s[Len(s)] = Head(s)
                           ELSE Tail(s)[Len(Tail(s))] = s[Len(s)]
<1>1. /\ Len(s) \in Nat \ {0}
      /\ Head(s) = s[1]
      /\ Tail(s) \in Seq(S)
      /\ Len(Tail(s)) = Len(s) - 1
      /\ \A i \in 1..Len(Tail(s)) : Tail(s)[i] = s[i + 1]
  BY EmptySeq, HeadTailProperties
<1>2. CASE Tail(s) = <<>>
  <2>1. Len(Tail(s)) = 0
    BY <1>2, EmptySeq
  <2>2. Len(s) - 1 = 0
    BY <1>1, <2>1
  <2>3. Len(s) = 1
    <3>1. Len(s) \in Nat
      BY <1>1
    <3> QED BY <2>2, <3>1
  <2> QED BY <1>1, <1>2, <2>3
<1>3. CASE Tail(s) # <<>>
  <2>1. Len(Tail(s)) \in Nat \ {0}
    BY <1>1, <1>3, EmptySeq
  <2> QED BY <1>1, <1>3, <2>1
<1> QED BY <1>2, <1>3

\* A step that disturbs none of the places an update is remembered in.
LEMMA QuietStep ==
  ASSUME NoUpdateForgotten, UNCHANGED <<api, dirty, cancelled, pc, key, looked>>
  PROVE  NoUpdateForgotten'
BY DEF NoUpdateForgotten, Newest, api

LEMMA WriteRemembers ==
  ASSUME Inv, NEW o \in Object, NEW exists \in BOOLEAN, NEW type \in EventType,
         exists => type # "Delete", Write(o, exists, type)
  PROVE  NoUpdateForgotten'
<1>0. /\ NoUpdateForgotten
      /\ live \in [Object -> BOOLEAN] /\ ver \in [Object -> Version]
      /\ events \in [Object -> Seq(EventType)]
  BY DEF Inv, TypeOK
<1>1. UNCHANGED <<listed, dirty, cancelled, pc, key, looked>>
  BY DEF Write, qvars, run, local, hist
<1>2. SUFFICES ASSUME NEW p \in Object, Stale(p)'
               PROVE  Noted(p)' \/ InQueue(p)' \/ AtHand(p)'
  BY DEF NoUpdateForgotten, Stale, Noted, InQueue, AtHand
<1>3. CASE p = o
  <2>1. exists /\ o[1] \in listed /\ ~cancelled
    BY <1>0, <1>1, <1>2, <1>3 DEF Write, Stale
  <2>2. events'[o] = Append(events[o], type)
    BY <1>0, <2>1 DEF Write, Notify
  <2>3. events'[o] # <<>> /\ events'[o][Len(events'[o])] = type
    BY <1>0, <2>2, NewestAppended
  <2> QED BY <1>3, <2>1, <2>3 DEF Noted, Newest
<1>4. CASE p # o
  <2>1. events'[p] = events[p] /\ ver'[p] = ver[p] /\ live'[p] = live[p]
    BY <1>0, <1>4 DEF Write, Notify
  <2> QED BY <1>0, <1>1, <1>2, <2>1, ForgottenParts
             DEF Stale, Noted, Newest, InQueue, AtHand
<1> QED BY <1>3, <1>4

LEMMA RelistRemembers ==
  ASSUME Inv, NEW g \in GVR, List(g) \/ Relist(g)
  PROVE  NoUpdateForgotten'
<1>0. NoUpdateForgotten /\ events \in [Object -> Seq(EventType)]
  BY DEF Inv, TypeOK
<1>1. UNCHANGED <<ver, live, dirty, cancelled, pc, key, looked>>
  BY DEF List, Relist, qvars, run, local, hist
<1>2. SUFFICES ASSUME NEW p \in Object, Stale(p)'
               PROVE  Noted(p)' \/ InQueue(p)' \/ AtHand(p)'
  BY DEF NoUpdateForgotten, Stale, Noted, InQueue, AtHand
<1>3. CASE p[1] # g
  <2>1. events'[p] = events[p] /\ (p[1] \in listed' => p[1] \in listed)
    BY <1>3 DEF List, Relist
  <2> QED BY <1>0, <1>1, <1>2, <2>1, ForgottenParts
             DEF Stale, Noted, Newest, InQueue, AtHand
<1>4. CASE p[1] = g /\ List(g)
  <2>1. events'[p] = <<"Add">>
    BY <1>1, <1>2, <1>4 DEF List, Stale
  <2> QED BY <2>1 DEF Noted, Newest
<1>5. CASE p[1] = g /\ Relist(g)
  <2>1. events'[p] = Latest(p) /\ listed' = listed /\ live[p]
    BY <1>1, <1>2, <1>5 DEF Relist, Stale
  <2>2. CASE events[p] = <<>>
    <3>1. InQueue(p) \/ AtHand(p)
      BY <1>0, <1>1, <1>2, <2>1, <2>2, ForgottenParts DEF Stale, Noted
    <3> QED BY <1>1, <3>1 DEF InQueue, AtHand
  <2>3. CASE events[p] # <<>>
    <3>1. events'[p] \in {<<"Add">>, <<"Modify">>}
      BY <2>1, <2>3 DEF Latest
    <3> QED BY <3>1 DEF Noted, Newest
  <2> QED BY <2>2, <2>3
<1> QED BY <1>3, <1>4, <1>5

\* The handler passes a notification on to a queue that still accepts it.
LEMMA HandlerRemembers ==
  ASSUME Inv, NEW g \in GVR, NEW k \in Key, HandlerAdd(g, k) \/ IgnoreDelete(g, k)
  PROVE  NoUpdateForgotten'
<1>0. /\ NoUpdateForgotten
      /\ events \in [Object -> Seq(EventType)]
      /\ dirty \in [GVR -> SUBSET Key]
      /\ shut # {} => cancelled
  BY DEF Inv, TypeOK, Q!TypeOK, StopOrder
<1> DEFINE o == <<g, k>>
<1>1. UNCHANGED <<ver, live, listed, cancelled, pc, key, looked>>
  BY DEF HandlerAdd, IgnoreDelete, run, local, hist
<1>2. SUFFICES ASSUME NEW p \in Object, Stale(p)'
               PROVE  Noted(p)' \/ InQueue(p)' \/ AtHand(p)'
  BY DEF NoUpdateForgotten, Stale, Noted, InQueue, AtHand
<1>3. Stale(p)
  BY <1>1, <1>2 DEF Stale
<1>4. p[1] \in GVR /\ (p # o => events'[p] = events[p])
  BY <1>0 DEF HandlerAdd, IgnoreDelete, Object
<1>5. InQueue(p) => InQueue(p)'
  BY <1>0, <1>4 DEF InQueue, HandlerAdd, IgnoreDelete, Q!Add, qvars
<1>6. AtHand(p) => AtHand(p)'
  BY <1>1 DEF AtHand
<1>7. CASE p # o
  BY <1>0, <1>3, <1>4, <1>5, <1>6, <1>7, ForgottenParts DEF Noted, Newest
<1>8. CASE p = o /\ HandlerAdd(g, k)
  <2>1. g \notin shut
    BY <1>0, <1>3 DEF Stale
  <2>2. k \in dirty'[g]
    BY <1>0, <1>8, <2>1 DEF HandlerAdd, Q!Add, Q!Accepts
  <2> QED BY <1>8, <2>2 DEF InQueue
<1>9. CASE p = o /\ IgnoreDelete(g, k)
  <2>1. /\ events[o] \in Seq(EventType) /\ events[o] # <<>>
        /\ Head(events[o]) = "Delete"
        /\ events'[o] = Tail(events[o])
    BY <1>0, <1>9 DEF IgnoreDelete
  <2>2. Noted(o) => Noted(o)'
    BY <2>1, NewestKept DEF Noted, Newest
  <2> QED BY <1>0, <1>3, <1>5, <1>6, <1>9, <2>2, ForgottenParts
<1> QED BY <1>7, <1>8, <1>9

\* Get moves the key from the queue into the worker's hand, and the look-up
\* is of the newest version.
LEMMA WorkerRemembers ==
  ASSUME Inv, NEW g \in GVR, Worker(g)
  PROVE  NoUpdateForgotten'
<1>0. /\ NoUpdateForgotten
      /\ pc \in [GVR -> WorkerPC] /\ key \in [GVR -> Key]
      /\ looked \in [Object -> Version] /\ ver \in [Object -> Version]
      /\ dirty \in [GVR -> SUBSET Key]
  BY DEF Inv, TypeOK, Q!TypeOK
<1>1. UNCHANGED <<api, cancelled>>
  BY DEF Worker, WorkerQueueFor, WorkerGet, WorkerQuit, Fetch, MatchSkills, ReadClock,
     AllowSkill, SkipSkill, EndSession, FailSession, WorkerDone, run
<1>2. SUFFICES ASSUME NEW p \in Object, Stale(p)'
               PROVE  Noted(p)' \/ InQueue(p)' \/ AtHand(p)'
  BY DEF NoUpdateForgotten, Stale, Noted, InQueue, AtHand
<1>3. p[1] \in GVR /\ p[2] \in Key /\ p = <<p[1], p[2]>>
  BY DEF Object
<1>4. Noted(p) => Noted(p)'
  BY <1>1 DEF Noted, Newest, api
<1>5. CASE WorkerGet(g)
  <2>1. Stale(p)
    BY <1>1, <1>2, <1>5 DEF Stale, WorkerGet, api, hist
  <2>2. PICK k \in Key : Q!Get(g, k) /\ key' = [key EXCEPT ![g] = k]
    BY <1>5 DEF WorkerGet
  <2>3. InQueue(p) => InQueue(p)' \/ AtHand(p)'
    BY <1>0, <1>3, <1>5, <2>2 DEF InQueue, AtHand, WorkerGet, Goto, Q!Get
  <2>4. AtHand(p) => AtHand(p)'
    BY <1>0, <1>3, <1>5, <2>2 DEF AtHand, WorkerGet, Goto
  <2> QED BY <1>0, <1>4, <2>1, <2>3, <2>4, ForgottenParts
<1>6. CASE Fetch(g)
  <2>1. <<g, key[g]>> \in Object /\ dirty' = dirty /\ key' = key
    BY <1>0, <1>6 DEF Fetch, Object, qvars
  <2>2. p # <<g, key[g]>>
    <3>1. looked'[<<g, key[g]>>] = ver[<<g, key[g]>>] /\ ver' = ver
      BY <1>0, <1>1, <1>6, <2>1 DEF Fetch, api
    <3>2. ver[<<g, key[g]>>] \in Int
      BY <1>0, <2>1, VersionAssumption DEF Version
    <3> QED BY <1>2, <3>1, <3>2 DEF Stale
  <2>3. Stale(p)
    BY <1>0, <1>1, <1>2, <1>6, <2>2 DEF Stale, Fetch, api
  <2>4. AtHand(p) => AtHand(p)'
    BY <1>0, <1>3, <1>6, <2>1, <2>2 DEF AtHand, Fetch, Goto
  <2> QED BY <1>0, <1>4, <2>1, <2>3, <2>4, ForgottenParts DEF InQueue
<1>7. CASE ~WorkerGet(g) /\ ~Fetch(g)
  <2>1. UNCHANGED <<dirty, looked, key>>
    BY <1>7 DEF Worker, WorkerQueueFor, WorkerQuit, MatchSkills, ReadClock, AllowSkill,
       SkipSkill, EndSession, FailSession, WorkerDone, Q!QueueFor, Q!Done, qvars, hist, local
  <2>2. pc[g] # "fetch" /\ \E to \in WorkerPC : pc' = [pc EXCEPT ![g] = to]
    BY <1>7 DEF Worker, WorkerQueueFor, WorkerQuit, MatchSkills, ReadClock, AllowSkill,
       SkipSkill, EndSession, FailSession, WorkerDone, AfterSkills, Goto, WorkerPC
  <2>3. Stale(p) /\ (AtHand(p) => AtHand(p)')
    BY <1>0, <1>1, <1>2, <1>3, <2>1, <2>2 DEF Stale, AtHand, api
  <2> QED BY <1>0, <1>4, <2>1, <2>3, ForgottenParts DEF InQueue
<1> QED BY <1>5, <1>6, <1>7

LEMMA ForgetNext ==
  ASSUME Inv, [Next]_vars
  PROVE  NoUpdateForgotten'
<1>0. NoUpdateForgotten
  BY DEF Inv
<1>1. CASE UNCHANGED vars
  BY <1>0, <1>1, QuietStep DEF vars, qvars, run, local, hist
<1>2. CASE Environment
  <2>1. CASE \E o \in Object : Create(o) \/ Modify(o) \/ Delete(o)
    BY <2>1, WriteRemembers DEF Create, Modify, Delete, EventType
  <2>2. CASE \E g \in GVR : List(g) \/ Relist(g)
    BY <2>2, RelistRemembers
  <2>3. CASE Cancel
    BY <2>3 DEF Cancel, NoUpdateForgotten
  <2>4. CASE UpdateSkills \/ Tick
    BY <1>0, <2>4, QuietStep DEF UpdateSkills, Tick, qvars, run, local, hist
  <2> QED BY <1>2, <2>1, <2>2, <2>3, <2>4 DEF Environment
<1>3. CASE Run
  <2>1. CASE StartWorkers
    <3>1. \A g \in GVR : pc[g] = "none"
      BY <2>1 DEF StartWorkers, Inv, StopOrder
    <3>2. UNCHANGED <<api, dirty, cancelled, looked>>
      BY <2>1 DEF StartWorkers, qvars, hist
    <3> QED BY <1>0, <3>1, <3>2 DEF NoUpdateForgotten, Newest, Object, api
  <2>2. CASE CollectGVRs \/ ShutDown \/ Return
    BY <1>0, <2>2, QuietStep DEF CollectGVRs, ShutDown, Return, Q!ShutDownAll, qvars,
       local, hist
  <2> QED BY <1>3, <2>1, <2>2 DEF Run
<1>4. ASSUME NEW g \in GVR, Handler(g)
      PROVE  NoUpdateForgotten'
  <2>1. CASE HandlerQueueFor(g)
    BY <1>0, <2>1, QuietStep DEF HandlerQueueFor, Q!QueueFor, run, local, hist
  <2> QED BY <1>4, <2>1, HandlerRemembers DEF Handler
<1>5. CASE \E g \in GVR : Worker(g)
  BY <1>5, WorkerRemembers
<1> QED BY <1>1, <1>2, <1>3, <1>4, <1>5 DEF Next

LEMMA NextInv == Inv /\ [Next]_vars => Inv'
BY QueueSafeNext, TypeNext, HoldNext, StopOrderNext, ForgetNext DEF Inv

LEMMA SafetyInv == Spec => []Inv
BY InitInv, NextInv, PTL DEF Spec, Safety

-----------------------------------------------------------------------------
(* What is run was asked for. Collecting the types gives each a string that *)
(* names it, and the version a worker matches is the one it looked up.      *)

Gathered == \A g \in GVR : gvrMap[g] # NoGVK => parseGVR(gvrMap[g]) = g

AfterFetch == {"match", "next", "limit", "run"}

GotIsLooked == \A g \in GVR : pc[g] \in AfterFetch => got[g] = looked[<<g, key[g]>>]

TriggerInv == Gathered /\ GotIsLooked /\ SessionsAreTriggered

\* At the start no type has a string and no worker a session.
LEMMA TriggerInit == Init => TriggerInv
BY DEF Init, TriggerInv, Gathered, GotIsLooked, AfterFetch, SessionsAreTriggered

\* The map of types is written once, with strings that name their types.
LEMMA GatheredNext ==
  ASSUME TypeOK, TriggerInv, [Next]_vars
  PROVE  Gathered'
<1>0. Gathered
  BY DEF TriggerInv
<1>1. CASE UNCHANGED gvrMap
  BY <1>0, <1>1 DEF Gathered
<1>2. CASE CollectGVRs
  <2> SUFFICES ASSUME NEW g \in GVR, gvrMap'[g] # NoGVK
               PROVE  parseGVR(gvrMap'[g]) = g
    BY DEF Gathered
  <2>1. IsCollected(gvrMap')
    BY <1>2 DEF CollectGVRs
  <2>2. PICK c \in Claims(g) : gvrMap'[g] = Triggers[c[1]][c[2]].gvk
    BY <2>1 DEF IsCollected
  <2> QED BY <2>2 DEF Claims
<1> QED BY <1>1, <1>2 DEF Next, Environment, Create, Modify, Delete, Write, List, Relist, Cancel,
          UpdateSkills, Tick, Run, StartWorkers, ShutDown, Return, Handler, HandlerQueueFor,
          HandlerAdd, IgnoreDelete, Worker, WorkerQueueFor, WorkerGet, WorkerQuit, Fetch,
          MatchSkills, ReadClock, AllowSkill, SkipSkill, EndSession, FailSession, WorkerDone,
          vars, run

\* A skill that matches was triggered.
LEMMA MatchingTriggered ==
  ASSUME TypeOK, TriggerInv, NEW g \in GVR, pc[g] = "match", NEW s \in Matching(g)
  PROVE  s \in Skill /\ Triggered(s, <<g, key[g]>>)
<1>1. PICK t \in Range(Triggers[s]) : /\ t.gvk = gvrMap[g]
                                      /\ containsEventType(t, "Add")
                                      /\ Holds(t, got[g])
  BY DEF Matching
<1>2. s \in Skill
  BY DEF Matching, TypeOK
<1>3. Triggers[s] \in Seq(Trigger)
  BY <1>2, TriggersAssumption
<1>4. t \in Trigger
  <2>1. PICK i \in DOMAIN Triggers[s] : t = Triggers[s][i]
    BY DEF Range
  <2> QED BY <1>3, <2>1, ElementOfSeq, LenProperties
<1>5. t.gvk # NoGVK
  BY <1>4, NoGVKAssumption DEF Trigger
<1>6. parseGVR(t.gvk) = g
  BY <1>1, <1>5 DEF TriggerInv, Gathered
<1>7. got[g] = looked[<<g, key[g]>>]
  BY DEF TriggerInv, GotIsLooked, AfterFetch
<1> QED BY <1>1, <1>2, <1>6, <1>7 DEF Triggered

\* A step of worker g keeps what it matches or runs tied to the version looked up.
LEMMA WorkerTriggered ==
  ASSUME TypeOK, TriggerInv, NEW g \in GVR, Worker(g)
  PROVE  GotIsLooked' /\ SessionsAreTriggered'
<1> USE DEF AfterFetch, WorkerPC
<1>0. /\ pc \in [GVR -> WorkerPC] /\ key \in [GVR -> Key] /\ got \in [GVR -> Version]
      /\ todo \in [GVR -> SUBSET Skill] /\ looked \in [Object -> Version]
      /\ ver \in [Object -> Version]
      /\ GotIsLooked /\ SessionsAreTriggered
  BY DEF TypeOK, TriggerInv
<1>1. CASE WorkerQueueFor(g) \/ WorkerQuit(g) \/ WorkerDone(g) \/ ReadClock(g)
           \/ \E s \in Skill : AllowSkill(g, s)
  <2>1. /\ UNCHANGED <<key, got, todo, looked>>
        /\ \/ /\ pc[g] \in {"next", "limit"}
              /\ pc' = [pc EXCEPT ![g] = IF pc[g] = "next" THEN "limit" ELSE "run"]
           \/ /\ pc' = [pc EXCEPT ![g] = "get"] \/ pc' = [pc EXCEPT ![g] = "exited"]
    BY <1>1 DEF WorkerQueueFor, WorkerQuit, WorkerDone, ReadClock, AllowSkill, Goto, local, hist
  <2> QED BY <1>0, <2>1 DEF GotIsLooked, SessionsAreTriggered, Triggered
<1>2. CASE WorkerGet(g)
  <2>1. PICK k \in Key : key' = [key EXCEPT ![g] = k]
    BY <1>2 DEF WorkerGet
  <2>2. UNCHANGED <<got, todo, looked>> /\ pc' = [pc EXCEPT ![g] = "fetch"]
    BY <1>2 DEF WorkerGet, Goto, hist
  <2> QED BY <1>0, <2>1, <2>2 DEF GotIsLooked, SessionsAreTriggered, Triggered
<1>3. CASE Fetch(g)
  <2> DEFINE o == <<g, key[g]>>
  <2>1. o \in Object /\ UNCHANGED <<key, todo>> /\ looked' = [looked EXCEPT ![o] = ver[o]]
    BY <1>0, <1>3 DEF Fetch, Object
  <2>2. \/ pc' = [pc EXCEPT ![g] = "match"] /\ got' = [got EXCEPT ![g] = ver[o]]
        \/ pc' = [pc EXCEPT ![g] = "done"] /\ UNCHANGED got
    BY <1>3 DEF Fetch, Goto
  <2>3. \A h \in GVR : h # g => /\ pc'[h] = pc[h] /\ got'[h] = got[h] /\ todo'[h] = todo[h]
                                /\ looked'[<<h, key'[h]>>] = looked[<<h, key[h]>>]
    BY <1>0, <2>1, <2>2 DEF Object
  <2>4. /\ pc'[g] \in {"match", "done"}
        /\ pc'[g] = "match" => got'[g] = looked'[<<g, key'[g]>>]
    BY <1>0, <2>1, <2>2
  <2>5. GotIsLooked'
    BY <1>0, <2>3, <2>4 DEF GotIsLooked
  <2>6. \A h \in GVR : h # g => \A s \in todo[h] :
           Triggered(s, <<h, key[h]>>) => Triggered(s, <<h, key[h]>>)'
    BY <1>0, <2>3 DEF Triggered
  <2>7. SessionsAreTriggered'
    BY <1>0, <2>3, <2>4, <2>6 DEF SessionsAreTriggered
  <2> QED BY <2>5, <2>7
<1>4. CASE MatchSkills(g)
  <2>1. /\ UNCHANGED <<key, got, looked>> /\ pc[g] = "match"
        /\ pc' = [pc EXCEPT ![g] = AfterSkills(Matching(g))]
        /\ todo' = [todo EXCEPT ![g] = Matching(g)]
    BY <1>4 DEF MatchSkills, Goto, hist
  <2>2. GotIsLooked'
    BY <1>0, <2>1 DEF GotIsLooked, AfterSkills
  <2>3. \A s \in Matching(g) : Triggered(s, <<g, key[g]>>)
    BY <2>1, MatchingTriggered
  <2>4. pc'[g] # "done" => todo'[g] # {}
    BY <1>0, <2>1 DEF AfterSkills
  <2>5. SessionsAreTriggered'
    BY <1>0, <2>1, <2>3, <2>4 DEF SessionsAreTriggered, Triggered, AfterSkills
  <2> QED BY <2>2, <2>5
<1>5. CASE FailSession(g) \/ \E s \in Skill : SkipSkill(g, s) \/ EndSession(g, s)
  <2>1. PICK rest \in SUBSET todo[g] :
           /\ todo' = [todo EXCEPT ![g] = rest]
           /\ pc' = [pc EXCEPT ![g] = AfterSkills(rest)]
    <3>1. CASE FailSession(g)
      BY <1>0, <3>1 DEF FailSession, Goto, AfterSkills
    <3>2. CASE \E s \in Skill : SkipSkill(g, s) \/ EndSession(g, s)
      BY <1>0, <3>2 DEF SkipSkill, EndSession, Goto
    <3> QED BY <1>5, <3>1, <3>2
  <2>2. UNCHANGED <<key, got, looked>> /\ pc[g] \in {"limit", "run"}
    BY <1>5 DEF FailSession, SkipSkill, EndSession, Goto, hist
  <2> QED BY <1>0, <2>1, <2>2 DEF GotIsLooked, SessionsAreTriggered, Triggered, AfterSkills
<1> QED BY <1>1, <1>2, <1>3, <1>4, <1>5 DEF Worker

\* Every other step leaves the workers' sessions alone, or starts all workers.
LEMMA TriggerNext == TypeOK /\ TriggerInv /\ [Next]_vars => TriggerInv'
<1> SUFFICES ASSUME TypeOK, TriggerInv, [Next]_vars PROVE TriggerInv'
  OBVIOUS
<1>1. Gathered'
  BY GatheredNext
<1>2. GotIsLooked /\ SessionsAreTriggered
  BY DEF TriggerInv
<1>3. CASE UNCHANGED <<pc, key, got, todo, looked>>
  BY <1>1, <1>2, <1>3 DEF TriggerInv, GotIsLooked, SessionsAreTriggered, Triggered
<1>4. CASE Environment \/ \E g \in GVR : Handler(g)
  BY <1>3, <1>4 DEF Environment, Create, Modify, Delete, Write, List, Relist, Cancel, UpdateSkills,
     Tick, Handler, HandlerQueueFor, HandlerAdd, IgnoreDelete, local, hist
<1>5. CASE Run
  <2>1. CASE StartWorkers
    BY <1>1, <1>2, <2>1 DEF StartWorkers, TriggerInv, GotIsLooked, AfterFetch,
       SessionsAreTriggered, local, hist
  <2>2. CASE CollectGVRs \/ ShutDown \/ Return
    BY <1>3, <2>2 DEF CollectGVRs, ShutDown, Return, local, hist
  <2> QED BY <1>5, <2>1, <2>2 DEF Run
<1>6. CASE \E g \in GVR : Worker(g)
  BY <1>1, <1>6, WorkerTriggered DEF TriggerInv
<1> QED BY <1>3, <1>4, <1>5, <1>6 DEF Next, vars, local, hist

-----------------------------------------------------------------------------
(* The theorems.                                                            *)

\* The whole state of the event loop keeps its declared shape.
THEOREM TypeCorrect == Spec => []TypeOK
<1>1. Inv => TypeOK
  BY DEF Inv
<1> QED BY <1>1, SafetyInv, PTL

\* In the composed system too the three parts of every queue agree.
THEOREM QueuesCorrect == Spec => []QP!QueueInv
<1>1. Inv => QP!QueueInv
  BY DEF Inv, QueueSafe, QP!Inv
<1> QED BY <1>1, SafetyInv, PTL

\* No update of a watched object is lost between the informer, the queue and
\* the worker that looks it up.
THEOREM NoUpdateIsForgotten == Spec => []NoUpdateForgotten
<1>1. Inv => NoUpdateForgotten
  BY DEF Inv
<1> QED BY <1>1, SafetyInv, PTL

\* A key is held by its worker exactly from Get to Done.
THEOREM WorkersHold == Spec => []WorkersHoldTheirKey
<1>1. Inv => WorkersHoldTheirKey
  BY DEF Inv
<1> QED BY <1>1, SafetyInv, PTL

\* If Run returns, every worker has left and no accepted key is left behind.
THEOREM ReturnIsDrained == Spec => []DrainedAtReturn
<1>1. Inv => DrainedAtReturn
  <2> SUFFICES ASSUME Inv, phase = "returned", NEW g \in Watched
               PROVE  pc[g] = "exited" /\ dirty[g] = {} /\ processing[g] = {}
    BY DEF DrainedAtReturn
  <2>1. g \in GVR /\ pc[g] = "exited" /\ queue[g] = <<>>
    BY DEF Inv, StopOrder, Watched
  <2>2. processing[g] = {}
    BY <2>1 DEF Inv, WorkersHoldTheirKey, Busy
  <2>3. QP!Range(queue[g]) = {}
    BY <2>1 DEF QP!Range
  <2>4. dirty[g] = {}
    <3>1. dirty[g] \in SUBSET Key
      BY <2>1 DEF Inv, TypeOK, Q!TypeOK
    <3>2. QP!Range(queue[g]) = dirty[g] \ processing[g]
      BY <2>1 DEF Inv, QueueSafe, QP!Inv, QP!QueueInv
    <3> QED BY <2>2, <2>3, <3>2
  <2> QED BY <2>1, <2>2, <2>4
<1> QED BY <1>1, SafetyInv, PTL

\* The event loop as a whole implements the abstract lifecycle of the keys: its
\* steps are steps of the queues, and those implement it.
THEOREM LifecycleKept == Spec => KeepsLifecycle
<1>1. Init => Q!KL!Init
  BY DEF Init, Q!Init, Q!KL!Init
<1>2. Inv /\ [Next]_vars => [Q!KL!Next]_(Q!KL!vars)
  <2>1. Inv /\ [Next]_vars => [QP!KL!Next]_(QP!KL!vars)
    BY QueueStep, QP!LifecycleStep DEF Inv, QueueSafe
  <2>2. QP!KL!Next => Q!KL!Next
    BY DEF QP!KL!Next, QP!KL!Mark, QP!KL!Start, QP!KL!Finish, QP!KL!Close,
           Q!KL!Next, Q!KL!Mark, Q!KL!Start, Q!KL!Finish, Q!KL!Close
  <2>3. UNCHANGED QP!KL!vars => UNCHANGED Q!KL!vars
    BY DEF QP!KL!vars, Q!KL!vars
  <2> QED BY <2>1, <2>2, <2>3
<1> QED BY <1>1, <1>2, SafetyInv, PTL DEF Spec, Safety, KeepsLifecycle, Q!KL!Safety

\* Every skill before a worker was triggered for the object and the version it
\* holds, for any triggers, spellings of types and reloads.
THEOREM SessionsTriggered == Spec => []SessionsAreTriggered
<1>1. TypeOK /\ TriggerInv /\ [Next]_vars => TriggerInv'
  BY TriggerNext
<1>2. TriggerInv => SessionsAreTriggered
  BY DEF TriggerInv
<1> QED BY TriggerInit, <1>1, <1>2, TypeCorrect, PTL DEF Spec, Safety
=============================================================================
