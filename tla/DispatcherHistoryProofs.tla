----------------------- MODULE DispatcherHistoryProofs ----------------------
(* Proofs about the spacing of sessions. The event loop with its history     *)
(* implements the limiter with its own, so what RateLimiterProofs shows of    *)
(* the limiter's callers holds of the loop's workers.                        *)
EXTENDS DispatcherHistory, DispatcherProofs

HP == INSTANCE RateLimiterProofs WITH Caller <- GVR, Resource <- Key

USE DEF L!Never, L!Idle, L!Entry, HP!Never, HP!Idle, HP!Entry

\* The start is one of the loop and one of the limiter.
LEMMA HInitInv == HInit => Inv /\ HP!HInit
<1> SUFFICES ASSUME HInit PROVE Inv /\ HP!HInit
  OBVIOUS
<1>1. Init /\ L!Init
  BY DEF HInit, Init
<1> QED BY <1>1, InitInv DEF HInit, L!Init, HP!HInit, HP!Init

\* At most one skill is current for a worker.
LEMMA OneCurrent ==
  ASSUME TypeOK, NEW g \in GVR, NEW s \in Skill, NEW t \in Skill, Current(g, s), Current(g, t)
  PROVE  s = t
BY SkillAssumption DEF Current

\* A step in which only worker g moves, from the limiter to a session of s.
LEMMA GrantBegins ==
  ASSUME TypeOK, HNext, NEW g \in GVR, NEW s \in Skill, AllowSkill(g, s)
  PROVE  /\ <<key[g], s>> \in L!Entry
         /\ started' = [e \in L!Entry |-> IF e = <<key[g], s>> THEN now ELSE started[e]]
<1>1. key[g] \in Key /\ pc \in [GVR -> WorkerPC]
  BY DEF TypeOK
<1>2. Current(g, s) /\ pc[g] = "limit" /\ pc' = [pc EXCEPT ![g] = "run"]
  BY DEF AllowSkill, Goto
<1>3. ASSUME NEW e \in L!Entry
      PROVE  (\E h \in GVR : key[h] = e[1] /\ Begins(h, e[2])) <=> e = <<key[g], s>>
  <2>1. e = <<e[1], e[2]>> /\ e[2] \in Skill
    OBVIOUS
  <2>2. \A h \in GVR : Begins(h, e[2]) => h = g
    BY <1>1, <1>2 DEF Begins
  <2>3. Begins(g, e[2]) => e[2] = s
    BY <1>2, <2>1, OneCurrent DEF Begins
  <2>4. Begins(g, s)
    BY <1>1, <1>2 DEF Begins
  <2> QED BY <2>1, <2>2, <2>3, <2>4
<1> QED BY <1>1, <1>3 DEF HNext

\* Sessions begin in no other step than a grant.
LEMMA BeginIsGrant ==
  ASSUME TypeOK, Next, NEW g \in GVR, NEW s \in Skill, Begins(g, s)
  PROVE  AllowSkill(g, s)
<1>1. pc \in [GVR -> WorkerPC] /\ pc[g] # "run" /\ pc'[g] = "run"
  BY DEF Begins, TypeOK
<1>2. Worker(g)
  <2>1. ~Environment /\ ~Run /\ \A h \in GVR : ~Handler(h)
    BY <1>1 DEF Environment, Create, Modify, Delete, Write, List, Relist, Cancel, UpdateSkills,
       Tick, Run, CollectGVRs, StartWorkers, ShutDown, Return, Handler, HandlerQueueFor,
       HandlerAdd, IgnoreDelete
  <2>2. \A h \in GVR : Worker(h) => h = g
    BY <1>1 DEF Worker, WorkerQueueFor, WorkerGet, WorkerQuit, Fetch, MatchSkills, ReadClock,
       AllowSkill, SkipSkill, EndSession, FailSession, WorkerDone, Goto
  <2> QED BY <2>1, <2>2 DEF Next
<1>3. PICK t \in Skill : AllowSkill(g, t)
  BY <1>1, <1>2 DEF Worker, WorkerQueueFor, WorkerGet, WorkerQuit, Fetch, MatchSkills, ReadClock,
     SkipSkill, EndSession, FailSession, WorkerDone, Goto, AfterSkills
<1>4. t = s
  BY <1>3, OneCurrent DEF Begins, AllowSkill
<1> QED BY <1>3, <1>4

\* A step that grants nothing leaves the history alone.
LEMMA NothingBegins ==
  ASSUME TypeOK, HNext, started \in [L!Entry -> Int],
         \A g \in GVR, s \in Skill : ~AllowSkill(g, s)
  PROVE  UNCHANGED started
<1>1. \A e \in L!Entry : e[2] \in Skill
  OBVIOUS
<1>2. \A g \in GVR, e \in L!Entry : ~Begins(g, e[2])
  BY <1>1, BeginIsGrant DEF HNext
<1> QED BY <1>2 DEF HNext

\* Every step of the event loop is a step of the limiter.
LEMMA LimiterStep ==
  ASSUME TypeOK, started \in [L!Entry -> Int], [HNext]_hvars
  PROVE  [HP!HNext]_(HP!hvars)
<1> USE DEF HP!hvars, HP!vars
<1>1. CASE UNCHANGED hvars
  BY <1>1 DEF hvars, vars, lvars
<1>2. ASSUME HNext, NEW g \in GVR, NEW s \in Skill, AllowSkill(g, s)
      PROVE  HP!HNext
  <2>1. /\ <<key[g], s>> \in HP!Entry
        /\ started' = [e \in L!Entry |-> IF e = <<key[g], s>> THEN now ELSE started[e]]
    BY <1>2, GrantBegins
  <2>2. started' = [started EXCEPT ![<<key[g], s>>] = now]
    BY <2>1
  <2>3. HP!Allow(g, <<key[g], s>>)
    BY <1>2 DEF AllowSkill, L!Allow, L!TooSoon, HP!Allow, HP!TooSoon
  <2> QED BY <2>1, <2>2, <2>3 DEF HP!HNext, HP!HAllow
<1>3. ASSUME HNext, \A g \in GVR, s \in Skill : ~AllowSkill(g, s)
      PROVE  [HP!HNext]_(HP!hvars)
  <2>1. UNCHANGED started
    BY <1>3, NothingBegins
  <2>2. CASE UNCHANGED lvars
    BY <2>1, <2>2 DEF lvars
  <2>3. CASE Tick
    BY <2>1, <2>3 DEF Tick, L!Tick, HP!Tick, HP!HNext
  <2>4. CASE \E g \in GVR : ReadClock(g)
    BY <2>1, <2>4 DEF ReadClock, L!ReadClock, HP!ReadClock, HP!HNext
  <2>5. ASSUME NEW g \in GVR, NEW s \in Skill, SkipSkill(g, s)
        PROVE  HP!HNext
    <3>1. <<key[g], s>> \in HP!Entry
      BY DEF TypeOK
    <3>2. HP!Deny(g, <<key[g], s>>)
      BY <2>5 DEF SkipSkill, L!Deny, L!TooSoon, HP!Deny, HP!TooSoon
    <3> QED BY <2>1, <3>1, <3>2 DEF HP!HNext
  <2> QED BY <1>3, <2>2, <2>3, <2>4, <2>5 DEF HNext, Next, Environment, Create, Modify, Delete,
          Write, List, Relist, Cancel, UpdateSkills, Run, CollectGVRs, StartWorkers, ShutDown,
          Return, Handler, HandlerQueueFor, HandlerAdd, IgnoreDelete, Worker, WorkerQueueFor,
          WorkerGet, WorkerQuit, Fetch, MatchSkills, EndSession, FailSession, WorkerDone
<1> QED BY <1>1, <1>2, <1>3

\* What holds of the loop and, in its terms, of the limiter.
HInv == Inv /\ HP!Inv

\* Both invariants are kept together.
LEMMA HNextInv == HInv /\ [HNext]_hvars => HInv'
<1> SUFFICES ASSUME HInv, [HNext]_hvars PROVE HInv'
  OBVIOUS
<1>1. [Next]_vars
  BY DEF HNext, hvars
<1>2. TypeOK /\ started \in [L!Entry -> Int]
  BY LimiterAssumption DEF HInv, Inv, HP!Inv, HP!HTypeOK
<1>3. HP!Inv'
  BY <1>2, LimiterStep, HP!NextInv, LimiterAssumption DEF HInv
<1> QED BY <1>1, <1>3, NextInv DEF HInv

\* So they hold throughout.
LEMMA HSafetyInv == HSpec => []HInv
<1>1. HInit => HInv
  BY HInitInv, HP!InitInv, LimiterAssumption DEF HInv
<1> QED BY <1>1, HNextInv, PTL DEF HSpec

\* However many workers, skills and objects there are, and whatever is reloaded,
\* queued again or fails in between, the loop uses the limiter as it is meant to be
\* used, and a session begins exactly when one is granted.
THEOREM LimiterImplemented == HSpec => ImplementsLimiter
<1>1. HInit => H!HInit
  BY HInitInv DEF HP!HInit, HP!Init, H!HInit, H!Init, H!Idle, H!Never, H!Entry
<1>2. HInv /\ [HNext]_hvars => [H!HNext]_(H!hvars)
  <2>1. HInv /\ [HNext]_hvars => [HP!HNext]_(HP!hvars)
    <3>1. HInv => TypeOK /\ started \in [L!Entry -> Int]
      BY LimiterAssumption DEF HInv, Inv, HP!Inv, HP!HTypeOK
    <3> QED BY <3>1, LimiterStep
  <2>2. HP!HNext => H!HNext
    BY DEF HP!HNext, HP!HAllow, HP!Allow, HP!Deny, HP!TooSoon, HP!ReadClock, HP!Tick,
           H!HNext, H!HAllow, H!Allow, H!Deny, H!TooSoon, H!ReadClock, H!Tick,
           H!Idle, H!Never, H!Entry
  <2>3. UNCHANGED HP!hvars => UNCHANGED H!hvars
    BY DEF HP!hvars, HP!vars, H!hvars, H!vars
  <2> QED BY <2>1, <2>2, <2>3
<1> QED BY <1>1, <1>2, HSafetyInv, PTL DEF HSpec, ImplementsLimiter, H!HSpec

\* What one step may do: the body of SessionsSpaced.
SpacedBegins ==
  \A g \in GVR, s \in Skill : Begins(g, s) =>
     \/ started[<<key[g], s>>] = L!Never
     \/ now - started[<<key[g], s>>] >= Window - MaxStall

\* Where a session begins, the limiter has just compared reading and record.
LEMMA SpacedBegin == HInv /\ [HNext]_hvars => SpacedBegins \/ UNCHANGED hvars
<1> SUFFICES ASSUME HInv, HNext, NEW g \in GVR, NEW s \in Skill, Begins(g, s),
                    started[<<key[g], s>>] # L!Never
             PROVE  now - started[<<key[g], s>>] >= Window - MaxStall
  BY DEF SpacedBegins
<1> DEFINE e == <<key[g], s>>
<1>1. TypeOK /\ e \in L!Entry
  BY DEF HInv, Inv, TypeOK
<1>2. AllowSkill(g, s)
  BY <1>1, BeginIsGrant DEF HNext
<1>3. /\ now \in Int /\ reading[g] \in Int /\ lastFire[e] \in Int /\ started[e] \in Int
      /\ MaxStall \in Int /\ Window \in Int
  BY <1>1, LimiterAssumption DEF HInv, HP!Inv, HP!HTypeOK, HP!TypeOK
<1>4. lastFire[e] # L!Never /\ started[e] - lastFire[e] <= MaxStall
  BY <1>1 DEF HInv, HP!Inv, HP!RecordTracksGrants
<1>5. reading[g] - lastFire[e] >= Window /\ reading[g] # L!Idle
  BY <1>2, <1>3, <1>4 DEF AllowSkill, L!Allow, L!TooSoon
<1>6. reading[g] <= now
  BY <1>5 DEF HInv, HP!Inv, HP!ReadingsFresh
<1> HIDE DEF e
<1>7. now - started[e] >= Window - MaxStall
  BY <1>3, <1>4, <1>5, <1>6
<1> QED BY <1>7 DEF e

\* S3 in the whole event loop: two sessions of one skill on objects of one name
\* begin at least Window - MaxStall apart.
THEOREM SessionsAreSpaced == HSpec => SessionsSpaced
<1>1. HInv /\ [HNext]_hvars =>
        [\A g \in GVR, s \in Skill : Begins(g, s) =>
            \/ started[<<key[g], s>>] = L!Never
            \/ now - started[<<key[g], s>>] >= Window - MaxStall]_hvars
  BY SpacedBegin DEF SpacedBegins
<1> QED BY <1>1, HSafetyInv, PTL DEF HSpec, SessionsSpaced

\* A worker that leaves the limiter without a session was denied one.
LEMMA SkipIsDenial ==
  ASSUME Inv, Next, NEW g \in GVR, NEW s \in Skill, Skips(g, s)
  PROVE  SkipSkill(g, s)
<1>0. TypeOK /\ StopOrder
  BY DEF Inv
<1>1. pc \in [GVR -> WorkerPC] /\ pc[g] = "limit" /\ pc'[g] \notin {"limit", "run"}
  BY <1>0 DEF Skips, TypeOK
<1>2. Worker(g)
  <2>1. ~Environment /\ \A h \in GVR : ~Handler(h)
    BY <1>1 DEF Environment, Create, Modify, Delete, Write, List, Relist, Cancel, UpdateSkills,
       Tick, Handler, HandlerQueueFor, HandlerAdd, IgnoreDelete
  <2>2. \A h \in GVR : Worker(h) => h = g
    BY <1>1 DEF Worker, WorkerQueueFor, WorkerGet, WorkerQuit, Fetch, MatchSkills, ReadClock,
       AllowSkill, SkipSkill, EndSession, FailSession, WorkerDone, Goto
  <2>3. ~Run
    BY <1>0, <1>1 DEF StopOrder, Run, CollectGVRs, StartWorkers, ShutDown, Return
  <2> QED BY <2>1, <2>2, <2>3 DEF Next
<1>3. PICK t \in Skill : SkipSkill(g, t)
  BY <1>1, <1>2 DEF Worker, WorkerQueueFor, WorkerGet, WorkerQuit, Fetch, MatchSkills, ReadClock,
     AllowSkill, EndSession, FailSession, WorkerDone, Goto
<1>4. t = s
  BY <1>0, <1>3, OneCurrent DEF Skips, SkipSkill
<1> QED BY <1>3, <1>4

\* A step that skips a skill follows a start less than Window + MaxStall ago.
LEMMA JustifiedSkip ==
  ASSUME HInv, HNext, NEW g \in GVR, NEW s \in Skill, Skips(g, s)
  PROVE  /\ started[<<key[g], s>>] # L!Never
         /\ now - started[<<key[g], s>>] < Window + MaxStall
<1> DEFINE e == <<key[g], s>>
<1>1. TypeOK /\ e \in L!Entry
  BY DEF HInv, Inv, TypeOK
<1>2. SkipSkill(g, s)
  BY SkipIsDenial DEF HInv, HNext
<1>3. /\ now \in Int /\ reading[g] \in Int /\ lastFire[e] \in Int /\ started[e] \in Int
      /\ MaxStall \in Int /\ Window \in Int
  BY <1>1, LimiterAssumption DEF HInv, HP!Inv, HP!HTypeOK, HP!TypeOK
<1>4. /\ lastFire[e] # L!Never /\ reading[g] - lastFire[e] < Window
      /\ reading[g] # L!Idle
  BY <1>2, <1>3 DEF SkipSkill, L!Deny, L!TooSoon
<1>5. started[e] # L!Never /\ lastFire[e] <= started[e]
  BY <1>1, <1>4 DEF HInv, HP!Inv, HP!RecordTracksGrants
<1>6. now - reading[g] <= MaxStall
  BY <1>4 DEF HInv, HP!Inv, HP!ReadingsFresh
<1> HIDE DEF e
<1>7. now - started[e] < Window + MaxStall
  BY <1>3, <1>4, <1>5, <1>6
<1> QED BY <1>5, <1>7 DEF e

\* A skill is shut out of an object no longer than the window and the stall,
\* whatever fails, races or is reloaded.
THEOREM SkipsJustified == HSpec => SkipsAreJustified
<1>1. HInv /\ [HNext]_hvars =>
        [\A g \in GVR, s \in Skill : Skips(g, s) =>
            /\ started[<<key[g], s>>] # L!Never
            /\ now - started[<<key[g], s>>] < Window + MaxStall]_hvars
  BY JustifiedSkip
<1> QED BY <1>1, HSafetyInv, PTL DEF HSpec, SkipsAreJustified
=============================================================================
