----------------------------- MODULE Dispatcher -----------------------------
(***************************************************************************)
(* The event loop: the informers' handlers feed one workqueue per resource *)
(* type, one worker per resource type takes keys from it, reads the object *)
(* from the API server, matches the loaded skills against it and runs a    *)
(* session of each matching skill the rate limiter admits.  Skills are     *)
(* reloaded and the program is told to stop meanwhile.                     *)
(*                                                                         *)
(* The queues are those of WorkQueue and the limiter that of RateLimiter;  *)
(* a session (module Session) is a single step here, with its outcome.     *)
(***************************************************************************)
EXTENDS Integers, Sequences, Functions

CONSTANTS GVR, Key,            \* resource types; "namespace/name"
          GVK, NoGVK, NoGVR,   \* trigger strings, split at "/"; no string; no type
          Skill,               \* skills, numbered in the order of their names
          Triggers,            \* [Skill -> Seq(triggers)], from the frontmatter
          RESTMapping,         \* [<<group, version, kind>> -> GVR], the REST mapper
          MaxVersion,          \* bound on the writes to an object
          Window, MaxStall, MaxTime

ASSUME SkillAssumption   == Skill \subseteq Nat
ASSUME NoGVKAssumption   == NoGVK \notin GVK
ASSUME NoGVRAssumption   == NoGVR \notin GVR
ASSUME GVKAssumption     == GVK \subseteq Seq(STRING)
ASSUME MappingAssumption == RESTMapping \in [DOMAIN RESTMapping -> GVR]
ASSUME VersionAssumption == MaxVersion \in Nat
ASSUME LimiterAssumption == Window \in Nat /\ MaxStall \in Nat /\ MaxTime \in Nat

Object     == GVR \X Key
Version    == 0..MaxVersion
EventType  == {"Add", "Modify", "Delete"}
Trigger    == [gvk: GVK, types: SUBSET EventType, when: SUBSET Version]

ASSUME TriggersAssumption == Triggers \in [Skill -> Seq(Trigger)]

VARIABLES
    ver, live,        \* the API server: version and existence of every object
    listed, events,   \* the informers: listed types, undelivered notifications
    queue, dirty, processing, created, shut,   \* the workqueues
    now, reading, lastFire,                    \* the rate limiter
    skills,           \* the loaded skills, replaced by a reload
    phase, cancelled, \* how far Run has come; the context is cancelled
    gvrMap,           \* [GVR -> GVK or NoGVK], collected once by Run
    pc, key, got, todo,   \* the workers: step, key, version read, skills to run
    looked,           \* history: version of the object at the last look-up, failed or not
    owed              \* history: objects whose last requeue request is unserved

qvars == <<queue, dirty, processing, created, shut>>
lvars == <<now, reading, lastFire>>
api   == <<ver, live, listed, events>>
run   == <<phase, cancelled, gvrMap>>
local == <<key, got, todo>>
hist  == <<looked, owed>>
vars  == <<api, qvars, lvars, skills, run, pc, local, hist>>

Q == INSTANCE WorkQueue
L == INSTANCE RateLimiter WITH Caller <- GVR, Resource <- Key

Watched == {g \in GVR : gvrMap[g] # NoGVK}

WorkerPC == {"none", "start", "get", "fetch", "match", "next", "limit", "run",
             "done", "exited"}

TypeOK == /\ ver \in [Object -> Version]
          /\ live \in [Object -> BOOLEAN]
          /\ listed \in SUBSET GVR
          /\ events \in [Object -> Seq(EventType)]
          /\ Q!TypeOK
          /\ L!TypeOK
          /\ skills \in SUBSET Skill
          /\ phase \in {"init", "idle", "syncing", "serving", "waiting", "returned"}
          /\ cancelled \in BOOLEAN
          /\ gvrMap \in [GVR -> GVK \cup {NoGVK}]
          /\ pc \in [GVR -> WorkerPC]
          /\ key \in [GVR -> Key]
          /\ got \in [GVR -> Version]
          /\ todo \in [GVR -> SUBSET Skill]
          /\ looked \in [Object -> Version]
          /\ owed \in SUBSET Object

Init == /\ ver = [o \in Object |-> 0]
        /\ live = [o \in Object |-> FALSE]
        /\ listed = {}
        /\ events = [o \in Object |-> <<>>]
        /\ Q!Init
        /\ L!Init
        /\ skills \in SUBSET Skill
        /\ phase = "init"
        /\ cancelled = FALSE
        /\ gvrMap = [g \in GVR |-> NoGVK]
        /\ pc = [g \in GVR |-> "none"]
        /\ key \in [GVR -> Key]
        /\ got = [g \in GVR |-> 0]
        /\ todo = [g \in GVR |-> {}]
        /\ looked = [o \in Object |-> 0]
        /\ owed = {}
-----------------------------------------------------------------------------
(* The environment: users and skills write objects, the API server notifies *)
(* the informers that have listed the type, until the context is cancelled. *)

Notify(o, type) ==
    events' = IF o[1] \in listed /\ ~cancelled
              THEN [events EXCEPT ![o] = Append(@, type)] ELSE events

Write(o, exists, type) ==
    /\ ver[o] < MaxVersion
    /\ ver' = [ver EXCEPT ![o] = @ + 1]
    /\ live' = [live EXCEPT ![o] = exists]
    /\ Notify(o, type)
    /\ UNCHANGED <<listed, qvars, lvars, skills, run, pc, local, hist>>

Create(o) == ~live[o] /\ Write(o, TRUE, "Add")
Modify(o) == live[o] /\ Write(o, TRUE, "Modify")
Delete(o) == live[o] /\ Write(o, FALSE, "Delete")

\* The informer of g lists the objects there are and then watches.
List(g) == /\ phase = "syncing"
           /\ g \in Watched \ listed
           /\ listed' = listed \cup {g}
           /\ events' = [o \in Object |-> IF o[1] = g /\ live[o] THEN <<"Add">>
                                          ELSE events[o]]
           /\ UNCHANGED <<ver, live, qvars, lvars, skills, run, pc, local, hist>>

\* The watch on g breaks and the informer lists again: of each object it
\* learns the latest state only, as a change to what it knew before.
Latest(o) ==
    CASE events[o] = <<>> -> <<>>
      [] events[o] # <<>> /\ Head(events[o]) = "Add" ->
            IF live[o] THEN <<"Add">> ELSE <<>>
      [] OTHER -> IF live[o] THEN <<"Modify">> ELSE <<"Delete">>

Relist(g) == /\ g \in listed
             /\ ~cancelled
             /\ events' = [o \in Object |-> IF o[1] = g THEN Latest(o) ELSE events[o]]
             /\ UNCHANGED <<ver, live, listed, qvars, lvars, skills, run, pc, local, hist>>

Cancel == /\ ~cancelled
          /\ cancelled' = TRUE
          /\ UNCHANGED <<api, qvars, lvars, skills, phase, gvrMap, pc, local, hist>>

\* A hot reload; the watcher passes on no empty set of skills.
UpdateSkills == /\ skills' \in SUBSET Skill \ {{}}
                /\ UNCHANGED <<api, qvars, lvars, run, pc, local, hist>>

Tick == L!Tick /\ UNCHANGED <<api, qvars, skills, run, pc, local, hist>>
-----------------------------------------------------------------------------
(* The handlers. Enqueue takes two locks in turn; a deletion has no handler. *)

HandlerQueueFor(g) ==
    /\ g \notin created
    /\ \E k \in Key : /\ events[<<g, k>>] # <<>>
                      /\ Head(events[<<g, k>>]) # "Delete"
    /\ Q!QueueFor(g)
    /\ UNCHANGED <<api, lvars, skills, run, pc, local, hist>>

HandlerAdd(g, k) ==
    /\ events[<<g, k>>] # <<>>
    /\ Head(events[<<g, k>>]) # "Delete"
    /\ Q!Add(g, k)
    /\ events' = [events EXCEPT ![<<g, k>>] = Tail(@)]
    /\ owed' = owed \ {<<g, k>>}
    /\ UNCHANGED <<ver, live, listed, lvars, skills, run, pc, local, looked>>

IgnoreDelete(g, k) ==
    /\ events[<<g, k>>] # <<>>
    /\ Head(events[<<g, k>>]) = "Delete"
    /\ events' = [events EXCEPT ![<<g, k>>] = Tail(@)]
    /\ UNCHANGED <<ver, live, listed, qvars, lvars, skills, run, pc, local, hist>>

Handler(g) == \/ HandlerQueueFor(g)
              \/ \E k \in Key : HandlerAdd(g, k) \/ IgnoreDelete(g, k)
-----------------------------------------------------------------------------
(* Run.                                                                      *)

\* The type a trigger's string names: without a group it is of the core group.
parseGVR(gvk) ==
    LET parts == CASE Len(gvk) = 3 -> gvk
                   [] Len(gvk) = 2 -> <<"">> \o gvk
                   [] OTHER        -> <<>>
    IN  IF parts \in DOMAIN RESTMapping THEN RESTMapping[parts] ELSE NoGVR

\* The triggers, as <<skill, position>>, whose string resolves to g.
Claims(g) == {c \in UNION {{s} \X DOMAIN Triggers[s] : s \in skills} :
                 parseGVR(Triggers[c[1]][c[2]].gvk) = g}

Later(c, d) == c[1] > d[1] \/ (c[1] = d[1] /\ c[2] >= d[2])

\* Each resource type is given the string of the last trigger that names it.
IsCollected(m) ==
    \A g \in GVR :
        IF Claims(g) = {} THEN m[g] = NoGVK
        ELSE \E c \in Claims(g) : /\ \A d \in Claims(g) : Later(c, d)
                                  /\ m[g] = Triggers[c[1]][c[2]].gvk

\* Run collects the types to watch and, if there are any, starts informers.
CollectGVRs ==
    /\ phase = "init"
    /\ gvrMap' \in {m \in [GVR -> GVK \cup {NoGVK}] : IsCollected(m)}
    /\ phase' = IF \A g \in GVR : Claims(g) = {} THEN "idle" ELSE "syncing"
    /\ UNCHANGED <<api, qvars, lvars, skills, cancelled, pc, local, hist>>

\* The caches have synced, or the wait for them was cut short by ctx.
StartWorkers ==
    /\ phase = "syncing"
    /\ Watched \subseteq listed \/ cancelled
    /\ phase' = "serving"
    /\ pc' = [g \in GVR |-> IF g \in Watched THEN "start" ELSE "none"]
    /\ UNCHANGED <<api, qvars, lvars, skills, cancelled, gvrMap, local, hist>>

\* A faulty variant: Run waits for the workers without shutting their queues.
ShutDownNoQueue ==
    /\ phase \in {"idle", "serving"}
    /\ cancelled
    /\ phase' = IF phase = "idle" THEN "returned" ELSE "waiting"
    /\ UNCHANGED <<api, qvars, lvars, skills, cancelled, gvrMap, pc, local, hist>>

ShutDown ==
    /\ phase \in {"idle", "serving"}
    /\ cancelled
    /\ Q!ShutDownAll
    /\ phase' = IF phase = "idle" THEN "returned" ELSE "waiting"
    /\ UNCHANGED <<api, lvars, skills, cancelled, gvrMap, pc, local, hist>>

\* wg.Wait returns.
Return ==
    /\ phase = "waiting"
    /\ \A g \in Watched : pc[g] = "exited"
    /\ phase' = "returned"
    /\ UNCHANGED <<api, qvars, lvars, skills, cancelled, gvrMap, pc, local, hist>>

Run == CollectGVRs \/ StartWorkers \/ ShutDown \/ Return
-----------------------------------------------------------------------------
(* The workers, one per watched resource type.                               *)

Goto(g, from, to) == pc[g] = from /\ pc' = [pc EXCEPT ![g] = to]

WorkerQueueFor(g) ==
    /\ Goto(g, "start", "get")
    /\ Q!QueueFor(g)
    /\ UNCHANGED <<api, lvars, skills, run, local, hist>>

WorkerGet(g) ==
    /\ Goto(g, "get", "fetch")
    /\ \E k \in Key : Q!Get(g, k) /\ key' = [key EXCEPT ![g] = k]
    /\ UNCHANGED <<api, lvars, skills, run, got, todo, hist>>

WorkerQuit(g) ==
    /\ Goto(g, "get", "exited")
    /\ Q!Quits(g)
    /\ UNCHANGED <<api, qvars, lvars, skills, run, local, hist>>

\* A faulty variant: after a failing look-up the worker forgets q.Done.
FetchLeaks(g) ==
    LET o == <<g, key[g]>>
    IN  /\ \/ /\ live[o] /\ ~cancelled
              /\ Goto(g, "fetch", "match")
              /\ got' = [got EXCEPT ![g] = ver[o]]
           \/ /\ Goto(g, "fetch", "get")
              /\ UNCHANGED got
        /\ looked' = [looked EXCEPT ![o] = ver[o]]
        /\ UNCHANGED <<api, qvars, lvars, skills, run, key, todo, owed>>

\* processItem asks the API server for the object. Deleted objects, a failing
\* server and a cancelled context all end the item.
Fetch(g) ==
    LET o == <<g, key[g]>>
    IN  /\ \/ /\ live[o] /\ ~cancelled
              /\ Goto(g, "fetch", "match")
              /\ got' = [got EXCEPT ![g] = ver[o]]
           \/ /\ Goto(g, "fetch", "done")
              /\ UNCHANGED got
        /\ looked' = [looked EXCEPT ![o] = ver[o]]
        /\ UNCHANGED <<api, qvars, lvars, skills, run, key, todo, owed>>

containsEventType(t, type) == type \in t.types

\* The CEL conditions of trigger t hold of version v; one that fails does not.
Holds(t, v) == v \in t.when

\* A faulty variant: a skill's triggers answer for each other, the resource type
\* of one with the event types and conditions of another.
MatchingAcross(g) == {s \in skills : \E t, u \in Range(Triggers[s]) :
                         t.gvk = gvrMap[g] /\ containsEventType(u, "Add") /\ Holds(u, got[g])}

\* Each update is dispatched as an "Add", whatever the notification was.
Matching(g) == {s \in skills : \E t \in Range(Triggers[s]) : /\ t.gvk = gvrMap[g]
                                                             /\ containsEventType(t, "Add")
                                                             /\ Holds(t, got[g])}

AfterSkills(rest) == IF rest = {} THEN "done" ELSE "next"

MatchSkills(g) ==
    /\ Goto(g, "match", AfterSkills(Matching(g)))
    /\ todo' = [todo EXCEPT ![g] = Matching(g)]
    /\ UNCHANGED <<api, qvars, lvars, skills, run, key, got, hist>>

\* The skill the worker is at: the matching skills run in the loaded order.
Current(g, s) == s \in todo[g] /\ \A t \in todo[g] : s <= t

ReadClock(g) ==
    /\ Goto(g, "next", "limit")
    /\ L!ReadClock(g)
    /\ UNCHANGED <<api, qvars, skills, run, local, hist>>

AllowSkill(g, s) ==
    /\ Current(g, s)
    /\ Goto(g, "limit", "run")
    /\ L!Allow(g, <<key[g], s>>)
    /\ UNCHANGED <<api, qvars, skills, run, local, hist>>

\* A rate-limited skill is skipped, and with it this update of the object.
SkipSkill(g, s) ==
    /\ Current(g, s)
    /\ Goto(g, "limit", AfterSkills(todo[g] \ {s}))
    /\ L!Deny(g, <<key[g], s>>)
    /\ todo' = [todo EXCEPT ![g] = @ \ {s}]
    /\ UNCHANGED <<api, qvars, skills, run, key, got, hist>>

\* The session of skill s ends; a requeue signal is logged like any other.
EndSession(g, s) ==
    /\ Current(g, s)
    /\ Goto(g, "run", AfterSkills(todo[g] \ {s}))
    /\ todo' = [todo EXCEPT ![g] = @ \ {s}]
    /\ owed' \in {owed, owed \cup {<<g, key[g]>>}}
    /\ UNCHANGED <<api, qvars, lvars, skills, run, key, got, looked>>

\* A faulty variant: a session that fails does not count for the limiter.
FailSessionRefunds(g) ==
    /\ Goto(g, "run", "done")
    /\ \E s \in Skill : /\ Current(g, s)
                        /\ lastFire' = [lastFire EXCEPT ![<<key[g], s>>] = L!Never]
    /\ todo' = [todo EXCEPT ![g] = {}]
    /\ UNCHANGED <<api, qvars, now, reading, skills, run, key, got, hist>>

\* The session fails: Dispatch returns and the remaining skills do not run.
FailSession(g) ==
    /\ Goto(g, "run", "done")
    /\ todo' = [todo EXCEPT ![g] = {}]
    /\ UNCHANGED <<api, qvars, lvars, skills, run, key, got, hist>>

WorkerDone(g) ==
    /\ Goto(g, "done", "get")
    /\ Q!Done(g, key[g])
    /\ UNCHANGED <<api, lvars, skills, run, local, hist>>

Worker(g) == \/ WorkerQueueFor(g) \/ WorkerGet(g) \/ WorkerQuit(g)
             \/ Fetch(g) \/ MatchSkills(g) \/ ReadClock(g)
             \/ \E s \in Skill : AllowSkill(g, s) \/ SkipSkill(g, s) \/ EndSession(g, s)
             \/ FailSession(g) \/ WorkerDone(g)
-----------------------------------------------------------------------------
Environment == \/ \E o \in Object : Create(o) \/ Modify(o) \/ Delete(o)
               \/ \E g \in GVR : List(g) \/ Relist(g)
               \/ Cancel \/ UpdateSkills \/ Tick

\* When Run has returned the program exits.
Next == /\ phase # "returned"
        /\ \/ Environment
           \/ Run
           \/ \E g \in GVR : Handler(g) \/ Worker(g)

\* Goroutines are scheduled, and each step of a worker ends: a session has at
\* most maxTurns turns and each request to the model a timeout. Nothing makes
\* the users write, the API server answer a list, the clock tick or ctx end.
Fairness == /\ WF_vars(phase # "returned" /\ Run)
            /\ \A g \in GVR : /\ WF_vars(phase # "returned" /\ Handler(g))
                              /\ WF_vars(phase # "returned" /\ Worker(g))

Safety == Init /\ [][Next]_vars

Spec == Safety /\ Fairness
-----------------------------------------------------------------------------
(* What the event loop promises.                                            *)

Newest(o) == events[o][Len(events[o])]

\* No update falls between informer, queue and worker: while the program is
\* not told to stop, an object that changed since its last look-up, failed or not, is
\* still to be notified, or queued, or about to be looked up. Coalescing in
\* the queue, relists, an update during a session and the failing look-ups of
\* processItem all pass through here.
NoUpdateForgotten ==
    \A o \in Object :
        o[1] \in listed /\ ~cancelled /\ live[o] /\ looked[o] < ver[o]
            => \/ events[o] # <<>> /\ Newest(o) # "Delete"
               \/ o[2] \in dirty[o[1]]
               \/ pc[o[1]] = "fetch" /\ key[o[1]] = o[2]

\* A worker holds the key it works on and no other: no path through
\* processItem leaks the key or gives back one that is still in use.
Busy == {"fetch", "match", "next", "limit", "run", "done"}

WorkersHoldTheirKey ==
    \A g \in GVR : processing[g] = IF pc[g] \in Busy THEN {key[g]} ELSE {}

\* When Run returns after serving, no worker was cut off and no accepted key
\* was left behind: shutdown drains.
DrainedAtReturn ==
    phase = "returned" => \A g \in Watched : /\ pc[g] = "exited"
                                             /\ dirty[g] = {}
                                             /\ processing[g] = {}

\* A trigger of skill s asks for the version of o that was looked up last.
Triggered(s, o) == \E t \in Range(Triggers[s]) : /\ parseGVR(t.gvk) = o[1]
                                                 /\ containsEventType(t, "Add")
                                                 /\ Holds(t, looked[o])

\* No session runs that no trigger asked for: whatever was reloaded since the
\* types were collected, and however the triggers spell them, each skill a worker
\* has before it is one that a trigger of its own, for the type of the object and
\* for the version the worker looked up, calls for.
SessionsAreTriggered ==
    \A g \in GVR : pc[g] \in {"next", "limit", "run"} =>
        /\ todo[g] # {}
        /\ \A s \in todo[g] : Triggered(s, <<g, key[g]>>)

\* However handlers, workers and the shutdown use the queues, no key is started
\* twice at once, finished without being started, forgotten once accepted, or
\* accepted by a queue that was shut down.
KeepsLifecycle == Q!KL!Safety

\* Every change of a watched object is looked up in the end, unless the object
\* goes away or the program is told to stop.
UpdatesAreLookedUp ==
    \A o \in Object :
        (o[1] \in listed /\ phase = "serving" /\ live[o] /\ looked[o] < ver[o])
            ~> (looked[o] = ver[o] \/ ~live[o] \/ cancelled)

\* Told to stop when every watched type has its queue, Run returns.
StopsWhenServing ==
    (cancelled /\ phase = "serving" /\ Watched \subseteq created)
        ~> (phase = "returned")
-----------------------------------------------------------------------------
(* What the documents and comments promise, and the code does not keep.     *)

\* "Run ... blocks until ctx is cancelled": once it is, Run returns.
RunReturns == cancelled ~> (phase = "returned")

\* requeueAfter "schedules a re-enqueue": an object whose session asked for
\* one is added to its queue again.
RequeueHonoured == \A o \in Object : (o \in owed) ~> (o \notin owed \/ cancelled)
=============================================================================
