# Verification of controllerless

controllerless watches Kubernetes objects and, instead of controller code,
runs "skills": Markdown documents given to a language model together with an
event and a set of tools. This directory holds TLA+ models of the program's Go
code, TLC configurations that check them on small instances, and TLAPS proofs.
Every definition is translated from the code; where documents promise
something else, a run shows the difference.

## The system

| component | code | state it keeps | operations |
|---|---|---|---|
| program start | `cmd/controllerless/main.go` | none | load skills, register tools, watch skills, `Run` until SIGINT or SIGTERM |
| informers | `internal/kube/informers.go` | client-go caches | `InformerFor`, `Start`, `WaitForCacheSync` |
| workqueue registry | `internal/kube/workqueue.go` | one queue per resource type | `QueueFor`, `Enqueue`, `ShutDownAll` |
| event loop | `internal/dispatch/run.go` | goroutines, `gvrMap` | `Run`, `runWorker`, `processItem`, `collectGVRs` |
| dispatcher | `internal/dispatch/dispatcher.go` | the loaded skills | `Dispatch`, `matchSkills`, `UpdateSkills` |
| rate limiter | `internal/dispatch/safeguards.go` | `lastFire` per object name and skill | `allow` |
| session | `internal/dispatch/reconcile.go` | conversation, turn, trace | `reconcile` |
| provider | `internal/llm/providers/ollama` | none | `Chat`, stop reasons, message conversion |
| tools | `internal/tools` | handlers by name | `Call`; kube tools, time and cron helpers, `done`, `requeueAfter` |
| trace writer | `internal/trace/jsonl.go` | a buffered file per session | `NewWriter`, `Write`, `Close` |
| skills | `internal/skill` | none | `Load`, `Watch`, `EvalTrigger` |
| documents | `internal/skill/parse.go`, `lint.go` | none | `Parse`, the rules L1 to L8 |
| configuration, clients, mock, logging | `internal/config`, `internal/kube/client.go`, ... | none | I/O at the start |

How they interact. `main` loads the skills and gives them to the dispatcher.
`Run` derives the resource types from the skills' triggers, registers two
handlers (add and update) per type, starts the informers, waits for their
caches and starts one worker per type. A handler enqueues the object's
namespace/name; the worker takes it, reads the object from the API server,
matches the skills and runs a session of each matching one the rate limiter
admits. The session talks to the model and calls tools, which write objects,
which raises new events. A second goroutine watches the skills' directory and
replaces the dispatcher's skills under a lock.

What is hard. The handlers, the workers, the skill watcher, the shutdown and
the API server run concurrently; queues coalesce updates and remember those
that arrive during a session; the informers deliver late and in batches; the
shutdown races with workers that have not started; look-ups and model requests
fail; the clock is read outside the limiter's lock; files are read while they
are written; trace files fail after lines were buffered; two skills write to
one object; the model may answer anything. `PROJECT.json` lists the hazards at
their lines, with the properties that cover them.

What makes each part correct:

* registry: no key in two sessions at once, no accepted key forgotten, and a
  shutdown that drains;
* event loop: no update lost between the API server and the worker's look-up,
  workers that give back what they take and run only what was asked for, `Run` returns
  when told to stop;
* rate limiter: grants of one entry, and with them the sessions of a skill on objects
  of one name, a window apart, and no update dropped for longer than that;
* session: bounded, ended by the first signal, its conversation and trace
  telling what happened, its trace on disk when closed;
* tools: a skill's writes leave alone what another skill keeps;
* documents: the lint judges the steps and the quoted tools a reader sees;
* skills: what is put into use was on disk since the load began, what runs is what
  is on disk once the dust has settled, and no two have one name.

## The modules

### WorkQueue, KeyLifecycle

`WorkQueue` models `Registry` and the client-go queue behind it. Per type it has
the FIFO (`queue`), the keys that need a reconcile (`dirty`) and the keys between
`Get` and `Done` (`processing`); `created` are the types in the registry's map,
`shut` the queues told to shut down. `Enqueue` locks twice, so it is the steps
`QueueFor` and `Add`. client-go is not in the repository; its `Add`, `Get`, `Done`
and `ShutDown` are modelled from their documented use and marked external.

`KeyLifecycle` is the abstract specification: keys are pending, active, or
neither; a pending key is started if it is not active; a closed type accepts
nothing; pending keys are started and active ones finished in the end.
`WorkQueue` implements it with `dirty` for pending and `processing` for active
(`ImplementsLifecycle`).

### RateLimiter, RateLimiterHistory

`allow` reads the clock (`ReadClock`) and then decides under the mutex (`Allow`,
`Deny`); other workers and the clock step in between. The entry is a namespace/name
and a skill, without the resource type, as in `rateLimitKey`, so workers of two types
meet on it. `MaxStall` bounds how long a worker waits for the mutex; the code
states no such bound, and the properties say how the promise weakens with it.
`RateLimiterHistory` adds the real time of each grant, which the code does not
record but safeguard S3 is about.

### Dispatcher

The event loop, with `WorkQueue` and `RateLimiter` as instances over its own
variables. The environment writes objects (`Create`, `Modify`, `Delete`), which
bumps a version and notifies the informers that have listed the type; an
informer lists (`List`) and lists again when its watch breaks (`Relist`, which
replaces its backlog by the latest state). `HandlerQueueFor` and `HandlerAdd` are
the two halves of `Enqueue`; deletions have no handler (`IgnoreDelete`).
`CollectGVRs`, `StartWorkers`, `ShutDown` and `Return` are `Run`. A worker's program
counter `pc[g]` follows `runWorker`, `processItem` and `Dispatch`: start, get,
fetch, match, next (reading the clock), limit, run, done, exited. `gvrMap` keeps
the trigger string of the last trigger per type and matching compares strings,
as in the code, so two spellings of a type are different (`parseGVR` resolves
both). `looked` (the version last looked up) and `owed` (unserved requeue
requests) are history variables; a look-up that fails counts as one, because nothing
queues the object again. `KeepsLifecycle` says that the loop as a whole,
not only the queue on its own, implements the safety part of `KeyLifecycle`.

`SessionsAreTriggered` ties what a worker runs to what asked for it: the strings the
types were given when `Run` collected them, the version looked up in `Fetch`, and
the skills of the last reload before `MatchSkills`.

A session is one step: `EndSession` for the outcomes done, requeue and exhausted
of module `Session`, `FailSession` for failed. Its writes are those of the environment.

### DispatcherHistory

`Dispatcher` with the history variable `started`: when the last session of a skill
on an object of a name began. S3 promises a rate of sessions, and `allow` is only
the place where it is decided; between two grants keys are queued again, skills
reloaded, sessions fail, and workers of other types meet on the same entry.
`SessionsSpaced` and `SkipsAreJustified` bound the rate from above and below, and
`ImplementsLimiter` says that the loop, with this history, implements
`RateLimiterHistory` (its callers are the workers, its resources the keys).

### Session

`reconcile` with the provider: `SendRequest`, `TurnLimit`, `ChatFails`, `Respond`
(with `mapStopReason`) and `MakeCall`, which makes one call of the response,
tells the model its result (`Continue`) or ends the session (`Terminate`). Tools
that succeed or fail are a choice; unknown names and arguments that do not
decode are errors. Any list of at most `MaxCalls` calls and any reason of
`DoneReason` may come back. The text of messages, tokens and durations are left
out, as is the list of tools offered to the model: it may name any.

The trace file (`file`) could not be opened ("none"), takes lines ("open"), failed
once and loses every later line, as a `bufio.Writer` does ("broken"), or was
closed. `trace` holds the phases of the lines the writer took, and `buffered` says
that some of them are not on disk. `Traced` is `Writer.Write` with its error ignored,
as `traceWrite` ignores it; `Close` is the deferred `Writer.Close`, which leaves the
file open ("leaked") if the buffer cannot be flushed.

### SkillDoc

`Parse` and `Lint` as operators. A document is a sequence of lines; a line has a
kind (delimiter, frontmatter key, heading, step, list item, text), the tokens of
its text, which of the headings L7 asks for are part of it, its indentation, and
whether it starts with a capital and has one of L1's keywords. `extractSection`, `procedureSteps` (`StepLines`, `Block`) and the
pairing of backticks (`Spans`) are modelled with their oddities: a section skips
lines equal to its own heading and loses the indentation of its first line, a
closing `---` right behind the opening one is not seen and what follows a longer one
in its line begins the body, a span is never empty, and `## Procedure`, or prose with
the heading in it, satisfies L7 and starts no section. The section and the steps are
sets of line numbers, the spans pairs of word numbers. Blank lines are left out: in a
body the trimming of the section drops those at its edges and no rule sees the others.
A document with a blank line right behind the opening one, where it lets a closing
`---` be seen, is not among those modelled.

### SkillLint

An author writes a body line by line (`WriteLine`), and in every state the rules
are compared with what a reader finds who judges each line or word from where it
stands: which heading is above it, how many backticks are before it. The code,
and `SkillDoc`, go from the top down. `LintReadsProcedure` and `LintReadsBackticks`
say that both find the same. The references exclude what the rules do not decide:
bodies with two procedures or none, and two backticks in a row, which the code
takes for the start of a span and not for an empty one. `BeginningsPass` is about
half-saved bodies: whatever is written further down mends no step further up, so
the beginnings of a body that passes L2, L4 and L5 pass them.

### KubeTools

The tools that write: `patch` (an apply, a merge patch or a JSON patch), `create`
and `delete`; `get` and `list` change nothing. The API server is external: it
keeps the managers of every field, a forced apply takes fields over and removes
those its manager applied before and now leaves out. `claims` is a history
variable, the skills whose last write a field still has. `fieldManager` is the
default the code fills in. A merge patch goes to the main endpoint whatever
subresource the call names, so what it says of the status is dropped; a JSON
patch has to be a list and is an object here, so it is always rejected.

### SkillReload

The disk (`file`), the kernel's watches and notifications (`watched`, `events`)
and the loads of `main` and of the watcher's goroutine (`pc`, `entries`, `found`).
A load lists the directories and reads their files one by one while users edit;
`Apply` gives the result to the dispatcher. What a load takes of a directory is
`Loaded`: a document that parses and passes the lint of `SkillDoc` under that
directory's name. Directories that cannot be listed, files that cannot be read, watches
that cannot be added and an overflowing queue are modelled. `missed` is a history
variable: directories with an edit that raised no event the watcher handles
(made before the watch, in an unwatched directory, by renaming the file away,
or lost to an overflow) or that a failing load did not see, until a later load
reads them.

### SkillReloadHistory, HotReload

`HotReload` is the abstract specification of a reload: skills change on disk at any
time (`onDisk`), and now and then all of those in use (`inUse`) are replaced by
ones that were on disk at some time since the reload began (`seen`), each directory
at a time of its own. A skill may be left out only if the file system kept its
file or its change from the loads (`lost`), and skills in use are never replaced
by none. `SkillReloadHistory` adds `seen` to `SkillReload` and says that it implements
`HotReload` (`ReloadsAreFresh`), with `OnDisk` for `onDisk` and `missed` for `lost`.

Faulty variants of operations stand before the operations in some modules.
No specification uses them; they exist to show that the properties notice.

## The runs

| run | configuration | shows | instance |
|---|---|---|---|
| workqueue | MCWorkQueue.cfg | `QueueInv`, refinement of `KeyLifecycle` with liveness, `ShutdownDrains` | 2 types, 3 keys |
| ratelimiter | MCRateLimiter.cfg | `RecordTracksGrants`, `StartsSpaced` | 2 workers, 2 entries, window 3, stall 1, clock to 8 |
| dispatcher | MCDispatcherHistory.cfg | `NoUpdateForgotten`, `WorkersHoldTheirKey`, `DrainedAtReturn`, `SessionsAreTriggered`, `KeepsLifecycle`, `SessionsSpaced`, `SkipsAreJustified`, refinement of `RateLimiterHistory` | 2 types, 2 skills, 1 key, 2 writes per object, window 1, clock to 1 |
| progress | MCProgress.cfg | `UpdatesAreLookedUp`, `StopsWhenServing` | 1 type, 2 keys, 2 writes per object |
| session | MCSession.cfg | conversation, signals, trace and its file, turns, `SessionEnds` | 2 turns of at most 2 calls, 4 tool names |
| skill_reload | MCSkillReload.cfg | `SkillsCurrent`, `NamesUnique`, `SkillsConverge`, refinement of `HotReload` | 2 directories, 4 documents, 3 edits, 2 queued events |
| lint | MCSkillLint.cfg | `LintReadsProcedure`, `LintReadsBackticks`, `BeginningsPass` | every body of at most 6 lines of 8 kinds |
| shutdown | MCShutdown.cfg | `RunReturns` is violated | 1 type, 1 key |
| requeue | MCRequeue.cfg | `RequeueHonoured` is violated | 1 type, 1 key |
| tool_calls | MCToolCalls.cfg | `EveryToolCallAnswered` is violated | 2 turns of at most 1 call |
| lint_reload | MCLintReload.cfg | `InvalidSkillKeepsPrevious` is violated | 2 directories, 1 edit |
| skill_ownership | MCKubeTools.cfg | `SkillsMergeCleanly` is violated | 2 skills, 1 object, 2 status fields and 1 of the spec |

Why the bounds are enough. Queues of different types share only the registry's
map, so two types show every interaction; three keys let one wait behind
another while a third is processed. Two writes per object are one that is
processed and one that arrives meanwhile. One key with two types makes the
workers meet on the limiter's entry; two keys with one type make the queue
longer than one. The limiter's clock has room for two windows and the stall.
Two turns of two calls have a signal first, last and in the middle of a session.
Three edits are enough for one before, one during and one after a load, with
more events than the queue holds. The four documents are two skills, one of them
also cut off behind a step, where it still passes the lint, and in its
frontmatter, where it does not.

The dispatcher run is the largest instance. Its two skills have a version of pods in
common, so a worker has one skill behind the other, and the second is triggered by
tasks of the same name, so two workers meet on one entry of the limiter. Its clock
has room for one window and no stall: sessions begin at once, are skipped, and begin
again a window later. Readings that go stale and longer windows are the subject of
the ratelimiter run; `DispatcherHistoryProofs` has both for every window and stall.

Six lines of a body are two headings, a step with a continuation, a second step
and what ends the section; their words come to three quoted spans. The step limit
is 2 in place of 8.

Deadlock checking is off where the program really stops: `Run` returns, a
session ends, queues are shut down, users stop editing.

### What the violated runs say

* shutdown. The context ends while `Run` waits for the caches, or before a worker
  has asked for its queue. `ShutDownAll` shuts the queues that exist; the worker
  then creates its own, blocks in `Get`, and `wg.Wait` never returns.
  `StopsWhenServing` says when `Run` does return: when every type has its queue.
* requeue. `Dispatch` logs a `RequeueSignal` and does nothing with it.
* tool_calls. Calls are made only if the server's `done_reason` is `tool_calls`;
  the provider's own test has calls with `stop`.
* lint_reload. `Load` skips the invalid skill and `Watch` replaces the whole set,
  so the previous version survives only if every skill is invalid. The bad
  document may be a good one half written.
* skill_ownership. Two skills that give no `fieldManager` both go by
  `controllerless`; the second apply of one removes what the other applied. The
  documents say the name defaults to the skill's. `OwnNamesMergeCleanly` proves
  that it would be enough.

Two more differences between documents and code are in the model without a run of
their own. `FailSession` ends the update: `Dispatch` returns on the first session
that fails, where the design says that skills never share fate. And `lintL7` looks
for `# Procedure` as a substring, which `## Procedure` has; `extractSection` looks
for the line, so a skill whose steps nobody read passes, though a comment of L1
says that L7 caught it.

## Fairness

Goroutines are scheduled: each worker, each type's handler and `Run` have weak
fairness, as has the skill watcher. A worker's step always ends, because a
session has at most `defaultMaxTurns` turns and the HTTP client a timeout; that
is also the fairness of `Session`. In `WorkQueue` the fairness is what its workers
do: keep calling `Get`, and `Done` after each key. No fairness is assumed of
users, the API server, listing, the clock, reloads or the cancellation.

## What is proved

TLAPS checks these for every value of the constants. Each rests on an inductive
invariant: it holds initially, every action keeps it, and it implies the property.

* `WorkQueueProofs`: `TypeOK`, `QueueInv`, `UncreatedInv`, and the safety part of
  the refinement, `KL!Safety`. `QueueInv` is inductive with the types: the FIFO is
  duplicate-free because `Add` appends only a key that is neither dirty nor
  processed, and `Done` only a dirty key it takes out of `processing`.
* `RateLimiterProofs`: `RecordTracksGrants` and `StartsSpaced`, from the invariant
  that a pending reading is not in the future and at most `MaxStall` old.
* `DispatcherProofs`: `TypeOK`, the queue invariant under the loop's own steps,
  `NoUpdateForgotten`, `WorkersHoldTheirKey`, `DrainedAtReturn`. The inductive
  invariant adds `StopOrder`: the order in which phases, cancellation, worker
  counters and shut queues follow each other. It is needed because a drained queue
  stays drained only when nobody can add to it, that is, when it is shut.
  The step lemmas of the queue carry over to the loop, whose steps are steps of
  the queue or leave it alone (`QueueStep`); with that it implements `KeyLifecycle`
  (`KeepsLifecycle`). `SessionsAreTriggered` has an invariant of its own (`TriggerInv`): the
  strings collected name their types, and what a worker matches is what it looked up.
* `DispatcherHistoryProofs`: `ImplementsLimiter`, `SessionsSpaced` and `SkipsAreJustified`.
  A session begins in a step that grants one and in no other, and at most one skill
  is current for a worker (skills are ordered), so every step of the loop is a step of
  `RateLimiterHistory`; the invariant of `RateLimiterProofs`, instantiated for the
  workers, then holds of the loop, and both bounds follow from it.
* `SessionProofs`: `TypeOK`, `SignalEndsSession`, `ConversationWellFormed`,
  `TurnsAreBounded` and `TraceTellsSession`. The inductive invariant
  says that calls are made only while there is no outcome, how the turn counts
  the model's messages, that a response whose calls are made has been answered up
  to the pending ones (so that the next answer takes the place behind them), and
  that a trace is closed only after the session.
* `KubeToolsProofs`: `SkillsMergeCleanly` if no two skills share a manager
  (`Distinct`) and the REST mapper gives resource types. The invariant
  says that what a skill keeps is managed under one of its names or the
  creator's; an apply removes only what its own manager alone has, so it removes
  nothing of another skill. The assumption fails for the default name.
* `SkillReloadProofs`: `TypeOK`, `SkillsCurrent` and `NamesUnique`. The invariant says what a load
  in progress has read (on disk now, unless missed or still to be heard of), and
  that skills once applied stay current until an edit is missed or pending.
  `ReloadsAreFresh` needs more: what was found has been seen since the load began, unless
  a read of it failed, and until the first load is used there are no skills. From the
  refinement follows what `UpdateSkills` of the event loop assumes: reloads change the
  skills to some, never to none (`ReloadsAreUpdates`).
* `SkillLintProofs`: `LintReadsProcedure`, `LintReadsBackticks` and `BeginningsPass`, for
  bodies of any length, any lines and any tools. That every state is a sequence of
  lines is all the invariant there is; the work is in the operators. The section that
  starts at the first heading and stops at the first line that ends it (`BeforeStop`)
  is the set of lines whose nearest heading is the procedure's. The pairing of
  backticks (`Opener`) is a recursive function: a span is open behind a word exactly
  if the number of backticks so far is odd, and the last of them opened it
  (`OpenerIsLastTick`). The library's induction takes an operator as parameter, which
  the provers cannot instantiate; `InductionTo` states it for a set of numbers, from
  the least element of its complement, and `Recursion` proves with it that a function
  with a given base and given steps exists.

They use the named assumptions of the modules: numbered skills and directories,
distinct markers, and bounds that are natural numbers. Nothing else is assumed.

Only model-checked: everything under fairness (`ShutdownDrains`,
`UpdatesAreLookedUp`, `StopsWhenServing`, `SessionEnds`, `SkillsConverge`, the
liveness of the refinement of `KeyLifecycle`), which is out of the prover's reach.
Every invariant and every action property of a passing run is proved.

## What is not modelled

The helper tools: they keep no state, the cron schedule is a library's, and no
code acts on the time they give, because requeues are dropped. Prompts,
configuration (three of its limits, `MaxToolTurns`, `ReconcileTimeout` and
`PerSkillRateLimit`, are read by nobody) and the construction of clients. Names and
text of trace files. The informer's store, because no code reads it. In the event
loop objects are versions, so nothing is said there of their content; `KubeTools`
has the content and no events. Memory use and the text of logs are not
modelled. The event queue of a real kernel also merges equal events that
follow each other, which loses none.

There is no action for a crash of the program: it keeps nothing that a new start
reads, so a restart is `Init` among the files and objects that exist. `SkillReload`
and `KubeTools` start with any of them; in `Dispatcher` those created before a
type is listed are the ones a restart finds. A killed program loses the lines `buffered` of its
sessions' traces.

## Plan

Done: WorkQueue with its abstract specification, RateLimiter, Dispatcher composed
of both and shown to implement the abstract specification, with the spacing of
its sessions, Session with its trace file, SkillDoc with SkillLint, SkillReload
shown to implement HotReload, KubeTools; the proofs above.

Left, in this order:

1. The writes of `KubeTools` as the source of the event loop's updates: two skills
   whose writes trigger each other, and the rate limit between them.
2. That a session of module `Session` is the single step `Dispatcher` takes it for.
3. The arithmetic of the helper tools, once something schedules a requeue.
