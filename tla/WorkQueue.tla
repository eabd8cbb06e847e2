----------------------------- MODULE WorkQueue ------------------------------
(***************************************************************************)
(* The registry of workqueues, one per GroupVersionResource, with the      *)
(* three-part state of each client-go queue: the FIFO of keys to hand out, *)
(* the dirty set of keys that need a reconcile and the processing set of   *)
(* keys some worker holds.                                                 *)
(*                                                                         *)
(* Registry.Enqueue takes the registry's lock in QueueFor and the queue's  *)
(* lock in Add, one after the other, so they are two steps here and a      *)
(* ShutDownAll may come between them.                                      *)
(***************************************************************************)
EXTENDS Sequences, Functions

CONSTANTS GVR,   \* resource types
          Key    \* "namespace/name" of an object

VARIABLES queue,       \* [GVR -> Seq(Key)], the keys Get hands out, in order
          dirty,       \* [GVR -> SUBSET Key], keys that need a reconcile
          processing,  \* [GVR -> SUBSET Key], keys between Get and Done
          created,     \* resource types that have a queue in the registry
          shut         \* resource types whose queue is shutting down

vars == <<queue, dirty, processing, created, shut>>

TypeOK == /\ queue \in [GVR -> Seq(Key)]
          /\ dirty \in [GVR -> SUBSET Key]
          /\ processing \in [GVR -> SUBSET Key]
          /\ created \in SUBSET GVR
          /\ shut \in SUBSET created

Init == /\ queue = [g \in GVR |-> <<>>]
        /\ dirty = [g \in GVR |-> {}]
        /\ processing = [g \in GVR |-> {}]
        /\ created = {}
        /\ shut = {}
-----------------------------------------------------------------------------
\* Queue g takes key k on as new: it is not shutting down, and k is not dirty
\* already. The variant forgets the first condition.
AcceptsAlways(g, k) == k \notin dirty[g]

Accepts(g, k) == g \notin shut /\ k \notin dirty[g]
-----------------------------------------------------------------------------
(* Faulty variants of the operations further down, which the properties     *)
(* must tell from the code's: an Add that queues a key although it is being *)
(* processed, one that drops it, a Done that does not queue it again, a     *)
(* worker that quits with keys queued, a shutdown of types without a queue. *)

AddWhileProcessing(g, k) ==
    /\ g \in created
    /\ dirty' = IF Accepts(g, k) THEN [dirty EXCEPT ![g] = @ \cup {k}] ELSE dirty
    /\ queue' = IF Accepts(g, k) THEN [queue EXCEPT ![g] = Append(@, k)] ELSE queue
    /\ UNCHANGED <<processing, created, shut>>

AddUnlessProcessing(g, k) ==
    /\ g \in created
    /\ LET new == Accepts(g, k) /\ k \notin processing[g] IN
       /\ dirty' = IF new THEN [dirty EXCEPT ![g] = @ \cup {k}] ELSE dirty
       /\ queue' = IF new THEN [queue EXCEPT ![g] = Append(@, k)] ELSE queue
    /\ UNCHANGED <<processing, created, shut>>

DoneForgets(g, k) ==
    /\ k \in processing[g]
    /\ processing' = [processing EXCEPT ![g] = @ \ {k}]
    /\ UNCHANGED <<queue, dirty, created, shut>>

QuitsAtOnce(g) == g \in shut

ShutDownEveryType == /\ shut' = GVR
                     /\ UNCHANGED <<queue, dirty, processing, created>>
-----------------------------------------------------------------------------
\* The queue of g, created on first access.
QueueFor(g) == /\ created' = created \cup {g}
               /\ UNCHANGED <<queue, dirty, processing, shut>>

\* Queue g is given key k. A k that is being processed is only marked dirty,
\* for Done to queue it again.
Add(g, k) ==
    /\ g \in created
    /\ dirty' = IF Accepts(g, k) THEN [dirty EXCEPT ![g] = @ \cup {k}] ELSE dirty
    /\ queue' = IF Accepts(g, k) /\ k \notin processing[g]
                THEN [queue EXCEPT ![g] = Append(@, k)] ELSE queue
    /\ UNCHANGED <<processing, created, shut>>

\* A worker is handed the oldest key k of queue g, shutting down or not.
Get(g, k) == /\ g \in created
             /\ queue[g] # <<>>
             /\ k = Head(queue[g])
             /\ queue' = [queue EXCEPT ![g] = Tail(@)]
             /\ processing' = [processing EXCEPT ![g] = @ \cup {k}]
             /\ dirty' = [dirty EXCEPT ![g] = @ \ {k}]
             /\ UNCHANGED <<created, shut>>

\* Get tells its worker to quit: queue g is shutting down and empty.
Quits(g) == g \in shut /\ queue[g] = <<>>

\* A worker gives k back; a k marked dirty meanwhile is queued again, also
\* while the queue is shutting down.
Done(g, k) ==
    /\ k \in processing[g]
    /\ processing' = [processing EXCEPT ![g] = @ \ {k}]
    /\ queue' = IF k \in dirty[g] THEN [queue EXCEPT ![g] = Append(@, k)]
                ELSE queue
    /\ UNCHANGED <<dirty, created, shut>>

\* Shuts down the queues that exist now; one created later is not shut down.
ShutDownAll == /\ shut' = created
               /\ UNCHANGED <<queue, dirty, processing, created>>

Next == \/ \E g \in GVR : QueueFor(g)
        \/ \E g \in GVR, k \in Key : Add(g, k) \/ Get(g, k) \/ Done(g, k)
        \/ ShutDownAll

\* Every queue has a worker that keeps calling Get, and gives back what it
\* took: a reconcile ends. Producers and shutdown owe nothing.
Fairness == \A g \in GVR : /\ WF_vars(\E k \in Key : Get(g, k))
                           /\ \A k \in Key : WF_vars(Done(g, k))

Safety == Init /\ [][Next]_vars

Spec == Safety /\ Fairness
-----------------------------------------------------------------------------
\* The three parts of a queue agree: what Get will hand out is what needs a
\* reconcile and is not being reconciled, each key once. Breaking it loses an
\* event, or hands one object to two sessions.
NoDuplicates(s) == \A i, j \in DOMAIN s : s[i] = s[j] => i = j

QueueInv == \A g \in GVR : /\ NoDuplicates(queue[g])
                           /\ Range(queue[g]) = dirty[g] \ processing[g]

\* A queue that does not exist holds nothing.
UncreatedInv == \A g \in GVR \ created : dirty[g] = {} /\ processing[g] = {}

\* The queue keeps the promises of KeyLifecycle.
KL == INSTANCE KeyLifecycle WITH pending <- dirty, active <- processing,
                                 closed <- shut

\* Whatever was accepted is reconciled and nothing else is: the queue, with
\* its coalescing and its re-adds in Done, implements the abstract lifecycle,
\* liveness included.
ImplementsLifecycle == KL!Spec

\* Graceful shutdown: a queue that is shut down hands out what it accepted,
\* late re-adds of Done included, and then stays empty, so its worker quits.
ShutdownDrains ==
    \A g \in GVR : (g \in shut) ~> [](Quits(g) /\ dirty[g] = {} /\ processing[g] = {})
=============================================================================
