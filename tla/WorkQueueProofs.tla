-------------------------- MODULE WorkQueueProofs ---------------------------
(* Proofs about WorkQueue, for every set of resource types and keys.        *)
EXTENDS WorkQueue, SequenceTheorems, TLAPS

-----------------------------------------------------------------------------
(* Sequences without duplicates.                                            *)

\* A key that is not queued can be appended: each key is still there once.
LEMMA AppendDistinct ==
  ASSUME NEW S, NEW s \in Seq(S), NEW k \in S, NoDuplicates(s), k \notin Range(s)
  PROVE  /\ Append(s, k) \in Seq(S)
         /\ NoDuplicates(Append(s, k))
         /\ Range(Append(s, k)) = Range(s) \cup {k}
<1>1. /\ Append(s, k) \in Seq(S)
      /\ Len(Append(s, k)) = Len(s) + 1
      /\ \A i \in 1..Len(s) : Append(s, k)[i] = s[i]
      /\ Append(s, k)[Len(s) + 1] = k
  BY AppendProperties
<1>2. /\ DOMAIN s = 1..Len(s)
      /\ DOMAIN Append(s, k) = 1..(Len(s) + 1)
      /\ Len(s) \in Nat
  BY <1>1, LenProperties
<1>3. \A i \in 1..Len(s) : s[i] # k
  BY <1>2 DEF Range
<1>4. NoDuplicates(Append(s, k))
  <2> SUFFICES ASSUME NEW i \in 1..(Len(s) + 1), NEW j \in 1..(Len(s) + 1),
                      Append(s, k)[i] = Append(s, k)[j]
               PROVE  i = j
    BY <1>2 DEF NoDuplicates
  <2>1. CASE i \in 1..Len(s) /\ j \in 1..Len(s)
    BY <1>1, <1>2, <2>1 DEF NoDuplicates
  <2>2. CASE i = Len(s) + 1 \/ j = Len(s) + 1
    BY <1>1, <1>2, <1>3, <2>2
  <2> QED BY <1>2, <2>1, <2>2
<1>5. Range(Append(s, k)) = Range(s) \cup {k}
  <2>1. \A x \in Range(Append(s, k)) : x \in Range(s) \cup {k}
    BY <1>1, <1>2 DEF Range
  <2>2. \A x \in Range(s) : x \in Range(Append(s, k))
    BY <1>1, <1>2 DEF Range
  <2>3. k \in Range(Append(s, k))
    BY <1>1, <1>2 DEF Range
  <2> QED BY <2>1, <2>2, <2>3
<1> QED BY <1>1, <1>4, <1>5

\* Taking the head of a sequence without duplicates takes that key out of it.
LEMMA TailDistinct ==
  ASSUME NEW S, NEW s \in Seq(S), s # <<>>, NoDuplicates(s)
  PROVE  /\ Tail(s) \in Seq(S)
         /\ NoDuplicates(Tail(s))
         /\ Head(s) \in Range(s)
         /\ Range(Tail(s)) = Range(s) \ {Head(s)}
<1>1. /\ Head(s) \in S
      /\ Tail(s) \in Seq(S)
      /\ Len(Tail(s)) = Len(s) - 1
      /\ \A i \in 1..Len(Tail(s)) : Tail(s)[i] = s[i + 1]
  BY HeadTailProperties
<1>2. /\ DOMAIN s = 1..Len(s)
      /\ Len(s) \in Nat \ {0}
      /\ DOMAIN Tail(s) = 1..(Len(s) - 1)
      /\ Head(s) = s[1]
  BY <1>1, LenProperties, EmptySeq
<1>3. NoDuplicates(Tail(s))
  BY <1>1, <1>2 DEF NoDuplicates
<1>4. Head(s) \in Range(s)
  BY <1>2 DEF Range
<1>5. ASSUME NEW x \in Range(Tail(s))
      PROVE  x \in Range(s) \ {Head(s)}
  <2>1. PICK i \in 1..(Len(s) - 1) : x = Tail(s)[i]
    BY <1>2 DEF Range
  <2>2. x = s[i + 1] /\ i + 1 \in DOMAIN s /\ i + 1 # 1
    BY <1>1, <1>2, <2>1
  <2> QED BY <1>2, <2>2 DEF Range, NoDuplicates
<1>6. ASSUME NEW x \in Range(s) \ {Head(s)}
      PROVE  x \in Range(Tail(s))
  <2>1. PICK i \in 1..Len(s) : x = s[i]
    BY <1>2 DEF Range
  <2>2. i # 1 /\ i - 1 \in 1..(Len(s) - 1) /\ (i - 1) + 1 = i
    BY <1>2, <2>1
  <2>3. x = Tail(s)[i - 1] /\ i - 1 \in DOMAIN Tail(s)
    BY <1>1, <1>2, <2>1, <2>2
  <2> QED BY <2>3 DEF Range
<1> QED BY <1>1, <1>3, <1>4, <1>5, <1>6

-----------------------------------------------------------------------------
(* The inductive invariant: the types, the agreement of the three parts of  *)
(* every queue, and the emptiness of a queue that does not exist.           *)

Inv == TypeOK /\ QueueInv /\ UncreatedInv

LEMMA InitInv == Init => Inv
<1> SUFFICES ASSUME Init PROVE Inv
  OBVIOUS
<1>1. TypeOK
  BY EmptySeq DEF Init, TypeOK
<1>2. \A g \in GVR : NoDuplicates(queue[g]) /\ Range(queue[g]) = {}
  BY DEF Init, NoDuplicates, Range
<1>3. QueueInv /\ UncreatedInv
  BY <1>2 DEF Init, QueueInv, UncreatedInv
<1> QED BY <1>1, <1>3 DEF Inv

\* QueueFor creates an empty queue and disturbs no other.
LEMMA QueueForInv ==
  ASSUME Inv, NEW g \in GVR, QueueFor(g)
  PROVE  Inv'
<1>1. TypeOK'
  BY DEF Inv, TypeOK, QueueFor
<1>2. QueueInv' /\ UncreatedInv'
  BY DEF Inv, QueueInv, UncreatedInv, QueueFor
<1> QED BY <1>1, <1>2 DEF Inv

\* Add queues a key only when it is neither queued nor processed.
LEMMA AddInv ==
  ASSUME Inv, NEW g \in GVR, NEW k \in Key, Add(g, k)
  PROVE  Inv'
<1>1. CASE ~Accepts(g, k)
  <2>1. UNCHANGED vars
    BY <1>1 DEF Add, vars
  <2> QED BY <2>1 DEF Inv, TypeOK, QueueInv, UncreatedInv, vars
<1>2. CASE Accepts(g, k) /\ k \in processing[g]
  <2>1. /\ dirty' = [dirty EXCEPT ![g] = @ \cup {k}]
        /\ UNCHANGED <<queue, processing, created, shut>>
        /\ g \in created
    BY <1>2 DEF Add
  <2>2. TypeOK'
    BY <2>1 DEF Inv, TypeOK
  <2>3. QueueInv' /\ UncreatedInv'
    BY <1>2, <2>1 DEF Inv, TypeOK, QueueInv, UncreatedInv
  <2> QED BY <2>2, <2>3 DEF Inv
<1>3. CASE Accepts(g, k) /\ k \notin processing[g]
  <2>1. /\ dirty' = [dirty EXCEPT ![g] = @ \cup {k}]
        /\ queue' = [queue EXCEPT ![g] = Append(queue[g], k)]
        /\ UNCHANGED <<processing, created, shut>>
        /\ g \in created
    BY <1>3 DEF Add
  <2>2. queue[g] \in Seq(Key) /\ NoDuplicates(queue[g]) /\ k \notin Range(queue[g])
    BY <1>3 DEF Inv, TypeOK, QueueInv, Accepts
  <2>3. /\ Append(queue[g], k) \in Seq(Key)
        /\ NoDuplicates(Append(queue[g], k))
        /\ Range(Append(queue[g], k)) = Range(queue[g]) \cup {k}
    BY <2>2, AppendDistinct
  <2>4. TypeOK'
    BY <2>1, <2>3 DEF Inv, TypeOK
  <2>5. QueueInv' /\ UncreatedInv'
    BY <1>3, <2>1, <2>3 DEF Inv, TypeOK, QueueInv, UncreatedInv
  <2> QED BY <2>4, <2>5 DEF Inv
<1> QED BY <1>1, <1>2, <1>3

\* Get moves the head from the queue and the dirty set to the processing set.
LEMMA GetInv ==
  ASSUME Inv, NEW g \in GVR, NEW k \in Key, Get(g, k)
  PROVE  Inv'
<1>1. /\ queue' = [queue EXCEPT ![g] = Tail(queue[g])]
      /\ processing' = [processing EXCEPT ![g] = @ \cup {k}]
      /\ dirty' = [dirty EXCEPT ![g] = @ \ {k}]
      /\ UNCHANGED <<created, shut>>
      /\ g \in created
      /\ k = Head(queue[g])
  BY DEF Get
<1>2. queue[g] \in Seq(Key) /\ queue[g] # <<>> /\ NoDuplicates(queue[g])
  BY DEF Inv, TypeOK, QueueInv, Get
<1>3. /\ Tail(queue[g]) \in Seq(Key)
      /\ NoDuplicates(Tail(queue[g]))
      /\ k \in Range(queue[g])
      /\ Range(Tail(queue[g])) = Range(queue[g]) \ {k}
  BY <1>1, <1>2, TailDistinct
<1>4. TypeOK'
  BY <1>1, <1>3 DEF Inv, TypeOK
<1>5. QueueInv' /\ UncreatedInv'
  BY <1>1, <1>3 DEF Inv, TypeOK, QueueInv, UncreatedInv
<1> QED BY <1>4, <1>5 DEF Inv

\* Done queues again the key that was marked dirty, and no other.
LEMMA DoneInv ==
  ASSUME Inv, NEW g \in GVR, NEW k \in Key, Done(g, k)
  PROVE  Inv'
<1>1. /\ processing' = [processing EXCEPT ![g] = @ \ {k}]
      /\ UNCHANGED <<dirty, created, shut>>
      /\ k \in processing[g]
  BY DEF Done
<1>2. CASE k \notin dirty[g]
  <2>1. queue' = queue
    BY <1>2 DEF Done
  <2> QED BY <1>1, <1>2, <2>1 DEF Inv, TypeOK, QueueInv, UncreatedInv
<1>3. CASE k \in dirty[g]
  <2>1. queue' = [queue EXCEPT ![g] = Append(queue[g], k)]
    BY <1>3 DEF Done
  <2>2. queue[g] \in Seq(Key) /\ NoDuplicates(queue[g]) /\ k \notin Range(queue[g])
    BY <1>1 DEF Inv, TypeOK, QueueInv
  <2>3. /\ Append(queue[g], k) \in Seq(Key)
        /\ NoDuplicates(Append(queue[g], k))
        /\ Range(Append(queue[g], k)) = Range(queue[g]) \cup {k}
    BY <2>2, AppendDistinct
  <2>4. TypeOK'
    BY <1>1, <2>1, <2>3 DEF Inv, TypeOK
  <2>5. QueueInv' /\ UncreatedInv'
    BY <1>1, <1>3, <2>1, <2>3 DEF Inv, TypeOK, QueueInv, UncreatedInv
  <2> QED BY <2>4, <2>5 DEF Inv
<1> QED BY <1>2, <1>3

LEMMA NextInv == Inv /\ [Next]_vars => Inv'
<1> SUFFICES ASSUME Inv, [Next]_vars PROVE Inv'
  OBVIOUS
<1>1. CASE UNCHANGED vars
  BY <1>1 DEF Inv, TypeOK, QueueInv, UncreatedInv, vars
<1>2. CASE ShutDownAll
  BY <1>2 DEF Inv, TypeOK, QueueInv, UncreatedInv, ShutDownAll
<1>3. CASE \E g \in GVR : QueueFor(g)
  BY <1>3, QueueForInv
<1>4. CASE \E g \in GVR, k \in Key : Add(g, k) \/ Get(g, k) \/ Done(g, k)
  BY <1>4, AddInv, GetInv, DoneInv
<1> QED BY <1>1, <1>2, <1>3, <1>4 DEF Next

LEMMA SafetyInv == Safety => []Inv
BY InitInv, NextInv, PTL DEF Safety

\* The state of the registry always has its declared shape, and only queues
\* that exist are shut down.
THEOREM TypeCorrect == Spec => []TypeOK
<1>1. Inv => TypeOK
  BY DEF Inv
<1> QED BY <1>1, SafetyInv, PTL DEF Spec

\* In every queue the keys to hand out are the dirty keys that no worker
\* holds, each once: the registry loses no event and hands no key out twice.
THEOREM QueueCorrect == Spec => []QueueInv
<1>1. Inv => QueueInv
  BY DEF Inv
<1> QED BY <1>1, SafetyInv, PTL DEF Spec

\* A resource type without a queue has nothing to reconcile.
THEOREM UncreatedEmpty == Spec => []UncreatedInv
<1>1. Inv => UncreatedInv
  BY DEF Inv
<1> QED BY <1>1, SafetyInv, PTL DEF Spec

-----------------------------------------------------------------------------
(* Every step of the queue is a step of the abstract lifecycle: Add marks,  *)
(* Get starts, Done finishes, ShutDownAll closes.                           *)

LEMMA AddMarks ==
  ASSUME Inv, NEW g \in GVR, NEW k \in Key, Add(g, k)
  PROVE  KL!Mark(g, k) \/ UNCHANGED KL!vars
BY DEF Add, Accepts, KL!Mark, KL!vars

LEMMA GetStarts ==
  ASSUME Inv, NEW g \in GVR, NEW k \in Key, Get(g, k)
  PROVE  KL!Start(g, k)
<1>1. queue[g] \in Seq(Key) /\ queue[g] # <<>> /\ NoDuplicates(queue[g])
  BY DEF Inv, TypeOK, QueueInv, Get
<1>2. k \in Range(queue[g])
  BY <1>1, TailDistinct DEF Get
<1>3. k \in dirty[g] \ processing[g]
  BY <1>2 DEF Inv, QueueInv
<1> QED BY <1>3 DEF Get, KL!Start

LEMMA LifecycleStep == Inv /\ [Next]_vars => [KL!Next]_(KL!vars)
<1> SUFFICES ASSUME Inv, [Next]_vars PROVE [KL!Next]_(KL!vars)
  OBVIOUS
<1>1. CASE UNCHANGED vars
  BY <1>1 DEF vars, KL!vars
<1>2. CASE ShutDownAll
  <2>1. shut' = shut \cup created /\ created \in SUBSET GVR
    BY <1>2 DEF ShutDownAll, Inv, TypeOK
  <2>2. KL!Close
    BY <1>2, <2>1 DEF ShutDownAll, KL!Close
  <2> QED BY <2>2 DEF KL!Next
<1>3. CASE \E g \in GVR : QueueFor(g)
  BY <1>3 DEF QueueFor, KL!vars
<1>4. CASE \E g \in GVR, k \in Key : Add(g, k)
  BY <1>4, AddMarks DEF KL!Next
<1>5. CASE \E g \in GVR, k \in Key : Get(g, k)
  BY <1>5, GetStarts DEF KL!Next
<1>6. CASE \E g \in GVR, k \in Key : Done(g, k)
  BY <1>6 DEF Done, KL!Finish, KL!Next
<1> QED BY <1>1, <1>2, <1>3, <1>4, <1>5, <1>6 DEF Next

\* The queue's steps implement the abstract lifecycle: no key is started
\* twice at once, none is forgotten, none is accepted after shutdown.
THEOREM ImplementsLifecycleSafety == Spec => KL!Safety
<1>1. Init => KL!Init
  BY DEF Init, KL!Init
<1> QED BY <1>1, SafetyInv, LifecycleStep, PTL DEF Spec, Safety, KL!Safety
=============================================================================
