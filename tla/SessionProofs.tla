--------------------------- MODULE SessionProofs ----------------------------
(***************************************************************************)
(* Proofs about a session, for any turn limit, tools and model: its types,  *)
(* that the first signal ends it, that its turns are bounded, that its      *)
(* conversation is well formed and that its trace tells what happened.      *)
(***************************************************************************)
EXTENDS Session, SequenceTheorems, FiniteSetTheorems, TLAPS

\* A session runs until it has an outcome, and while there are calls to make
\* the next one is known.
Control ==
    /\ pc \in {"request", "chat", "calls", "ended"}
    /\ outcome \in Outcome
    /\ pc = "ended" <=> outcome # "running"
    /\ pending \in CallLists
    /\ pc = "calls" => pending # <<>>
    /\ made \in Seq([call: Call, result: Result])
    /\ messages \in Seq(Message)

\* The turn is the number of answers, but for the one whose calls are made; a
\* session that ends with a signal does not complete its turn.
Turns ==
    /\ turn \in 0..MaxTurns
    /\ Cardinality(Positions("assistant"))
          = turn + One(pc = "calls" \/ outcome \in {"done", "requeue"})
    /\ pc \in {"chat", "calls"} \/ outcome \in {"done", "requeue"} => turn < MaxTurns
    /\ outcome = "exhausted" => turn = MaxTurns

Latest(i) == \A k \in Positions("assistant") : k <= i

Asked(i) == IF Proceeds(messages[i].stop, messages[i].calls)
            THEN Len(messages[i].calls) ELSE 0

\* ConversationWellFormed, with what it needs of the response whose calls are made.
Conversation ==
    \A i \in Positions("assistant") :
        /\ pc \in {"request", "chat"} \/ ~Latest(i) => AnsweredInOrder(i, Asked(i))
        /\ pc = "calls" /\ Latest(i) =>
              /\ AnsweredInOrder(i, Len(messages) - i)
              /\ Len(messages) - i < Asked(i)
              /\ pending = SubSeq(messages[i].calls, Len(messages) - i + 1, Asked(i))

\* The trace is written while the session runs and closed when it has ended.
Writer ==
    /\ file \in {"none", "open", "broken", "closed", "leaked"}
    /\ file \in {"closed", "leaked"} => pc = "ended"
    /\ trace \in Seq(Phase)
    /\ buffered \in BOOLEAN
    /\ file = "closed" => ~buffered

\* The first part of TraceTellsSession; Writer has the second.
Told == file \in {"open", "closed"} => LinesTellSession

Inv == /\ Control /\ SignalEndsSession /\ Turns /\ Conversation
       /\ Writer /\ Told
-----------------------------------------------------------------------------
(* Sequences and the positions of their elements.                           *)

LEMMA CallListsAreSequences ==
    /\ CallLists \subseteq Seq(Call)
    /\ <<>> \in CallLists
    /\ \A c \in CallLists : c # <<>> => Head(c) \in Call /\ Tail(c) \in CallLists
<1>1. CallLists \subseteq Seq(Call)
  BY DEF CallLists, BoundedSeq, SeqOf
<1>2. <<>> \in CallLists
  BY BoundsAssumption DEF CallLists, BoundedSeq, SeqOf
<1>3. ASSUME NEW c \in CallLists, c # <<>>
      PROVE  Head(c) \in Call /\ Tail(c) \in CallLists
  <2>1. /\ Head(c) \in Call /\ Tail(c) \in Seq(Call)
        /\ Len(Tail(c)) = Len(c) - 1 /\ Len(c) \in Nat
    BY <1>1, <1>3, HeadTailProperties, LenProperties
  <2>2. Len(c) \in 0..MaxCalls
    <3>1. PICK m \in 0..MaxCalls : c \in [1..m -> Call]
      BY DEF CallLists, BoundedSeq, SeqOf
    <3> QED BY <1>1, <3>1, <2>1, BoundsAssumption
  <2>3. Len(c) # 0
    BY <1>1, <1>3, EmptySeq
  <2>4. Tail(c) \in [1..(Len(c) - 1) -> Call]
    <3>1. Tail(c) \in [1..Len(Tail(c)) -> Call]
      BY <2>1, LenProperties
    <3> QED BY <2>1, <3>1
  <2>5. Len(c) - 1 \in 0..MaxCalls
    BY <2>2, <2>3, BoundsAssumption
  <2> QED BY <2>1, <2>4, <2>5 DEF CallLists, BoundedSeq, SeqOf
<1> QED BY <1>1, <1>2, <1>3

\* One more element is counted once more, where it is the one asked for.
LEMMA CountAppend ==
    ASSUME NEW S, NEW s \in Seq(S), NEW e \in S, NEW x
    PROVE  /\ Count(s, x) \in Nat
           /\ Count(s \o <<e>>, x) = Count(s, x) + One(e = x)
           /\ s \o <<e>> \in Seq(S)
<1> DEFINE at(t) == {i \in DOMAIN t : t[i] = x}
           n     == Len(s) + 1
<1>1. /\ s \o <<e>> \in Seq(S) /\ Len(s \o <<e>>) = n /\ Len(s) \in Nat
      /\ DOMAIN s = 1..Len(s) /\ DOMAIN (s \o <<e>>) = 1..n
      /\ \A i \in 1..Len(s) : (s \o <<e>>)[i] = s[i]
      /\ (s \o <<e>>)[n] = e
  OBVIOUS
<1>2. IsFiniteSet(at(s)) /\ Cardinality(at(s)) \in Nat /\ n \notin at(s)
  <2>1. at(s) \in SUBSET (1..Len(s)) /\ IsFiniteSet(1..Len(s))
    BY <1>1, FS_Interval
  <2> QED BY <1>1, <2>1, FS_Subset, FS_CardinalityType
<1>3. at(s \o <<e>>) = IF e = x THEN at(s) \cup {n} ELSE at(s)
  BY <1>1
<1>4. Cardinality(at(s) \cup {n}) = Cardinality(at(s)) + 1
  BY <1>2, FS_AddElement
<1>5. Cardinality(at(s \o <<e>>)) = Cardinality(at(s)) + One(e = x)
  <2>1. CASE e = x
    BY <1>3, <1>4, <2>1 DEF One
  <2>2. CASE e # x
    <3>1. at(s \o <<e>>) = at(s) /\ One(e = x) = 0
      BY <1>3, <2>2 DEF One
    <3> HIDE DEF at
    <3> QED BY <1>2, <3>1
  <2> QED BY <2>1, <2>2
<1> QED BY <1>1, <1>2, <1>5 DEF Count

LEMMA CountTwo ==
    ASSUME NEW S, NEW s \in Seq(S), NEW d \in S, NEW e \in S, NEW x
    PROVE  /\ Count(s \o <<d, e>>, x) = Count(s, x) + One(d = x) + One(e = x)
           /\ s \o <<d, e>> \in Seq(S)
<1> DEFINE t == s \o <<d>>
<1>1. t \in Seq(S) /\ s \o <<d, e>> = t \o <<e>>
  <2>1. /\ <<d>> \in Seq(S) /\ <<e>> \in Seq(S) /\ <<d, e>> \in Seq(S)
        /\ Len(<<d>> \o <<e>>) = 2 /\ <<d>> \o <<e>> \in Seq(S)
        /\ (<<d>> \o <<e>>)[1] = d /\ (<<d>> \o <<e>>)[2] = e
    OBVIOUS
  <2>2. <<d>> \o <<e>> = <<d, e>>
    <3>1. \A i \in 1..2 : (<<d>> \o <<e>>)[i] = <<d, e>>[i]
      BY <2>1
    <3>2. Len(<<d, e>>) = 2
      OBVIOUS
    <3> QED BY <2>1, <3>1, <3>2, SeqEqual
  <2>3. s \o (<<d>> \o <<e>>) = t \o <<e>>
    BY <2>1, ConcatAssociative
  <2>4. t \in Seq(S)
    BY <2>1, ConcatProperties
  <2> QED BY <2>2, <2>3, <2>4
<1>2. Count(t, x) = Count(s, x) + One(d = x)
  BY CountAppend
<1>3. ASSUME NEW q \in Seq(S)
      PROVE  q \o <<e>> \in Seq(S) /\ Count(q \o <<e>>, x) = Count(q, x) + One(e = x)
  BY CountAppend
<1> HIDE DEF t
<1>4. t \o <<e>> \in Seq(S) /\ Count(t \o <<e>>, x) = Count(t, x) + One(e = x)
  BY <1>1, <1>3
<1> QED BY <1>1, <1>2, <1>4

\* A message is appended: it has the next position, and the others keep theirs.
LEMMA AppendPositions ==
    ASSUME messages \in Seq(Message), NEW m \in Message, messages' = Append(messages, m)
    PROVE  /\ messages' \in Seq(Message)
           /\ Len(messages) \in Nat /\ Len(messages') = Len(messages) + 1
           /\ DOMAIN messages = 1..Len(messages)
           /\ DOMAIN messages' = 1..(Len(messages) + 1)
           /\ \A i \in 1..Len(messages) : messages'[i] = messages[i]
           /\ messages'[Len(messages) + 1] = m
           /\ \A role : Positions(role)' =
                 IF m.role = role THEN Positions(role) \cup {Len(messages) + 1}
                                  ELSE Positions(role)
           /\ \A role : Positions(role) \in SUBSET (1..Len(messages))
<1>1. /\ messages' \in Seq(Message)
      /\ Len(messages) \in Nat /\ Len(messages') = Len(messages) + 1
      /\ DOMAIN messages = 1..Len(messages)
      /\ DOMAIN messages' = 1..(Len(messages) + 1)
      /\ \A i \in 1..Len(messages) : messages'[i] = messages[i]
      /\ messages'[Len(messages) + 1] = m
  BY AppendProperties, LenProperties
<1>2. ASSUME NEW role
      PROVE  /\ Positions(role)' =
                  IF m.role = role THEN Positions(role) \cup {Len(messages) + 1}
                                   ELSE Positions(role)
             /\ Positions(role) \in SUBSET (1..Len(messages))
  BY <1>1 DEF Positions
<1> QED BY <1>1, <1>2

\* How many messages a role has.
LEMMA CountPositions ==
    ASSUME messages \in Seq(Message), NEW role
    PROVE  IsFiniteSet(Positions(role)) /\ Cardinality(Positions(role)) \in Nat
<1>1. Positions(role) \in SUBSET (1..Len(messages)) /\ Len(messages) \in Nat
  BY LenProperties DEF Positions
<1>2. IsFiniteSet(1..Len(messages))
  BY <1>1, FS_Interval
<1>3. IsFiniteSet(Positions(role))
  BY <1>1, <1>2, FS_Subset
<1> QED BY <1>3, FS_CardinalityType
-----------------------------------------------------------------------------
(* Steps of the conversation.                                               *)

\* A message of the model carries its stop reason and its calls.
LEMMA AssistantMessages ==
    ASSUME messages \in Seq(Message), NEW i \in Positions("assistant")
    PROVE  /\ i \in 1..Len(messages) /\ Len(messages) \in Nat
           /\ messages[i].calls \in Seq(Call)
           /\ Len(messages[i].calls) \in Nat /\ Asked(i) \in Nat
<1>1. i \in 1..Len(messages) /\ messages[i].role = "assistant" /\ Len(messages) \in Nat
  BY LenProperties DEF Positions
<1>2. messages[i] \in Message
  BY <1>1, ElementOfSeq
<1>3. PICK r \in StopReason, c \in CallLists : messages[i] = Assistant(r, c)
  BY <1>1, <1>2 DEF Message, User, Assistant, ToolMessage
<1>4. messages[i].calls \in Seq(Call)
  BY <1>3, CallListsAreSequences DEF Assistant
<1>5. Len(messages[i].calls) \in Nat
  BY <1>4, LenProperties
<1> QED BY <1>1, <1>4, <1>5 DEF Asked

LEMMA SameMessages ==
    ASSUME UNCHANGED messages
    PROVE  /\ \A role : Positions(role)' = Positions(role)
           /\ \A i, n : AnsweredInOrder(i, n)' <=> AnsweredInOrder(i, n)
           /\ \A i : Latest(i)' <=> Latest(i)
           /\ \A i : Asked(i)' = Asked(i)
<1>1. \A role : Positions(role)' = Positions(role)
  BY DEF Positions
<1>2. \A i : Answers(i)' = Answers(i)
  BY <1>1 DEF Answers
<1> QED BY <1>1, <1>2 DEF AnsweredInOrder, Latest, Asked

\* What was answered stays answered, unless the new message is a further answer.
LEMMA AnswersKept ==
    ASSUME messages \in Seq(Message), NEW m \in Message, messages' = Append(messages, m),
           NEW i \in Positions("assistant"), NEW n \in Nat, AnsweredInOrder(i, n),
           m.role = "assistant" \/ (m.role = "tool" /\ ~Latest(i))
    PROVE  AnsweredInOrder(i, n)' /\ Asked(i)' = Asked(i)
<1> DEFINE L == Len(messages)
<1>1. /\ L \in Nat /\ i \in 1..L /\ \A k \in 1..L : messages'[k] = messages[k]
      /\ Positions("tool") \in SUBSET (1..L) /\ Positions("assistant") \in SUBSET (1..L)
      /\ Positions("tool")' =
            IF m.role = "tool" THEN Positions("tool") \cup {L + 1} ELSE Positions("tool")
      /\ Positions("assistant")' =
            IF m.role = "assistant" THEN Positions("assistant") \cup {L + 1}
                                    ELSE Positions("assistant")
  BY AppendPositions
<1> HIDE DEF L
<1>2. Answers(i)' = Answers(i)
  <2>1. CASE m.role = "assistant"
    BY <1>1, <2>1 DEF Answers
  <2>2. CASE m.role = "tool" /\ ~Latest(i)
    <3>1. PICK k \in Positions("assistant") : k > i /\ k \in 1..L
      BY <1>1, <2>2 DEF Latest
    <3>2. L + 1 \notin Answers(i)'
      BY <1>1, <2>2, <3>1 DEF Answers
    <3> QED BY <1>1, <2>2, <3>2 DEF Answers
  <2> QED BY <2>1, <2>2
<1>3. \A j \in 1..n : i + j \in 1..L
  <2>1. \A j \in 1..n : i + j \in Answers(i)
    BY <1>1 DEF AnsweredInOrder
  <2> QED BY <1>1, <2>1 DEF Answers
<1> QED BY <1>1, <1>2, <1>3 DEF AnsweredInOrder, Asked

\* The next answer to the latest message of the model takes its place.
LEMMA NextAnswer ==
    ASSUME messages \in Seq(Message), NEW c \in Call,
           messages' = Append(messages, ToolMessage(c)),
           NEW i \in Positions("assistant"), Latest(i),
           NEW n \in Nat, n = Len(messages) - i, AnsweredInOrder(i, n),
           c = messages[i].calls[n + 1]
    PROVE  /\ AnsweredInOrder(i, n + 1)'
           /\ Len(messages)' = Len(messages) + 1
           /\ messages'[i] = messages[i] /\ Asked(i)' = Asked(i)
<1> DEFINE L == Len(messages)
<1>1. ToolMessage(c) \in Message /\ ToolMessage(c).role = "tool"
  BY DEF Message, ToolMessage
<1>2. /\ L \in Nat /\ i \in 1..L /\ \A k \in 1..L : messages'[k] = messages[k]
      /\ Len(messages') = L + 1 /\ messages'[L + 1] = ToolMessage(c)
      /\ Positions("tool") \in SUBSET (1..L) /\ Positions("assistant") \in SUBSET (1..L)
      /\ Positions("tool")' = Positions("tool") \cup {L + 1}
      /\ Positions("assistant")' = Positions("assistant")
  BY <1>1, AppendPositions
<1>3. Answers(i) = (i + 1)..L
  BY <1>2 DEF AnsweredInOrder
<1>4. \A j \in 1..n : messages[i + j] = ToolMessage(messages[i].calls[j])
  BY DEF AnsweredInOrder
<1>5. Answers(i)' = Answers(i) \cup {L + 1}
  BY <1>2 DEF Answers, Latest
<1>6. messages'[i + (n + 1)] = ToolMessage(messages'[i].calls[n + 1])
  BY <1>2
<1>7. \A j \in 1..(n + 1) : messages'[i + j] = ToolMessage(messages'[i].calls[j])
  <2> TAKE j \in 1..(n + 1)
  <2>1. CASE j = n + 1
    BY <1>6, <2>1
  <2>2. CASE j # n + 1
    <3>1. j \in 1..n /\ i + j \in 1..L
      BY <1>2, <2>2
    <3>2. messages'[i + j] = messages[i + j] /\ messages'[i] = messages[i]
      BY <1>2, <3>1
    <3>3. messages[i + j] = ToolMessage(messages[i].calls[j])
      BY <1>4, <3>1
    <3> QED BY <3>2, <3>3
  <2> QED BY <2>1, <2>2
<1>8. Answers(i)' = (i + 1)..(i + (n + 1))
  <2>1. i + (n + 1) = L + 1
    BY <1>2
  <2>2. i \in Nat /\ L \in Nat /\ i <= L
    BY <1>2
  <2>3. ((i + 1)..L) \cup {L + 1} = (i + 1)..(L + 1)
    <3> HIDE DEF L
    <3>1. ASSUME NEW x \in (i + 1)..(L + 1)
          PROVE  x \in (i + 1)..L \/ x = L + 1
      BY <2>2
    <3>2. ASSUME NEW x \in (i + 1)..L
          PROVE  x \in (i + 1)..(L + 1)
      BY <2>2
    <3>3. L + 1 \in (i + 1)..(L + 1)
      BY <2>2
    <3> QED BY <3>1, <3>2, <3>3
  <2> QED BY <1>3, <1>5, <2>1, <2>3
<1>9. AnsweredInOrder(i, n + 1)'
  BY <1>7, <1>8 DEF AnsweredInOrder
<1>10. messages'[i] = messages[i]
  BY <1>2
<1>11. Asked(i)' = Asked(i)
  BY <1>10 DEF Asked
<1> QED BY <1>2, <1>9, <1>10, <1>11
-----------------------------------------------------------------------------
(* Steps of the trace and of the calls.                                     *)

\* While the session runs its trace is whole only if every line was taken.
LEMMA TracedLines ==
    ASSUME Writer, pc # "ended", NEW lines \in Seq(Phase), Traced(lines)
    PROVE  /\ Writer'
           /\ file' \in {"open", "closed"} =>
                 file = "open" /\ trace' = trace \o lines
<1>1. CASE file = "open" /\ trace' = trace \o lines /\ buffered' \in BOOLEAN /\ UNCHANGED file
  BY <1>1, ConcatProperties DEF Writer
<1>2. CASE /\ file = "open" /\ file' = "broken" /\ buffered' = TRUE
           /\ \E n \in 0..(Len(lines) - 1) : trace' = trace \o SubSeq(lines, 1, n)
  <2>1. PICK n \in 0..(Len(lines) - 1) : trace' = trace \o SubSeq(lines, 1, n)
    BY <1>2
  <2>2. Len(lines) \in Nat /\ \A i \in 1..n : lines[i] \in Phase
    BY ElementOfSeq, LenProperties
  <2>3. SubSeq(lines, 1, n) \in Seq(Phase)
    BY <2>2, SubSeqProperties
  <2> QED BY <1>2, <2>1, <2>3, ConcatProperties DEF Writer
<1>3. CASE file # "open" /\ UNCHANGED tvars
  BY <1>3 DEF Writer, tvars
<1> QED BY <1>1, <1>2, <1>3 DEF Traced

LEMMA SameMade ==
    ASSUME UNCHANGED made
    PROVE  Signals' = Signals
BY DEF Signals

\* A call that is made adds itself to the signals, or nothing.
LEMMA MadeSignals ==
    ASSUME NEW r \in [call: Call, result: Result], made \in Seq([call: Call, result: Result]),
           Signals = {}, made' = Append(made, r)
    PROVE  /\ made' \in Seq([call: Call, result: Result])
           /\ Len(made) \in Nat /\ Len(made') = Len(made) + 1 /\ made'[Len(made')] = r
           /\ Signals' = IF r.result \in {"done", "requeue"} THEN {Len(made')} ELSE {}
<1>1. /\ made' \in Seq([call: Call, result: Result])
      /\ Len(made) \in Nat /\ Len(made') = Len(made) + 1
      /\ DOMAIN made = 1..Len(made) /\ DOMAIN made' = 1..(Len(made) + 1)
      /\ \A i \in 1..Len(made) : made'[i] = made[i]
      /\ made'[Len(made) + 1] = r
  BY AppendProperties, LenProperties
<1> QED BY <1>1 DEF Signals
-----------------------------------------------------------------------------
(* The invariant, action by action.                                         *)

LEMMA InitInv == Init => Inv
<1> SUFFICES ASSUME Init
             PROVE  Inv
  OBVIOUS
<1>1. messages \in Seq(Message) /\ Positions("assistant") = {} /\ Signals = {}
  BY DEF Init, Message, User, Positions, Signals
<1>2. Cardinality(Positions("assistant")) = 0
  BY <1>1, FS_EmptySet
<1>3. Control
  BY <1>1, CallListsAreSequences DEF Init, Control, Outcome
<1>4. SignalEndsSession
  BY <1>1 DEF Init, SignalEndsSession
<1>5. Turns
  BY <1>2, BoundsAssumption DEF Init, Turns, One
<1>6. Conversation
  BY <1>1 DEF Conversation
<1>7. Writer
  <2>1. <<"skill_start">> \in Seq(Phase) /\ <<>> \in Seq(Phase)
    BY DEF Phase
  <2>2. CASE file = "open"
    BY <2>1, <2>2 DEF Init, Writer
  <2>3. CASE file # "open"
    BY <2>1, <2>3 DEF Init, Writer
  <2> QED BY <2>2, <2>3
<1>8. Told
  <2>1. CASE file = "open"
    <3>1. trace = <<"skill_start">>
      BY <2>1 DEF Init
    <3>2. ASSUME NEW x \in Phase, x # "skill_start"
          PROVE  Lines(x) = 0
      <4>1. {i \in DOMAIN trace : trace[i] = x} = {}
        BY <3>1, <3>2
      <4> QED BY <4>1, FS_EmptySet DEF Lines, Count
    <3>3. Len(made) = 0
      BY DEF Init
    <3> QED BY <1>2, <3>2, <3>3 DEF Init, Told, LinesTellSession, One, Phase
  <2>2. CASE file # "open"
    BY <2>2 DEF Init, Told, LinesTellSession
  <2> QED BY <2>1, <2>2
<1> QED BY <1>3, <1>4, <1>5, <1>6, <1>7, <1>8 DEF Inv

\* A step that has no message and no call keeps what is said of them, as long as
\* no call is pending before or after it.
LEMMA QuietStep ==
    ASSUME Conversation, UNCHANGED messages, pc # "calls", pc' # "calls",
           pc' \in {"request", "chat"} => pc \in {"request", "chat"}
    PROVE  Conversation'
<1> SUFFICES ASSUME NEW i \in Positions("assistant")',
                    (pc' \in {"request", "chat"} \/ ~Latest(i)')
             PROVE  AnsweredInOrder(i, Asked(i))'
  BY DEF Conversation
<1>1. /\ i \in Positions("assistant") /\ Asked(i)' = Asked(i)
      /\ pc \in {"request", "chat"} \/ ~Latest(i)
      /\ \A n : AnsweredInOrder(i, n)' <=> AnsweredInOrder(i, n)
  BY SameMessages
<1>2. AnsweredInOrder(i, Asked(i))
  BY <1>1 DEF Conversation
<1> QED BY <1>1, <1>2, SameMessages DEF AnsweredInOrder

LEMMA SendRequestInv == Inv /\ SendRequest => Inv'
<1> SUFFICES ASSUME Inv, SendRequest
             PROVE  Inv'
  OBVIOUS
<1> USE DEF Inv, SendRequest
<1>1. Control'
  BY DEF Control
<1>2. SignalEndsSession'
  BY SameMade DEF SignalEndsSession
<1>3. Turns'
  BY SameMessages DEF Control, Turns, One
<1>4. Conversation'
  BY QuietStep
<1>5. /\ Writer'
      /\ file' \in {"open", "closed"} =>
            file = "open" /\ trace' = trace \o <<"llm_request">>
  <2>1. <<"llm_request">> \in Seq(Phase)
    BY DEF Phase
  <2> QED BY <2>1, TracedLines
<1>6. Told'
  <2> SUFFICES ASSUME file = "open", trace' = trace \o <<"llm_request">>
               PROVE  Told'
    BY <1>5 DEF Told, LinesTellSession
  <2>1. \A x : Lines(x)' = Lines(x) + One("llm_request" = x) /\ Lines(x) \in Nat
    BY CountAppend DEF Lines, Writer, Phase
  <2>2. Positions("assistant")' = Positions("assistant")
    BY SameMessages
  <2>3. outcome = "running"
    BY DEF Control
  <2> QED BY <2>1, <2>2, <2>3 DEF Told, LinesTellSession, One
<1> QED BY <1>1, <1>2, <1>3, <1>4, <1>5, <1>6

LEMMA StopInv == Inv /\ (TurnLimit \/ ChatFails) => Inv'
<1> SUFFICES ASSUME Inv, TurnLimit \/ ChatFails
             PROVE  Inv'
  OBVIOUS
<1> USE DEF Inv, TurnLimit, ChatFails
<1>0. /\ pc \in {"request", "chat"} /\ pc' = "ended" /\ outcome = "running"
      /\ outcome' \in {"exhausted", "failed"}
      /\ UNCHANGED <<turn, messages, pending, made, tvars>>
  BY DEF Control
<1>1. Control'
  BY <1>0 DEF Control, Outcome
<1>2. SignalEndsSession'
  BY <1>0, SameMade DEF SignalEndsSession
<1>3. Turns'
  BY <1>0, SameMessages DEF Control, Turns, One
<1>4. Conversation'
  BY <1>0, QuietStep
<1>5. Writer'
  BY <1>0 DEF Writer, tvars
<1>6. Told'
  <2> SUFFICES ASSUME file' \in {"open", "closed"}
               PROVE  Told'
    BY DEF Told, LinesTellSession
  <2>1. file = file' /\ \A x : Lines(x)' = Lines(x)
    BY <1>0 DEF Lines, tvars
  <2>2. Positions("assistant")' = Positions("assistant")
    BY <1>0, SameMessages
  <2>3. One(pc = "chat" \/ outcome = "failed")' = One(pc = "chat" \/ outcome = "failed")
    BY <1>0 DEF One
  <2>4. /\ One(outcome = "done")' = One(outcome = "done")
        /\ One(outcome = "requeue")' = One(outcome = "requeue")
    BY <1>0 DEF One
  <2> QED BY <1>0, <2>1, <2>2, <2>3, <2>4 DEF Told, LinesTellSession
<1> QED BY <1>1, <1>2, <1>3, <1>4, <1>5, <1>6

LEMMA CloseInv == Inv /\ Close => Inv'
<1> SUFFICES ASSUME Inv, Close
             PROVE  Inv'
  OBVIOUS
<1> USE DEF Inv, Close
<1>1. Control'
  BY DEF Control
<1>2. SignalEndsSession'
  BY SameMade DEF SignalEndsSession
<1>3. Turns'
  BY SameMessages DEF Turns, One
<1>4. Conversation'
  BY QuietStep
<1>5. Writer'
  BY DEF Writer
<1>6. Told'
  <2> SUFFICES ASSUME file' \in {"open", "closed"}
               PROVE  Told'
    BY DEF Told, LinesTellSession
  <2>1. file = "open" /\ \A x : Lines(x)' = Lines(x)
    BY DEF Lines
  <2>2. Positions("assistant")' = Positions("assistant")
    BY SameMessages
  <2> QED BY <2>1, <2>2 DEF Told, LinesTellSession
<1> QED BY <1>1, <1>2, <1>3, <1>4, <1>5, <1>6

LEMMA RespondInv ==
    ASSUME Inv, NEW reason \in DoneReason, NEW calls \in CallLists, Respond(reason, calls)
    PROVE  Inv'
<1> DEFINE stop == mapStopReason(reason)
           m    == Assistant(stop, calls)
<1> USE DEF Inv
<1> PICK L : L = Len(messages)
  OBVIOUS
<1>1. /\ m \in Message /\ m.role = "assistant" /\ m.stop = stop /\ m.calls = calls
      /\ calls \in Seq(Call) /\ Len(calls) \in Nat
  <2>1. stop \in StopReason
    BY DEF mapStopReason, StopReason
  <2>2. calls \in Seq(Call)
    BY CallListsAreSequences
  <2> QED BY <2>1, <2>2, LenProperties DEF Message, Assistant
<1>2. /\ messages' \in Seq(Message)
      /\ L \in Nat /\ Len(messages') = L + 1 /\ messages'[L + 1] = m
      /\ \A i \in 1..L : messages'[i] = messages[i]
      /\ Positions("tool") \in SUBSET (1..L) /\ Positions("assistant") \in SUBSET (1..L)
      /\ Positions("tool")' = Positions("tool")
      /\ Positions("assistant")' = Positions("assistant") \cup {L + 1}
  BY <1>1, AppendPositions DEF Respond, Control
<1>3. Cardinality(Positions("assistant"))' = Cardinality(Positions("assistant")) + 1
  BY <1>2, CountPositions, FS_AddElement DEF Control
<1>4. /\ pc = "chat" /\ outcome = "running" /\ outcome' = "running"
      /\ UNCHANGED made
      /\ \/ /\ Proceeds(stop, calls) /\ pc' = "calls" /\ pending' = calls /\ turn' = turn
         \/ /\ ~Proceeds(stop, calls) /\ pc' = "request" /\ turn' = turn + 1
            /\ pending' = pending
  BY DEF Respond, Control
<1>5. Asked(L + 1)' = IF Proceeds(stop, calls) THEN Len(calls) ELSE 0
  BY <1>1, <1>2 DEF Asked
<1> HIDE DEF stop, m
<1>6. Control'
  BY <1>2, <1>4 DEF Control, Proceeds
<1>7. SignalEndsSession'
  BY <1>4, SameMade DEF SignalEndsSession
<1>8. Turns'
  <2>1. turn \in 0..MaxTurns /\ turn < MaxTurns /\ MaxTurns \in Nat
    BY <1>4, BoundsAssumption DEF Turns
  <2>2. Cardinality(Positions("assistant")) = turn
    BY <1>4, <2>1 DEF Turns, One
  <2> QED BY <1>3, <1>4, <2>1, <2>2 DEF Turns, One
<1>9. Conversation'
  <2> SUFFICES ASSUME NEW i \in Positions("assistant")'
               PROVE  /\ pc' \in {"request", "chat"} \/ ~Latest(i)' =>
                            AnsweredInOrder(i, Asked(i))'
                      /\ pc' = "calls" /\ Latest(i)' =>
                            /\ AnsweredInOrder(i, Len(messages) - i)'
                            /\ Len(messages') - i < Asked(i)'
                            /\ pending' = SubSeq(messages'[i].calls,
                                                 Len(messages') - i + 1, Asked(i)')
    BY DEF Conversation
  <2>1. CASE i = L + 1
    <3>1. Answers(L + 1)' = {}
      BY <1>2 DEF Answers
    <3>2. AnsweredInOrder(L + 1, 0)'
      <4>1. ((L + 1) + 1)..((L + 1) + 0) = {}
        BY <1>2
      <4>2. 1..0 = {}
        OBVIOUS
      <4> QED BY <3>1, <4>1, <4>2 DEF AnsweredInOrder
    <3>3. Latest(L + 1)'
      BY <1>2 DEF Latest
    <3>4. Len(messages') - (L + 1) = 0 /\ Len(messages') - (L + 1) + 1 = 1
      BY <1>2
    <3>5. CASE Proceeds(stop, calls)
      <4>1. Len(calls) # 0
        BY <1>1, <3>5, EmptySeq DEF Proceeds
      <4>2. SubSeq(calls, 1, Len(calls)) = calls
        BY <1>1, SubSeqFull
      <4>3. AnsweredInOrder(L + 1, Len(messages) - (L + 1))'
        BY <3>2, <3>4 DEF AnsweredInOrder
      <4> QED BY <1>1, <1>2, <1>4, <1>5, <2>1, <3>3, <3>4, <3>5, <4>1, <4>2, <4>3
    <3>6. CASE ~Proceeds(stop, calls)
      <4>1. AnsweredInOrder(L + 1, Asked(L + 1))'
        BY <1>5, <3>2, <3>6 DEF AnsweredInOrder
      <4> QED BY <1>4, <2>1, <3>6, <4>1
    <3> QED BY <3>5, <3>6
  <2>2. CASE i # L + 1
    <3>1. i \in Positions("assistant") /\ ~Latest(i)'
      BY <1>2, <2>2 DEF Latest
    <3>2. Asked(i) \in Nat /\ AnsweredInOrder(i, Asked(i))
      BY <1>4, <3>1, AssistantMessages DEF Conversation, Control
    <3>3. messages' = Append(messages, m)
      BY DEF Respond, m, stop
    <3>4. ASSUME NEW n \in Nat, AnsweredInOrder(i, n)
          PROVE  AnsweredInOrder(i, n)' /\ Asked(i)' = Asked(i)
      BY <1>1, <3>1, <3>3, <3>4, AnswersKept DEF Control
    <3>5. AnsweredInOrder(i, Asked(i))'
      BY <3>2, <3>4 DEF AnsweredInOrder
    <3> QED BY <3>1, <3>5
  <2> QED BY <2>1, <2>2
<1>10. /\ Writer'
       /\ file' \in {"open", "closed"} =>
             file = "open" /\ trace' = trace \o <<"llm_response">>
  <2>1. <<"llm_response">> \in Seq(Phase)
    BY DEF Phase
  <2> QED BY <1>4, <2>1, TracedLines DEF Respond
<1>11. Told'
  <2> SUFFICES ASSUME file = "open", trace' = trace \o <<"llm_response">>
               PROVE  Told'
    BY <1>10 DEF Told, LinesTellSession
  <2>1. \A x : Lines(x)' = Lines(x) + One("llm_response" = x) /\ Lines(x) \in Nat
    BY CountAppend DEF Lines, Writer, Phase
  <2> QED BY <1>3, <1>4, <2>1 DEF Told, LinesTellSession, One
<1> QED BY <1>6, <1>7, <1>8, <1>9, <1>10, <1>11

\* The latest message of the model is the one whose calls are made, and the head of
\* the pending calls is the one to be answered next.
LEMMA PendingCall ==
    ASSUME Inv, pc = "calls", NEW i \in Positions("assistant"), Latest(i)
    PROVE  /\ Len(messages) - i \in Nat /\ Asked(i) = Len(messages[i].calls)
           /\ Len(messages) - i < Asked(i)
           /\ AnsweredInOrder(i, Len(messages) - i)
           /\ Head(pending) = messages[i].calls[Len(messages) - i + 1]
           /\ Tail(pending) = SubSeq(messages[i].calls, Len(messages) - i + 2, Asked(i))
           /\ Tail(pending) = <<>> <=> Len(messages) - i + 1 = Asked(i)
<1> DEFINE n == Len(messages) - i
           c == messages[i].calls
<1>1. /\ n < Asked(i) /\ AnsweredInOrder(i, n)
      /\ pending = SubSeq(c, n + 1, Asked(i))
  BY DEF Inv, Conversation
<1>2. n \in Nat /\ c \in Seq(Call) /\ Len(c) \in Nat
  BY AssistantMessages DEF Inv, Control
<1>3. Asked(i) = Len(c)
  BY <1>1, <1>2 DEF Asked
<1> HIDE DEF n, c
<1>4. n + 1 \in 1..Len(c) /\ Len(c) \in (n + 1)..Len(c) /\ (n + 1) + 1 = n + 2
  BY <1>1, <1>2, <1>3
<1>5. Head(pending) = c[n + 1] /\ Tail(pending) = SubSeq(c, n + 2, Len(c))
  BY <1>1, <1>2, <1>3, <1>4, HeadTailOfSubSeq
<1>6. Tail(pending) = <<>> <=> n + 1 = Len(c)
  <2>1. CASE n + 1 = Len(c)
    BY <1>2, <1>4, <1>5, <2>1, SubSeqEmpty
  <2>2. CASE n + 1 # Len(c)
    <3>1. \A j \in (n + 2)..Len(c) : c[j] \in Call
      BY <1>2, ElementOfSeq
    <3>2. /\ SubSeq(c, n + 2, Len(c)) \in Seq(Call)
          /\ Len(SubSeq(c, n + 2, Len(c))) = Len(c) - (n + 2) + 1
      BY <1>2, <1>4, <2>2, <3>1, SubSeqProperties
    <3>3. Len(SubSeq(c, n + 2, Len(c))) # 0
      BY <1>2, <1>4, <2>2, <3>2
    <3> QED BY <1>5, <2>2, <3>3, EmptySeq
  <2> QED BY <2>1, <2>2
<1> QED BY <1>1, <1>2, <1>3, <1>5, <1>6 DEF n, c

LEMMA MakeCallInv == Inv /\ MakeCall => Inv'
<1> SUFFICES ASSUME Inv, MakeCall
             PROVE  Inv'
  OBVIOUS
<1> USE DEF Inv
<1> DEFINE call == Head(pending)
<1>1. /\ call \in Call /\ Tail(pending) \in CallLists
      /\ pc = "calls" /\ outcome = "running"
  BY CallListsAreSequences DEF Control, MakeCall
<1>2. PICK result \in CallResult(call) :
         /\ made' = Append(made, [call |-> call, result |-> result])
         /\ Traced(CallLines(result))
         /\ IF result \in {"done", "requeue"} THEN Terminate(result) ELSE Continue(call)
  BY DEF MakeCall
<1>3. result \in Result /\ [call |-> call, result |-> result] \in [call: Call, result: Result]
  BY <1>1, <1>2 DEF CallResult, Result
<1> HIDE DEF call
<1>4. Signals = {}
  BY <1>1 DEF SignalEndsSession
<1>5. /\ made' \in Seq([call: Call, result: Result])
      /\ Len(made) \in Nat /\ Len(made') = Len(made) + 1
      /\ made'[Len(made')].result = result
      /\ Signals' = IF result \in {"done", "requeue"} THEN {Len(made')} ELSE {}
  <2>1. [call |-> call, result |-> result].result = result
    OBVIOUS
  <2> QED BY <1>2, <1>3, <1>4, <2>1, MadeSignals DEF Control
<1>6. SignalEndsSession'
  <2>1. CASE result \in {"done", "requeue"}
    BY <1>2, <1>5, <2>1 DEF SignalEndsSession, Terminate
  <2>2. CASE result \notin {"done", "requeue"}
    BY <1>1, <1>2, <1>5, <2>2 DEF SignalEndsSession, Continue
  <2> QED BY <2>1, <2>2
<1>7. /\ Writer'
      /\ file' \in {"open", "closed"} =>
            file = "open" /\ trace' = trace \o CallLines(result)
  <2>1. CallLines(result) \in Seq(Phase)
    <3>1. /\ <<"tool_call">> \in Seq(Phase)
          /\ <<"tool_call", "skill_complete">> \in Seq(Phase)
          /\ <<"tool_call", "requeue">> \in Seq(Phase)
      BY DEF Phase
    <3> QED BY <3>1 DEF CallLines
  <2> QED BY <1>1, <1>2, <2>1, TracedLines
<1>8. ASSUME NEW x \in {"llm_request", "llm_response", "tool_call", "skill_complete", "requeue"},
             file' \in {"open", "closed"}
      PROVE  /\ Lines(x)' = Lines(x) + One(x = "tool_call")
                   + One(x = "skill_complete" /\ result = "done")
                   + One(x = "requeue" /\ result = "requeue")
             /\ Lines(x) \in Nat
  <2>1. file = "open" /\ trace' = trace \o CallLines(result) /\ trace \in Seq(Phase)
    BY <1>7, <1>8 DEF Writer
  <2>2. /\ "tool_call" \in Phase /\ "skill_complete" \in Phase /\ "requeue" \in Phase
        /\ Count(trace, x) \in Nat
    <3>1. "tool_call" \in Phase /\ "skill_complete" \in Phase /\ "requeue" \in Phase
      BY DEF Phase
    <3> QED BY <2>1, <3>1, CountAppend
  <2>3. CASE result = "done"
    <3>1. Count(trace', x) = Count(trace, x) + One("tool_call" = x) + One("skill_complete" = x)
      BY <2>1, <2>2, <2>3, CountTwo DEF CallLines
    <3> QED BY <2>2, <2>3, <3>1 DEF Lines, One
  <2>4. CASE result = "requeue"
    <3>1. Count(trace', x) = Count(trace, x) + One("tool_call" = x) + One("requeue" = x)
      BY <2>1, <2>2, <2>4, CountTwo DEF CallLines
    <3> QED BY <2>2, <2>4, <3>1 DEF Lines, One
  <2>5. CASE result \notin {"done", "requeue"}
    <3>1. Count(trace', x) = Count(trace, x) + One("tool_call" = x)
      BY <2>1, <2>2, <2>5, CountAppend DEF CallLines
    <3> QED BY <2>2, <2>5, <3>1 DEF Lines, One
  <2> QED BY <2>3, <2>4, <2>5
<1>9. CASE result \in {"done", "requeue"}
  <2>1. /\ pc' = "ended" /\ outcome' = result /\ pending' = <<>>
        /\ UNCHANGED <<turn, messages>>
    BY <1>2, <1>9 DEF Terminate
  <2>2. Control'
    BY <1>5, <1>9, <2>1, CallListsAreSequences DEF Control, Outcome
  <2>3. Turns'
    BY <1>1, <1>9, <2>1, SameMessages DEF Turns, One
  <2>4. Conversation'
    <3> SUFFICES ASSUME NEW i \in Positions("assistant")', ~Latest(i)'
                 PROVE  AnsweredInOrder(i, Asked(i))'
      BY <2>1 DEF Conversation
    <3>1. /\ i \in Positions("assistant") /\ Asked(i)' = Asked(i) /\ ~Latest(i)
          /\ AnsweredInOrder(i, Asked(i))' <=> AnsweredInOrder(i, Asked(i))
      BY <2>1, SameMessages DEF AnsweredInOrder
    <3> QED BY <3>1 DEF Conversation
  <2>5. Told'
    <3> SUFFICES ASSUME file' \in {"open", "closed"}
                 PROVE  Told'
      BY DEF Told, LinesTellSession
    <3>1. file = "open" /\ Positions("assistant")' = Positions("assistant")
      BY <1>7, <2>1, SameMessages
    <3>2. /\ Lines("llm_request")' = Lines("llm_request")
          /\ Lines("llm_response")' = Lines("llm_response")
          /\ Lines("tool_call")' = Lines("tool_call") + 1
          /\ Lines("skill_complete")' = Lines("skill_complete") + One(result = "done")
          /\ Lines("requeue")' = Lines("requeue") + One(result = "requeue")
          /\ Lines("llm_request") \in Nat /\ Lines("llm_response") \in Nat
          /\ Lines("skill_complete") \in Nat /\ Lines("requeue") \in Nat
      BY <1>8 DEF One
    <3> QED BY <1>1, <1>5, <1>9, <2>1, <3>1, <3>2 DEF Told, LinesTellSession, One
  <2> QED BY <1>6, <1>7, <2>2, <2>3, <2>4, <2>5
<1>10. CASE result \notin {"done", "requeue"}
  <2>1. /\ messages' = Append(messages, ToolMessage(call)) /\ ToolMessage(call) \in Message
        /\ ToolMessage(call).role = "tool"
        /\ pending' = Tail(pending) /\ outcome' = "running"
        /\ \/ /\ Tail(pending) = <<>> /\ pc' = "request" /\ turn' = turn + 1
           \/ /\ Tail(pending) # <<>> /\ pc' = "calls" /\ turn' = turn
    BY <1>1, <1>2, <1>10 DEF Continue, Message, ToolMessage
  <2>2. messages' \in Seq(Message) /\ Positions("assistant")' = Positions("assistant")
    BY <2>1, AppendPositions DEF Control
  <2>3. Control'
    BY <1>1, <1>5, <2>1, <2>2 DEF Control, Outcome
  <2>4. Turns'
    <3>1. turn \in 0..MaxTurns /\ turn < MaxTurns /\ MaxTurns \in Nat
      BY <1>1, BoundsAssumption DEF Turns
    <3>2. Cardinality(Positions("assistant")) = turn + 1
      BY <1>1, <3>1 DEF Turns, One
    <3> QED BY <2>1, <2>2, <3>1, <3>2 DEF Turns, One
  <2>5. Conversation'
    <3> SUFFICES ASSUME NEW i \in Positions("assistant")'
                 PROVE  /\ pc' \in {"request", "chat"} \/ ~Latest(i)' =>
                              AnsweredInOrder(i, Asked(i))'
                        /\ pc' = "calls" /\ Latest(i)' =>
                              /\ AnsweredInOrder(i, Len(messages) - i)'
                              /\ Len(messages') - i < Asked(i)'
                              /\ pending' = SubSeq(messages'[i].calls,
                                                   Len(messages') - i + 1, Asked(i)')
      BY DEF Conversation
    <3>1. i \in Positions("assistant") /\ (Latest(i)' <=> Latest(i))
      BY <2>2 DEF Latest
    <3>2. CASE ~Latest(i)
      <4>1. Asked(i) \in Nat /\ AnsweredInOrder(i, Asked(i))
        BY <3>1, <3>2, AssistantMessages DEF Conversation, Control
      <4>2. ASSUME NEW n \in Nat, AnsweredInOrder(i, n)
            PROVE  AnsweredInOrder(i, n)' /\ Asked(i)' = Asked(i)
        BY <2>1, <3>1, <3>2, <4>2, AnswersKept DEF Control
      <4>3. AnsweredInOrder(i, Asked(i))'
        BY <4>1, <4>2 DEF AnsweredInOrder
      <4> QED BY <3>1, <3>2, <4>3
    <3>3. CASE Latest(i)
      <4>0. PICK n : n = Len(messages) - i
        OBVIOUS
      <4>1. /\ n \in Nat /\ Asked(i) = Len(messages[i].calls) /\ n < Asked(i)
            /\ AnsweredInOrder(i, n) /\ call = messages[i].calls[n + 1]
            /\ Tail(pending) = SubSeq(messages[i].calls, n + 2, Asked(i))
            /\ Tail(pending) = <<>> <=> n + 1 = Asked(i)
        BY <1>1, <3>1, <3>3, <4>0, PendingCall DEF call
      <4>2. /\ AnsweredInOrder(i, n + 1)' /\ Len(messages)' = Len(messages) + 1
            /\ messages'[i] = messages[i] /\ Asked(i)' = Asked(i)
        BY <1>1, <2>1, <3>1, <3>3, <4>0, <4>1, NextAnswer DEF Control
      <4>3. Len(messages') - i = n + 1 /\ Len(messages') - i + 1 = n + 2
        <5>1. i \in 1..Len(messages) /\ Len(messages) \in Nat
          BY <3>1, AssistantMessages DEF Control
        <5>2. Len(messages') = Len(messages) + 1
          BY <4>2
        <5> QED BY <4>0, <5>1, <5>2
      <4>4. Asked(i) \in Nat
        BY <3>1, AssistantMessages DEF Control
      <4>5. CASE Tail(pending) = <<>>
        <5>1. AnsweredInOrder(i, Asked(i))'
          BY <4>1, <4>2, <4>5 DEF AnsweredInOrder
        <5> QED BY <2>1, <4>5, <5>1
      <4>6. CASE Tail(pending) # <<>>
        <5>1. AnsweredInOrder(i, Len(messages) - i)'
          BY <4>2, <4>3 DEF AnsweredInOrder
        <5>2. n + 1 < Asked(i)
          <6>1. n + 1 # Asked(i) /\ n \in Nat /\ n < Asked(i)
            BY <4>1, <4>6
          <6> QED BY <4>4, <6>1
        <5> QED BY <2>1, <3>1, <3>3, <4>1, <4>2, <4>3, <4>6, <5>1, <5>2
      <4> QED BY <4>5, <4>6
    <3> QED BY <3>2, <3>3
  <2>6. Told'
    <3> SUFFICES ASSUME file' \in {"open", "closed"}
                 PROVE  Told'
      BY DEF Told, LinesTellSession
    <3>1. file = "open"
      BY <1>7
    <3>2. /\ Lines("llm_request")' = Lines("llm_request")
          /\ Lines("llm_response")' = Lines("llm_response")
          /\ Lines("tool_call")' = Lines("tool_call") + 1
          /\ Lines("skill_complete")' = Lines("skill_complete")
          /\ Lines("requeue")' = Lines("requeue")
          /\ Lines("llm_request") \in Nat /\ Lines("llm_response") \in Nat
          /\ Lines("skill_complete") \in Nat /\ Lines("requeue") \in Nat
      BY <1>8, <1>10 DEF One
    <3>3. /\ Lines("llm_response") = Cardinality(Positions("assistant"))
          /\ Lines("llm_request") = Lines("llm_response")
          /\ Lines("tool_call") = Len(made)
          /\ Lines("skill_complete") = 0 /\ Lines("requeue") = 0
      BY <1>1, <3>1, <3>2 DEF Told, LinesTellSession, One
    <3>4. /\ Lines("llm_response")' = Cardinality(Positions("assistant"))'
          /\ Lines("llm_request")' = Lines("llm_response")'
          /\ Lines("tool_call")' = Len(made')
          /\ Lines("skill_complete")' = 0 /\ Lines("requeue")' = 0
      <4>1. Cardinality(Positions("assistant"))' = Cardinality(Positions("assistant"))
        BY <2>2
      <4>2. Len(made') = Len(made) + 1
        BY <1>5
      <4> QED BY <3>2, <3>3, <4>1, <4>2
    <3>5. pc' # "chat" /\ outcome' = "running"
      BY <2>1
    <3>6. Lines("llm_response")' \in Nat
      BY <3>2
    <3> QED BY <3>4, <3>5, <3>6 DEF Told, LinesTellSession, One
  <2> QED BY <1>6, <1>7, <2>3, <2>4, <2>5, <2>6
<1> QED BY <1>9, <1>10

LEMMA NextInv == Inv /\ [Next]_vars => Inv'
<1> SUFFICES ASSUME Inv, [Next]_vars
             PROVE  Inv'
  OBVIOUS
<1>1. CASE SendRequest
  BY <1>1, SendRequestInv
<1>2. CASE TurnLimit \/ ChatFails
  BY <1>2, StopInv
<1>3. CASE MakeCall
  BY <1>3, MakeCallInv
<1>4. CASE Close
  BY <1>4, CloseInv
<1>5. ASSUME NEW reason \in DoneReason, NEW calls \in CallLists, Respond(reason, calls)
      PROVE  Inv'
  BY <1>5, RespondInv
<1>6. CASE UNCHANGED vars
  <2> USE <1>6 DEF vars, tvars, Inv
  <2>1. \A x : Lines(x)' = Lines(x)
    BY DEF Lines
  <2>2. Control' /\ SignalEndsSession' /\ Writer'
    BY SameMade DEF Control, SignalEndsSession, Writer
  <2>3. Turns'
    BY SameMessages DEF Turns, One
  <2>4. Told'
    BY <2>1, SameMessages DEF Told, LinesTellSession, One
  <2>5. Conversation'
    BY SameMessages DEF Conversation, AnsweredInOrder, Latest, Asked, Answers, Positions
  <2> QED BY <2>2, <2>3, <2>4, <2>5
<1> QED BY <1>1, <1>2, <1>3, <1>4, <1>5, <1>6 DEF Next

LEMMA Invariance == Spec => []Inv
BY InitInv, NextInv, PTL DEF Spec
-----------------------------------------------------------------------------
(* What follows of the invariant.                                           *)

LEMMA InvTypes == Inv => TypeOK
<1> SUFFICES ASSUME Inv
             PROVE  TypeOK
  OBVIOUS
<1>1. /\ DOMAIN messages = 1..Len(messages) /\ DOMAIN made = 1..Len(made)
      /\ DOMAIN trace = 1..Len(trace)
  BY LenProperties DEF Inv, Control, Writer
<1>2. /\ \A i \in DOMAIN messages : messages[i] \in Message
      /\ \A i \in DOMAIN made : made[i] \in [call: Call, result: Result]
      /\ \A i \in DOMAIN trace : trace[i] \in Phase
  BY <1>1, ElementOfSeq DEF Inv, Control, Writer
<1> QED BY <1>2 DEF TypeOK, Inv, Control, Turns, Writer

LEMMA InvConversation == Inv => ConversationWellFormed
<1> SUFFICES ASSUME Inv, NEW i \in Positions("assistant")
             PROVE  IF pc \in {"request", "chat"} \/ \E k \in Positions("assistant") : k > i
                    THEN AnsweredInOrder(i, Asked(i))
                    ELSE pc = "calls" =>
                           /\ AnsweredInOrder(i, Len(messages) - i)
                           /\ pending = SubSeq(messages[i].calls, Len(messages) - i + 1,
                                               Len(messages[i].calls))
  BY DEF ConversationWellFormed, Asked
<1>1. \A k \in Positions("assistant") : k \in Nat
  BY AssistantMessages DEF Inv, Control
<1>2. Latest(i) <=> ~ \E k \in Positions("assistant") : k > i
  BY <1>1 DEF Latest
<1>3. CASE pc \in {"request", "chat"} \/ ~Latest(i)
  BY <1>2, <1>3 DEF Inv, Conversation
<1>4. CASE pc \notin {"request", "chat"} /\ Latest(i)
  <2> SUFFICES ASSUME pc = "calls"
               PROVE  /\ AnsweredInOrder(i, Len(messages) - i)
                      /\ pending = SubSeq(messages[i].calls, Len(messages) - i + 1,
                                          Len(messages[i].calls))
    BY <1>2, <1>4
  <2> QED BY <1>4, PendingCall DEF Inv, Conversation
<1> QED BY <1>3, <1>4

LEMMA InvTurns == Inv => TurnsAreBounded
<1> SUFFICES ASSUME Inv
             PROVE  TurnsAreBounded
  OBVIOUS
<1>1. turn \in 0..MaxTurns /\ MaxTurns \in Nat
  BY BoundsAssumption DEF Inv, Turns
<1> QED BY <1>1 DEF Inv, Control, Turns, TurnsAreBounded, One

\* Every variable keeps its type, for any turn limit, tools and answers: a stop
\* reason the provider does not know is mapped to one it does.
THEOREM TypeCorrect == Spec => []TypeOK
BY Invariance, InvTypes, PTL

\* The first signal of a tool ends the session (reconcile.go returns from the
\* middle of the calls of one response), and the outcome is that signal.
THEOREM SignalEnds == Spec => []SignalEndsSession
<1>1. Inv => SignalEndsSession
  BY DEF Inv
<1> QED BY <1>1, Invariance, PTL

\* Whatever the model answers, every response is followed by the results of its
\* calls in their order, which is all that ties a result to its call.
THEOREM ConversationIsWellFormed == Spec => []ConversationWellFormed
BY Invariance, InvConversation, PTL

\* reconcile asks the model at most MaxTurns times, and reports that it ran out of
\* turns only after MaxTurns answers.
THEOREM TurnsBounded == Spec => []TurnsAreBounded
BY Invariance, InvTurns, PTL

\* A trace whose writer never failed has a line for each request, response and
\* call of the session, its closing line names the signal that ended it, and
\* Close leaves nothing of it in the buffer of a file it closed.
THEOREM TraceTells == Spec => []TraceTellsSession
<1>1. Inv => TraceTellsSession
  BY DEF Inv, Told, Writer, TraceTellsSession
<1> QED BY <1>1, Invariance, PTL
=============================================================================
