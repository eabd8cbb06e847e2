------------------------------ MODULE Session -------------------------------
(***************************************************************************)
(* One reconcile session: the conversation with the model, the tool calls  *)
(* it asks for, and the trace of both.  A turn is one request to the       *)
(* model; its response may ask for tool calls, which are made one after    *)
(* the other until one of them ends the session.                           *)
(***************************************************************************)
EXTENDS Naturals, SequencesExt

CONSTANTS MaxTurns,    \* the turn limit, defaultMaxTurns
          Name,        \* tool names the model may ask for
          Registered,  \* names in the tool registry
          DoneReason,  \* done_reason strings of the model's server
          MaxCalls     \* bound on the tool calls of one response

ASSUME BoundsAssumption == MaxTurns \in Nat /\ MaxCalls \in Nat
ASSUME NamesAssumption  == {"done", "requeueAfter"} \subseteq Registered

\* Arguments that do not decode into the tool's parameters are bad.
Call      == [name: Name, args: {"good", "bad"}]
CallLists == BoundedSeq(Call, MaxCalls)

StopReason == {"tool_use", "max_tokens", "error", "stop"}

VARIABLES pc,        \* "request", "chat", "calls" or "ended"
          turn,      \* turns completed
          messages,  \* the conversation sent to the model
          pending,   \* calls of the last response not made yet
          made,      \* history: the calls made, with their results
          file,      \* the trace file
          trace,     \* phases of the lines the trace's writer took
          buffered,  \* some of them are not on disk but in its buffer
          outcome    \* what reconcile returns

tvars == <<file, trace, buffered>>
vars  == <<pc, turn, messages, pending, made, tvars, outcome>>

User            == [role |-> "user"]
Assistant(r, c) == [role |-> "assistant", stop |-> r, calls |-> c]
ToolMessage(c)  == [role |-> "tool", name |-> c.name]

Message == {User} \cup {Assistant(r, c) : r \in StopReason, c \in CallLists}
                  \cup {ToolMessage(c) : c \in Call}

Phase   == {"skill_start", "llm_request", "llm_response", "tool_call",
            "skill_complete", "requeue"}
Outcome == {"running", "done", "requeue", "exhausted", "failed"}
Result  == {"ok", "error", "done", "requeue"}

TypeOK == /\ pc \in {"request", "chat", "calls", "ended"}
          /\ turn \in 0..MaxTurns
          /\ \A i \in DOMAIN messages : messages[i] \in Message
          /\ pending \in CallLists
          /\ \A i \in DOMAIN made : made[i] \in [call: Call, result: Result]
          /\ file \in {"none", "open", "broken", "closed", "leaked"}
          /\ \A i \in DOMAIN trace : trace[i] \in Phase
          /\ buffered \in BOOLEAN
          /\ outcome \in Outcome

\* The writer of an open file takes the lines; they reach the disk now or later.
\* When the disk fails it, a line is lost, and so is whatever is written after it.
Traced(lines) ==
    \/ /\ file = "open"
       /\ trace' = trace \o lines
       /\ buffered' \in BOOLEAN
       /\ UNCHANGED file
    \/ /\ file = "open"
       /\ file' = "broken"
       /\ \E n \in 0..(Len(lines) - 1) : trace' = trace \o SubSeq(lines, 1, n)
       /\ buffered' = TRUE
    \/ /\ file # "open"
       /\ UNCHANGED tvars

Init == /\ pc = "request"
        /\ turn = 0
        /\ messages = <<User>>
        /\ pending = <<>>
        /\ made = <<>>
        /\ file \in {"none", "open"}
        /\ trace = IF file = "open" THEN <<"skill_start">> ELSE <<>>
        /\ buffered = (file = "open")
        /\ outcome = "running"
-----------------------------------------------------------------------------
(* Faulty variants of the steps further down, which the properties must tell *)
(* from the code's: a stop reason passed on as it came, a turn too many, a    *)
(* turn limit that is never met, signals without the line of their call, a    *)
(* session that goes on after a signal, an answer that the model is not told, *)
(* a file that is closed without its buffer.                                 *)

passStopReason(reason) == reason

SendRequestAgain == /\ pc = "request"
                    /\ turn <= MaxTurns
                    /\ pc' = "chat"
                    /\ Traced(<<"llm_request">>)
                    /\ UNCHANGED <<turn, messages, pending, made, outcome>>

TurnLimitMissed == /\ pc = "request"
                   /\ turn > MaxTurns
                   /\ pc' = "ended"
                   /\ outcome' = "exhausted"
                   /\ UNCHANGED <<turn, messages, pending, made, tvars>>

CallLinesShort(result) == CASE result = "done"    -> <<"skill_complete">>
                            [] result = "requeue" -> <<"requeue">>
                            [] OTHER              -> <<"tool_call">>

TerminateLater(result) ==
    /\ pc' = IF Tail(pending) = <<>> THEN "ended" ELSE "calls"
    /\ outcome' = IF Tail(pending) = <<>> THEN result ELSE outcome
    /\ pending' = Tail(pending)
    /\ UNCHANGED <<turn, messages>>

ContinueSilently(call) ==
    /\ pending' = Tail(pending)
    /\ IF Tail(pending) = <<>> THEN pc' = "request" /\ turn' = turn + 1
                               ELSE UNCHANGED <<pc, turn>>
    /\ UNCHANGED <<messages, outcome>>
-----------------------------------------------------------------------------
(* The model's server and the provider that talks to it.                    *)

mapStopReason(reason) == CASE reason = "tool_calls" -> "tool_use"
                           [] reason = "length"     -> "max_tokens"
                           [] reason = "error"      -> "error"
                           [] OTHER                 -> "stop"

\* The registry has a handler of that name.
Known(name) == name \in Registered

\* What calling a tool can give: an unknown name and bad arguments are errors,
\* the two control tools give their signals, any other works or fails.
CallResult(c) ==
    IF ~Known(c.name) \/ c.args = "bad" THEN {"error"}
    ELSE CASE c.name = "done"         -> {"done"}
           [] c.name = "requeueAfter" -> {"requeue"}
           [] OTHER                   -> {"ok", "error"}
-----------------------------------------------------------------------------
\* The loop's head: another turn, or the turn limit.
SendRequest == /\ pc = "request"
               /\ turn < MaxTurns
               /\ pc' = "chat"
               /\ Traced(<<"llm_request">>)
               /\ UNCHANGED <<turn, messages, pending, made, outcome>>

\* The turn limit: reconcile returns no signal and no error.
TurnLimit == /\ pc = "request"
             /\ turn = MaxTurns
             /\ pc' = "ended"
             /\ outcome' = "exhausted"
             /\ UNCHANGED <<turn, messages, pending, made, tvars>>

ChatFails == /\ pc = "chat"
             /\ pc' = "ended"
             /\ outcome' = "failed"
             /\ UNCHANGED <<turn, messages, pending, made, tvars>>

\* The model answers. The turn goes on to the calls only if the stop reason
\* says so; otherwise it is over, whatever calls the answer has.
Proceeds(stop, calls) == stop = "tool_use" /\ calls # <<>>

Respond(reason, calls) ==
    LET stop == mapStopReason(reason) IN
    /\ pc = "chat"
    /\ messages' = Append(messages, Assistant(stop, calls))
    /\ Traced(<<"llm_response">>)
    /\ IF Proceeds(stop, calls)
       THEN pc' = "calls" /\ pending' = calls /\ UNCHANGED turn
       ELSE pc' = "request" /\ turn' = turn + 1 /\ UNCHANGED pending
    /\ UNCHANGED <<made, outcome>>

\* The lines a call leaves in the trace.
CallLines(result) == CASE result = "done"    -> <<"tool_call", "skill_complete">>
                       [] result = "requeue" -> <<"tool_call", "requeue">>
                       [] OTHER              -> <<"tool_call">>

\* The next call of the response gives a signal: the session ends, and the
\* calls behind it are not made.
Terminate(result) ==
    /\ pc' = "ended"
    /\ outcome' = result
    /\ pending' = <<>>
    /\ UNCHANGED <<turn, messages>>

\* Its result or error is told to the model; after the last call the turn ends.
Continue(call) ==
    /\ messages' = Append(messages, ToolMessage(call))
    /\ pending' = Tail(pending)
    /\ IF Tail(pending) = <<>> THEN pc' = "request" /\ turn' = turn + 1
                               ELSE UNCHANGED <<pc, turn>>
    /\ UNCHANGED outcome

MakeCall ==
    /\ pc = "calls"
    /\ \E result \in CallResult(Head(pending)) :
          /\ made' = Append(made, [call |-> Head(pending), result |-> result])
          /\ Traced(CallLines(result))
          /\ IF result \in {"done", "requeue"} THEN Terminate(result)
                                               ELSE Continue(Head(pending))

\* The deferred Close, once the session has ended. A file whose buffer cannot be
\* written is not closed.
Close == /\ pc = "ended"
         /\ \/ /\ file = "open"
               /\ file' = "closed"
               /\ buffered' = FALSE
            \/ /\ file \in {"open", "broken"}
               /\ file' = "leaked"
               /\ UNCHANGED buffered
         /\ UNCHANGED <<pc, turn, messages, pending, made, trace, outcome>>

Next == \/ SendRequest \/ TurnLimit \/ ChatFails \/ MakeCall \/ Close
        \/ \E reason \in DoneReason, calls \in CallLists : Respond(reason, calls)

\* Every request is answered or times out, and every tool call returns.
Spec == Init /\ [][Next]_vars /\ WF_vars(Next)
-----------------------------------------------------------------------------
(* What a session promises.                                                  *)

Positions(role) == {i \in DOMAIN messages : messages[i].role = role}

\* The tool messages between message i and the next one of the model.
Answers(i) == {j \in Positions("tool") :
                  j > i /\ \A k \in Positions("assistant") : ~(i < k /\ k < j)}

\* The answers to message i stand right behind it, in the order of its calls.
\* Ollama's tool calls have no id, so the order is all the model has to tell
\* which result belongs to which call.
AnsweredInOrder(i, n) ==
    /\ Answers(i) = (i + 1)..(i + n)
    /\ \A j \in 1..n : messages[i + j] = ToolMessage(messages[i].calls[j])

\* Whenever the model is asked, each response that went on to its calls has one
\* answer for each of them, in order; meanwhile the unanswered calls of the
\* last response are the pending ones; and no other response has answers.
ConversationWellFormed ==
    \A i \in Positions("assistant") :
        LET m == messages[i]
            n == IF Proceeds(m.stop, m.calls) THEN Len(m.calls) ELSE 0
            answered == Len(messages) - i
        IN  IF pc \in {"request", "chat"} \/ \E k \in Positions("assistant") : k > i
            THEN AnsweredInOrder(i, n)
            ELSE pc = "calls" => /\ AnsweredInOrder(i, answered)
                                 /\ pending = SubSeq(m.calls, answered + 1, Len(m.calls))

Signals == {i \in DOMAIN made : made[i].result \in {"done", "requeue"}}

\* The first call that signals is the last one made, also among the calls of
\* one response, and the session's outcome is that signal; without one the
\* outcome is the turn limit or an error.
SignalEndsSession ==
    /\ Signals \subseteq {Len(made)}
    /\ Signals # {} <=> outcome \in {"done", "requeue"}
    /\ Signals # {} => outcome = made[Len(made)].result

Count(s, e) == Cardinality({i \in DOMAIN s : s[i] = e})

Lines(phase) == Count(trace, phase)

One(condition) == IF condition THEN 1 ELSE 0

LinesTellSession ==
    /\ Lines("llm_response") = Cardinality(Positions("assistant"))
    /\ Lines("llm_request") = Lines("llm_response") + One(pc = "chat" \/ outcome = "failed")
    /\ Lines("tool_call") = Len(made)
    /\ Lines("skill_complete") = One(outcome = "done")
    /\ Lines("requeue") = One(outcome = "requeue")

\* A trace that could be written tells the session as it happened: each request,
\* response and call has its line, the closing line names the signal (a session
\* that fails or runs out of turns has none), and once closed it is on disk.
TraceTellsSession == /\ file \in {"open", "closed"} => LinesTellSession
                     /\ file = "closed" => ~buffered

\* A session that runs out of turns has asked the model MaxTurns times, and no
\* session asks more often.
TurnsAreBounded ==
    /\ Cardinality(Positions("assistant")) <= MaxTurns
    /\ outcome = "exhausted" => Cardinality(Positions("assistant")) = MaxTurns

\* A session ends, however the model answers, and it is done with its trace.
SessionEnds == <>(pc = "ended" /\ file \notin {"open", "broken"})
-----------------------------------------------------------------------------
\* "For each tool_call in response: ... execute the tool, append a tool message
\* with the result (or error)": when a turn is over, every call the model asked
\* for in it was answered.
EveryToolCallAnswered ==
    pc = "request" => \A i \in Positions("assistant") :
                         Cardinality(Answers(i)) = Len(messages[i].calls)
=============================================================================
