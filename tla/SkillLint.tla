------------------------------ MODULE SkillLint -----------------------------
(***************************************************************************)
(* The lint of module SkillDoc against its rules as they are meant.  An     *)
(* author writes the body of a skill line by line; in every state the body  *)
(* is one that a load may find, finished or not, and what the rules say of  *)
(* it is compared with what a reader says who looks at each line or word    *)
(* and around it, where the code goes through the body from the top down.   *)
(***************************************************************************)
EXTENDS SkillDoc

CONSTANTS Line,      \* the lines authors write
          Allowed,   \* allowedTools, the tools the skill may call
          MaxLines   \* bound on the body

Token == [is: {"tick", "field"}] \cup [is: {"call", "mention"}, tool: STRING]

ASSUME LineAssumption  == \A l \in Line : /\ l.words \in Seq(Token)
                                          /\ l.capital \in BOOLEAN
                                          /\ l.check \in BOOLEAN
ASSUME BoundAssumption == MaxLines \in Nat

VARIABLE body

TypeOK == body \in Seq(Line)

Init == body = <<>>

WriteLine(l) == /\ Len(body) < MaxLines
                /\ body' = Append(body, l)

Next == \E l \in Line : WriteLine(l)

Spec == Init /\ [][Next]_body
-----------------------------------------------------------------------------
(* What a reader takes for the procedure, of a body that has one.            *)

HasOneProcedure(b) == \E p \in DOMAIN b : \A i \in DOMAIN b : b[i].kind = "procedure" <=> i = p

\* A line is under "# Procedure" if that is the nearest level-1 heading above it.
Under(b) == {i \in DOMAIN b : \E p \in 1..(i - 1) :
                /\ b[p].kind = "procedure"
                /\ \A j \in (p + 1)..i : b[j].kind \notin Level1}

\* The line behind the heading is read without its indentation.
Margin(b, i) == IF b[i - 1].kind = "procedure" THEN 0 ELSE b[i].indent

StepsOf(b) == {i \in Under(b) : b[i].kind = "step" /\ Margin(b, i) = 0}

\* Line j is in the first step, or above it.
ByFirstStep(b, j) == \A i \in StepsOf(b) : i <= j => \A k \in StepsOf(b) : i <= k

\* "Step 1 is a stability check", every step starts with a verb, there are at
\* most MaxSteps of them, and "nesting <= 1 level": in every body with one
\* procedure the rules L1, L2, L4 and L5 find what a reader finds who judges
\* each line by the headings and the steps above it.
LintReadsProcedure ==
    HasOneProcedure(body) =>
        /\ lintL1(body) <=> \/ StepsOf(body) = {}
                            \/ \E j \in Under(body) : /\ body[j].check
                                                      /\ ByFirstStep(body, j)
                                                      /\ \E i \in StepsOf(body) : i <= j
        /\ lintL2(body) <=> \A i \in StepsOf(body) : body[i].capital
        /\ lintL4(body) <=> Cardinality(StepsOf(body)) <= MaxSteps
        /\ lintL5(body) <=> \A i \in Under(body) : body[i].kind = "item" => Margin(body, i) < 5

\* A save in place shows a load the beginnings of a body. Those of a body that
\* passes L2, L4 and L5 pass them, too: what an author writes further down never
\* mends a step further up.
BeginningsPass == [][/\ lintL2(body') => lintL2(body)
                     /\ lintL4(body') => lintL4(body)
                     /\ lintL5(body') => lintL5(body)]_body
-----------------------------------------------------------------------------
(* What a reader takes for quoted, in text without two backticks in a row.   *)

IsTick(t)          == t.is = "tick"
Ticks(w, from, to) == {i \in from..to : IsTick(w[i])}

NoEmptyQuotes(w) == \A i \in 1..(Len(w) - 1) : ~IsTick(w[i]) \/ ~IsTick(w[i + 1])

\* Words with an odd number of backticks before them and one behind them.
InQuotes(w) == {i \in DOMAIN w : /\ ~IsTick(w[i])
                                 /\ Cardinality(Ticks(w, 1, i)) % 2 = 1
                                 /\ Ticks(w, i, Len(w)) # {}}

\* The word behind the nearest backtick above word i.
Opening(w, i) == w[1 + Max(Ticks(w, 1, i))]

\* "Tool references are in backticks" and "only allowed tools are called": the
\* rules L3 and L6 take a word for quoted if a reader does who counts the
\* backticks around it, however the text is broken into lines.
LintReadsBackticks ==
    LET w == Words(body) IN
    NoEmptyQuotes(w) =>
        /\ lintL3(body, Allowed) <=>
              \A i \in DOMAIN w \ InQuotes(w) :
                  w[i].is \in {"call", "mention"} => w[i].tool \notin Allowed
        /\ lintL6(body, Allowed) <=>
              \A i \in InQuotes(w) : w[i].is = "call" =>
                  \/ Opening(w, i).is = "field"
                  \/ Opening(w, i).is = "call" /\ Opening(w, i).tool \in Allowed
=============================================================================
