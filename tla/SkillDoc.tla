------------------------------ MODULE SkillDoc ------------------------------
(***************************************************************************)
(* A SKILL.md document: how Parse takes it apart and what Lint says of it.  *)
(*                                                                         *)
(* A document is a sequence of lines, records with a field kind:            *)
(*   "delimiter"             "---"                                          *)
(*   "dashes"                a longer line that starts with "---", with the *)
(*                           field rest, the line that is left without it   *)
(*   "name", "tools"         frontmatter, with the fields name and tools    *)
(*   "procedure"             the heading "# Procedure"                      *)
(*   "section", "subsection" another level-1 heading; one of a lower level  *)
(*   "step", "item", "text"  "1. ", "- ", and any other text                *)
(* The lines of a body also have words, the tokens of their text; contains, *)
(* which of the headings L7 asks for the line has in it; indent, the spaces *)
(* before it; and whether it starts with a capital and has one of L1's      *)
(* keywords. A token is a backtick ("tick"), a tool's name followed by "("  *)
(* or not ("call", "mention"), or a field path ("field").                   *)
(* Frontmatter keys that no rule reads are left out, and so are blank       *)
(* lines: no rule sees those of a body, and of the documents with one right *)
(* behind the opening line none is modelled.                                *)
(***************************************************************************)
EXTENDS Integers, Sequences, FiniteSets, FiniteSetsExt

SE == INSTANCE SequencesExt

CONSTANT MaxSteps  \* 8, the most steps L4 allows

ASSUME StepsAssumption == MaxSteps \in Nat

Level1  == {"procedure", "section"}
Heading == Level1 \cup {"subsection"}
-----------------------------------------------------------------------------
(* Parse.                                                                   *)

\* The line that closes the frontmatter, or 0: it starts with "---" and does
\* not follow the opening line at once.
Closing(doc) ==
    LET fences == {i \in 3..Len(doc) : doc[i].kind \in {"delimiter", "dashes"}} IN
    IF fences = {} THEN 0 ELSE Min(fences)

Frontmatter(doc) == {doc[i] : i \in 2..(Closing(doc) - 1)}

\* The body begins right behind the "---", in the same line if that is longer.
Body(doc) ==
    LET c == Closing(doc) IN
    (IF doc[c].kind = "dashes" THEN <<doc[c].rest>> ELSE <<>>) \o SubSeq(doc, c + 1, Len(doc))

\* To YAML a heading is a comment, prose is no mapping, a key may not repeat, and
\* a "---" right behind the opening one starts the same document again.
IsYAML(doc) ==
    LET Lines(k) == {i \in 2..(Closing(doc) - 1) : doc[i].kind = k} IN
    /\ \A l \in Frontmatter(doc) :
          l.kind \in {"name", "tools", "delimiter"} \cup Heading
    /\ \A k \in {"name", "tools"} : Cardinality(Lines(k)) <= 1

Parses(doc) == /\ doc # <<>>
               /\ doc[1].kind = "delimiter"
               /\ Closing(doc) # 0
               /\ IsYAML(doc)

Names(doc)        == {l.name : l \in {f \in Frontmatter(doc) : f.kind = "name"}}
AllowedTools(doc) == UNION {l.tools : l \in {f \in Frontmatter(doc) : f.kind = "tools"}}
-----------------------------------------------------------------------------
(* The numbered steps of the procedure. Lines are known by their numbers.    *)

IsProcedure(l)  == l.kind = "procedure"
EndsSection(l)  == l.kind \in Level1 \ {"procedure"}
Procedures(b)   == {i \in DOMAIN b : IsProcedure(b[i])}

\* A faulty variant: the section runs to the end of the body.
extractToEnd(b) ==
    {i \in DOMAIN b : ~IsProcedure(b[i]) /\ \E p \in Procedures(b) : p < i}

\* The line at which the section that starts in line p stops.
StopOf(b, p) == Min({i \in (p + 1)..Len(b) : EndsSection(b[i])} \cup {Len(b) + 1})

\* A faulty variant: the section of the last "# Procedure".
extractLast(b) ==
    IF Procedures(b) = {} THEN {}
    ELSE LET last == Max(Procedures(b)) IN (last + 1)..(StopOf(b, last) - 1)

\* The lines under the first "# Procedure", to the next level-1 heading of
\* another text.
extractSection(b) ==
    IF Procedures(b) = {} THEN {}
    ELSE LET first == Min(Procedures(b)) IN
         {i \in (first + 1)..(StopOf(b, first) - 1) : ~IsProcedure(b[i])}

\* Trimming the section takes its first line's indentation.
Indent(b, i) == IF \A k \in extractSection(b) : i <= k THEN 0 ELSE b[i].indent

\* Lines of the section that start a step, and the lines of the step's block.
StepLines(b) == {i \in extractSection(b) : b[i].kind = "step" /\ Indent(b, i) = 0}

Block(b, i) == {j \in extractSection(b) :
                  i <= j /\ \A k \in StepLines(b) : k <= i \/ j < k}
-----------------------------------------------------------------------------
(* The rules that read the procedure.                                       *)

lintL1(b) == \A i \in StepLines(b) :
                (\A k \in StepLines(b) : i <= k) => \E j \in Block(b, i) : b[j].check

lintL2(b) == \A i \in StepLines(b) : b[i].capital

lintL4(b) == Cardinality(StepLines(b)) <= MaxSteps

lintL5(b) == \A i \in extractSection(b) : b[i].kind = "item" => Indent(b, i) < 5

\* Any line will do, heading or not, that has the text somewhere in it.
lintL7(b) == \A h \in {"what", "procedure"} : \E i \in DOMAIN b : h \in b[i].contains
-----------------------------------------------------------------------------
(* The rules about tools: what backtickRE finds in the whole body.          *)

Words(b) == SE!FlattenSeq([i \in DOMAIN b |-> b[i].words])

\* The backtick that opens the span token i is in, or 0. A span has a token or
\* more, so a backtick right behind the opening one opens the span in its place.
Opener(w) ==
    LET o[i \in 0..Len(w)] ==
          IF i = 0 THEN 0
          ELSE IF w[i].is # "tick" THEN o[i - 1]
          ELSE IF o[i - 1] \in {0, i - 1} THEN i ELSE 0
    IN  o

\* A faulty variant: every word behind a backtick is quoted, closed or not.
SpansUnclosed(w) == LET o == Opener(w) IN
                    {<<o[i], i>> : i \in {k \in DOMAIN w : o[k] \notin {0, k}}}

\* The quoted spans, as pairs of backticks; the last may be left open.
Spans(w) == LET o == Opener(w) IN
            {<<o[i - 1], i>> : i \in {k \in DOMAIN w : w[k].is = "tick" /\ o[k] = 0}}

Quoted(w) == UNION {s[1]..s[2] : s \in Spans(w)}

lintL3(b, tools) == LET w == Words(b) IN
    \A i \in DOMAIN w \ Quoted(w) : w[i].is \in {"call", "mention"} => w[i].tool \notin tools

\* A span with a "(" has to be one allowed tool's call, unless it is a field path.
lintL6(b, tools) == LET w == Words(b) IN
    \A s \in Spans(w) :
        LET first == w[s[1] + 1] IN
        (\E k \in s[1]..s[2] : w[k].is = "call") =>
            first.is = "field" \/ (first.is = "call" /\ first.tool \in tools)

\* A faulty variant: a skill may have any name.
lintNoL8(doc, dir) == Names(doc) # {}

lintL8(doc, dir) == Names(doc) = {dir}

\* Lint finds nothing to say of a document in the directory dir.
Lint(doc, dir) ==
    LET b == Body(doc)  tools == AllowedTools(doc) IN
    /\ lintL7(b) /\ lintL1(b) /\ lintL2(b) /\ lintL3(b, tools) /\ lintL6(b, tools)
    /\ lintL4(b) /\ lintL5(b) /\ lintL8(doc, dir)
=============================================================================
