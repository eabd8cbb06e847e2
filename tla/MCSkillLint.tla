---------------------------- MODULE MCSkillLint -----------------------------
(* Model checking of the lint: eight lines, which the rules of the procedure *)
(* tell apart by their form and the rules of the tools by their words.       *)
EXTENDS SkillLint

Text(k, w)     == [kind |-> k, words |-> w, contains |-> {k} \cap {"procedure"},
                   indent |-> 0, capital |-> TRUE, check |-> FALSE]
Checking(l)    == [l EXCEPT !.check = TRUE]
Lowercase(l)   == [l EXCEPT !.capital = FALSE]
Indented(l, n) == [l EXCEPT !.indent = n]

Tick    == [is |-> "tick"]
Field   == [is |-> "field"]
Call(t) == [is |-> "call", tool |-> t]
Named   == [is |-> "mention", tool |-> "patch"]

MCLine == {Text("procedure", <<>>),
           Text("section", <<Field>>),
           Text("subsection", <<Tick>>),
           Checking(Text("step", <<Tick>>)),
           Lowercase(Text("step", <<Call("get")>>)),
           Indented(Text("step", <<Call("patch"), Tick>>), 3),
           Checking(Indented(Text("item", <<Named>>), 3)),
           Indented(Text("item", <<Tick, Field>>), 5)}
=============================================================================
