--------------------------- MODULE MCSkillReload ----------------------------
(* Model checking of hot reload: two skill directories, four documents, and  *)
(* edits enough to fall before, into and behind a load.                     *)
EXTENDS SkillReloadHistory

Fence        == [kind |-> "delimiter"]
Name(n)      == [kind |-> "name", name |-> n]
Tools(T)     == [kind |-> "tools", tools |-> T]
Tick         == [is |-> "tick"]
Call(t)      == [is |-> "call", tool |-> t]
Line(k, w)   == [kind |-> k, words |-> w, contains |-> {}, indent |-> 0, capital |-> TRUE,
                 check |-> FALSE]
Checking(l)  == [l EXCEPT !.check = TRUE]
With(l, h)   == [l EXCEPT !.contains = {h}]

What      == With(Line("section", <<>>), "what")
Procedure == With(Line("procedure", <<>>), "procedure")
GetPod    == Line("step", <<Tick, Call("get"), Tick>>)
PatchPod  == Line("step", <<Tick, Call("patch"), Tick>>)

Steps       == <<What, Procedure, Checking(GetPod)>>
Skill(n, T) == <<Fence, Name(n), Tools(T), Fence>> \o Steps

\* As Load accepts it, too: a second opening line, and prose behind the closing one.
Loose(n, T) == <<Fence, Fence, Name(n), Tools(T), [kind |-> "dashes", rest |-> Line("text", <<>>)]>>
                   \o Steps

\* A skill of directory 1, its half without the second step (which is a skill,
\* too), a skill of directory 2, and half a frontmatter.
MCText == [whole |-> Append(Skill(1, {"get", "patch"}), PatchPod),
           cut   |-> Skill(1, {"get", "patch"}),
           other |-> Loose(2, {"get"}),
           half  |-> <<Fence, Name(1)>>]
=============================================================================
