--------------------------- MODULE SkillLintProofs --------------------------
(***************************************************************************)
(* The lint reads every body as its rules mean it: LintReadsProcedure,      *)
(* LintReadsBackticks and BeginningsPass hold of bodies of any length.      *)
(* The induction over lines and words is by least counterexample: a         *)
(* nonempty set of numbers has a least element.                             *)
(***************************************************************************)
EXTENDS SkillLint, SequenceTheorems, FiniteSetTheorems, WellFoundedInduction, TLAPS

-----------------------------------------------------------------------------
(* Natural numbers.                                                          *)

\* Every set of numbers that is not empty has a least one.
LEMMA LeastNat ==
    ASSUME NEW T, T \subseteq Nat, T # {}
    PROVE  \E x \in T : \A y \in T : x <= y
<1> DEFINE R == OpToRel(<, Nat)
<1>1. IsWellFoundedOn(R, Nat)
  BY NatLessThanWellFounded
<1>2. \A x, y \in Nat : y < x => <<y, x>> \in R
  BY DEF R, OpToRel
<1> HIDE DEF R
<1>3. PICK x \in T : \A y \in T : <<y, x>> \notin R
  BY <1>1, WFMin
<1>4. \A y \in T : ~(y < x) /\ x \in Nat /\ y \in Nat
  BY <1>2, <1>3
<1> QED BY <1>4

\* Min finds it.
LEMMA MinOf ==
    ASSUME NEW T, T \subseteq Nat, T # {}
    PROVE  Min(T) \in T /\ \A y \in T : Min(T) <= y
BY LeastNat DEF Min

\* Induction up to n, for a set of numbers in place of a predicate.
LEMMA InductionTo ==
    ASSUME NEW n \in Nat, NEW T, 0 \in T,
           \A i \in 1..n : i - 1 \in T => i \in T
    PROVE  \A i \in 0..n : i \in T
<1> DEFINE Missing == (0..n) \ T
<1> SUFFICES ASSUME Missing # {} PROVE FALSE
  OBVIOUS
<1>1. PICK i \in Missing : \A j \in Missing : i <= j
  <2>1. Missing \subseteq Nat
    OBVIOUS
  <2> HIDE DEF Missing
  <2> QED BY <2>1, LeastNat
<1>2. i \in 1..n /\ i - 1 \in 0..n /\ i - 1 < i
  BY <1>1
<1>3. i - 1 \in T
  BY <1>1, <1>2
<1> QED BY <1>1, <1>2, <1>3

\* f starts with base, and step[i] takes its value at i - 1 to the one at i.
Follows(f, n, base, step) == /\ f[0] = base
                             /\ \A i \in 1..n : f[i] = step[i][f[i - 1]]

\* A function defined by recursion exists: any base and any steps have one.
LEMMA Recursion ==
    ASSUME NEW n \in Nat, NEW S, NEW base \in S, NEW step \in [1..n -> [S -> S]]
    PROVE  \E f \in [0..n -> S] : Follows(f, n, base, step)
<1> DEFINE Good(m) == {f \in [0..m -> S] : /\ f[0] = base
                                           /\ \A i \in 1..m : f[i] = step[i][f[i - 1]]}
           T == {m \in 0..n : Good(m) # {}}
<1>1. 0 \in T
  <2>1. [i \in 0..0 |-> base] \in Good(0)
    OBVIOUS
  <2> QED BY <2>1
<1>2. ASSUME NEW m \in 1..n, m - 1 \in T PROVE m \in T
  <2>1. PICK f \in [0..(m - 1) -> S] : /\ f[0] = base
                                       /\ \A i \in 1..(m - 1) : f[i] = step[i][f[i - 1]]
    BY <1>2
  <2> DEFINE g == [i \in 0..m |-> IF i = m THEN step[m][f[m - 1]] ELSE f[i]]
  <2>2. f[m - 1] \in S /\ step[m][f[m - 1]] \in S
    BY <2>1
  <2>3. g \in [0..m -> S]
    BY <2>1, <2>2
  <2>4. \A i \in 1..m : g[i] = step[i][g[i - 1]]
    <3> TAKE i \in 1..m
    <3>1. i - 1 \in 0..m /\ i - 1 # m /\ g[i - 1] = f[i - 1]
      OBVIOUS
    <3>2. CASE i = m
      BY <3>1, <3>2
    <3>3. CASE i # m
      BY <3>1, <3>3, <2>1
    <3> QED BY <3>2, <3>3
  <2>5. g[0] = base
    BY <2>1
  <2> HIDE DEF g
  <2>6. g \in Good(m)
    BY <2>3, <2>4, <2>5
  <2>7. m \in 0..n /\ Good(m) # {}
    <3> HIDE DEF Good
    <3> QED BY <2>6
  <2> QED BY <2>7
<1>3. n \in T
  <2> HIDE DEF T
  <2>1. \A i \in 1..n : i - 1 \in T => i \in T
    BY <1>2
  <2>2. \A i \in 0..n : i \in T
    BY <1>1, <2>1, InductionTo
  <2> QED BY <2>2
<1> QED BY <1>3 DEF Follows
-----------------------------------------------------------------------------
(* The procedure.                                                            *)

\* The lines of a body, as the provers need them.
LEMMA BodyType ==
    ASSUME NEW b \in Seq(Line)
    PROVE  /\ Len(b) \in Nat /\ DOMAIN b = 1..Len(b)
           /\ \A i \in 1..Len(b) : b[i] \in Line
BY LenProperties, ElementOfSeq

\* A line is before the stop of a section if no heading up to it ends it.
LEMMA BeforeStop ==
    ASSUME NEW b \in Seq(Line), NEW p \in DOMAIN b
    PROVE  \A i : i \in (p + 1)..(StopOf(b, p) - 1) <=>
                    /\ i \in (p + 1)..Len(b)
                    /\ \A j \in (p + 1)..i : ~EndsSection(b[j])
<1> DEFINE T == {i \in (p + 1)..Len(b) : EndsSection(b[i])} \cup {Len(b) + 1}
           s == StopOf(b, p)
<1>1. Len(b) \in Nat /\ p \in 1..Len(b)
  BY BodyType
<1>2. s \in T /\ \A y \in T : s <= y
  <2>1. T \subseteq Nat /\ T # {}
    BY <1>1
  <2>2. s = Min(T)
    BY DEF StopOf
  <2> HIDE DEF T, s
  <2> QED BY <2>1, <2>2, MinOf
<1>3. s \in (p + 1)..(Len(b) + 1)
  BY <1>1, <1>2
<1>4. ASSUME NEW j \in (p + 1)..Len(b), EndsSection(b[j]) PROVE s <= j
  BY <1>2, <1>4
<1>5. s # Len(b) + 1 => s \in (p + 1)..Len(b) /\ EndsSection(b[s])
  BY <1>1, <1>2
<1> HIDE DEF T, s
<1>6. \A i : i \in (p + 1)..(s - 1) <=> /\ i \in (p + 1)..Len(b)
                                        /\ \A j \in (p + 1)..i : ~EndsSection(b[j])
  <2> TAKE i
  <2>1. ASSUME i \in (p + 1)..(s - 1)
        PROVE  i \in (p + 1)..Len(b) /\ \A j \in (p + 1)..i : ~EndsSection(b[j])
    BY <1>1, <1>3, <1>4, <2>1
  <2>2. ASSUME i \in (p + 1)..Len(b), \A j \in (p + 1)..i : ~EndsSection(b[j])
        PROVE  i \in (p + 1)..(s - 1)
    <3>1. CASE s = Len(b) + 1
      BY <1>1, <2>2, <3>1
    <3>2. CASE s # Len(b) + 1 /\ s <= i
      BY <1>1, <1>5, <2>2, <3>2
    <3> QED BY <1>1, <1>3, <2>2, <3>1, <3>2
  <2> QED BY <2>1, <2>2
<1> QED BY <1>6 DEF s

\* A body with one procedure: the section is what is under its heading.
LEMMA OneProcedure ==
    ASSUME NEW b \in Seq(Line), NEW p \in DOMAIN b,
           \A i \in DOMAIN b : b[i].kind = "procedure" <=> i = p
    PROVE  /\ extractSection(b) = Under(b)
           /\ \A i \in Under(b) : Indent(b, i) = Margin(b, i)
<1>1. Len(b) \in Nat /\ DOMAIN b = 1..Len(b) /\ p \in 1..Len(b)
  BY BodyType
<1>2. Procedures(b) = {p} /\ Min(Procedures(b)) = p
  <2>1. Procedures(b) = {p}
    BY DEF Procedures, IsProcedure
  <2>2. {p} \subseteq Nat /\ {p} # {}
    BY <1>1
  <2>3. Min({p}) \in {p}
    BY <2>2, MinOf
  <2> QED BY <2>1, <2>3
<1>3. \A i : i \in extractSection(b) <=> i \in (p + 1)..(StopOf(b, p) - 1) /\ ~IsProcedure(b[i])
  BY <1>2 DEF extractSection
<1>4. \A j \in (p + 1)..Len(b) : b[j].kind # "procedure"
  BY <1>1
<1>5. \A i : i \in extractSection(b) <=> i \in (p + 1)..(StopOf(b, p) - 1)
  <2>1. \A i \in (p + 1)..(StopOf(b, p) - 1) : ~IsProcedure(b[i])
    <3>1. \A i \in (p + 1)..(StopOf(b, p) - 1) : i \in (p + 1)..Len(b)
      BY BeforeStop
    <3> QED BY <1>4, <3>1 DEF IsProcedure
  <2> QED BY <1>3, <2>1
<1>6. \A i : i \in extractSection(b) <=> /\ i \in (p + 1)..Len(b)
                                        /\ \A j \in (p + 1)..i : b[j].kind \notin Level1
  <2> TAKE i
  <2>1. ASSUME i \in (p + 1)..Len(b), NEW j \in (p + 1)..i
        PROVE  EndsSection(b[j]) <=> b[j].kind \in Level1
    <3>1. j \in (p + 1)..Len(b)
      BY <1>1, <2>1
    <3> QED BY <1>4, <3>1 DEF EndsSection
  <2>2. i \in extractSection(b) <=> /\ i \in (p + 1)..Len(b)
                                   /\ \A j \in (p + 1)..i : ~EndsSection(b[j])
    BY <1>5, BeforeStop
  <2> QED BY <2>1, <2>2
<1>7. \A i : i \in Under(b) <=> /\ i \in (p + 1)..Len(b)
                               /\ \A j \in (p + 1)..i : b[j].kind \notin Level1
  BY <1>1 DEF Under
<1>8. extractSection(b) = Under(b)
  BY <1>6, <1>7
<1>9. ASSUME NEW i \in Under(b) PROVE Indent(b, i) = Margin(b, i)
  <2>1. i \in (p + 1)..Len(b) /\ p + 1 \in extractSection(b)
    BY <1>1, <1>6, <1>7, <1>9
  <2>2. (\A k \in extractSection(b) : i <= k) <=> i = p + 1
    BY <1>1, <1>6, <2>1
  <2>3. b[i - 1].kind = "procedure" <=> i = p + 1
    BY <1>1, <2>1
  <2> QED BY <2>2, <2>3 DEF Indent, Margin
<1> QED BY <1>8, <1>9

\* In every body the rules L1, L2, L4 and L5 judge what the reader judges.
LEMMA ProcedureRead == TypeOK => LintReadsProcedure
<1> SUFFICES ASSUME TypeOK, HasOneProcedure(body) PROVE LintReadsProcedure
  BY DEF LintReadsProcedure
<1> DEFINE b == body  steps == StepsOf(b)
<1>1. /\ extractSection(b) = Under(b)
      /\ \A i \in Under(b) : Indent(b, i) = Margin(b, i)
  BY OneProcedure DEF HasOneProcedure, TypeOK
<1>2. StepLines(b) = steps
  BY <1>1 DEF StepLines, StepsOf
<1>3. lintL1(b) <=> \/ steps = {}
                    \/ \E j \in Under(b) : /\ b[j].check /\ ByFirstStep(b, j)
                                           /\ \E i \in steps : i <= j
  <2>1. \A i \in Under(b) : i \in Nat
    BY BodyType DEF Under, TypeOK
  <2>2. /\ steps \subseteq Under(b)
        /\ \A i : Block(b, i) = {j \in Under(b) : i <= j /\ \A k \in steps : k <= i \/ j < k}
    BY <1>1, <1>2 DEF Block, StepsOf
  <2>3. lintL1(b) <=> \A i \in steps : (\A k \in steps : i <= k) =>
                          \E j \in Under(b) : /\ b[j].check /\ i <= j
                                             /\ \A k \in steps : k <= i \/ j < k
    BY <1>2, <2>2 DEF lintL1
  <2>4. steps # {} => \E i \in steps : \A k \in steps : i <= k
    <3>1. steps \subseteq Nat
      BY <2>1, <2>2
    <3> HIDE DEF steps
    <3> QED BY <3>1, LeastNat
  <2>5. \A j : ByFirstStep(b, j) <=> \A i \in steps : i <= j => \A k \in steps : i <= k
    BY DEF ByFirstStep
  <2> HIDE DEF steps, b
  <2>6. ASSUME lintL1(b), steps # {}
        PROVE  \E j \in Under(b) : /\ b[j].check /\ ByFirstStep(b, j)
                                  /\ \E i \in steps : i <= j
    <3>1. PICK i \in steps : \A k \in steps : i <= k
      BY <2>4, <2>6
    <3>2. PICK j \in Under(b) : /\ b[j].check /\ i <= j
                               /\ \A k \in steps : k <= i \/ j < k
      BY <2>3, <2>6, <3>1
    <3>3. \A k \in steps : k <= j => k = i
      BY <2>1, <2>2, <3>1, <3>2
    <3> QED BY <2>5, <3>1, <3>2, <3>3
  <2>7. ASSUME NEW j \in Under(b), b[j].check, ByFirstStep(b, j), \E i \in steps : i <= j
        PROVE  lintL1(b)
    <3>1. \A i \in steps : i <= j => \A k \in steps : i <= k
      BY <2>5, <2>7
    <3>2. PICK i \in steps : i <= j
      BY <2>7
    <3>3. ASSUME NEW f \in steps, \A k \in steps : f <= k
          PROVE  f <= j /\ \A k \in steps : k <= f \/ j < k
      BY <2>1, <2>2, <3>1, <3>2, <3>3
    <3> QED BY <2>3, <2>7, <3>3
  <2>8. steps = {} => lintL1(b)
    BY <2>3
  <2> QED BY <2>6, <2>7, <2>8
<1>4. lintL2(b) <=> \A i \in steps : b[i].capital
  BY <1>2 DEF lintL2
<1>5. lintL4(b) <=> Cardinality(steps) <= MaxSteps
  BY <1>2 DEF lintL4
<1>6. lintL5(b) <=> \A i \in Under(b) : b[i].kind = "item" => Margin(b, i) < 5
  BY <1>1 DEF lintL5
<1> QED BY <1>3, <1>4, <1>5, <1>6 DEF LintReadsProcedure

\* The lines of the section that starts in the first "# Procedure".
LEMMA SectionOf ==
    ASSUME NEW b \in Seq(Line), Procedures(b) # {}
    PROVE  LET p == Min(Procedures(b)) IN
           /\ p \in Procedures(b) /\ p \in DOMAIN b /\ \A q \in Procedures(b) : p <= q
           /\ \A i : i \in extractSection(b) <=> /\ i \in (p + 1)..Len(b)
                                              /\ \A j \in (p + 1)..i : ~EndsSection(b[j])
                                              /\ ~IsProcedure(b[i])
<1> DEFINE p == Min(Procedures(b))
<1>1. Procedures(b) \subseteq Nat
  BY BodyType DEF Procedures
<1>2. p \in Procedures(b) /\ \A q \in Procedures(b) : p <= q
  BY <1>1, MinOf
<1>3. p \in DOMAIN b
  BY <1>2 DEF Procedures
<1>4. \A i : i \in extractSection(b) <=> i \in (p + 1)..(StopOf(b, p) - 1) /\ ~IsProcedure(b[i])
  BY DEF extractSection
<1> HIDE DEF p
<1>5. \A i : i \in extractSection(b) <=> /\ i \in (p + 1)..Len(b)
                                        /\ \A j \in (p + 1)..i : ~EndsSection(b[j])
                                        /\ ~IsProcedure(b[i])
  BY <1>3, <1>4, BeforeStop
<1> QED BY <1>2, <1>3, <1>5 DEF p

\* One more line takes none from the section and changes no step of it.
LEMMA Continued ==
    ASSUME NEW b \in Seq(Line), NEW l \in Line, NEW c, c = Append(b, l)
    PROVE  /\ extractSection(b) \subseteq extractSection(c)
           /\ \A i \in extractSection(b) : c[i] = b[i] /\ Indent(c, i) = Indent(b, i)
           /\ StepLines(b) \subseteq StepLines(c)
<1>1. /\ c \in Seq(Line) /\ Len(c) = Len(b) + 1
      /\ \A i \in 1..Len(b) : c[i] = b[i]
      /\ Len(b) \in Nat /\ DOMAIN b = 1..Len(b) /\ DOMAIN c = 1..Len(c)
  BY AppendProperties, BodyType
<1>2. CASE Procedures(b) = {}
  BY <1>2 DEF extractSection, StepLines
<1>3. CASE Procedures(b) # {}
  <2> DEFINE p == Min(Procedures(b))
  <2>1. /\ p \in Procedures(b) /\ p \in 1..Len(b) /\ \A q \in Procedures(b) : p <= q
        /\ \A i : i \in extractSection(b) <=> /\ i \in (p + 1)..Len(b)
                                           /\ \A j \in (p + 1)..i : ~EndsSection(b[j])
                                           /\ ~IsProcedure(b[i])
    BY <1>1, <1>3, SectionOf
  <2>2. Procedures(c) # {} /\ p \in Procedures(c)
    BY <1>1, <2>1 DEF Procedures
  <2>3. p = Min(Procedures(c))
    <3> DEFINE m == Min(Procedures(c))
    <3>1. m \in Procedures(c) /\ m \in 1..Len(c) /\ \A q \in Procedures(c) : m <= q
      BY <1>1, <2>2, SectionOf
    <3> HIDE DEF m, p
    <3>2. m \in Procedures(b)
      BY <1>1, <2>1, <2>2, <3>1 DEF Procedures
    <3>3. m = p
      BY <1>1, <2>1, <2>2, <3>1, <3>2
    <3> QED BY <3>3 DEF m
  <2>4. \A i : i \in extractSection(c) <=> /\ i \in (p + 1)..Len(c)
                                          /\ \A j \in (p + 1)..i : ~EndsSection(c[j])
                                          /\ ~IsProcedure(c[i])
    BY <1>1, <2>2, <2>3, SectionOf
  <2> HIDE DEF p
  <2>5. \A i \in 1..Len(b) : i \in extractSection(b) <=> i \in extractSection(c)
    <3> TAKE i \in 1..Len(b)
    <3>1. \A j \in (p + 1)..i : c[j] = b[j]
      BY <1>1, <2>1
    <3>2. i \in (p + 1)..Len(b) <=> i \in (p + 1)..Len(c)
      BY <1>1, <2>1
    <3> QED BY <1>1, <2>1, <2>4, <3>1, <3>2
  <2>6. extractSection(b) \subseteq 1..Len(b) /\ extractSection(c) \subseteq 1..Len(c)
    BY <1>1, <2>1, <2>4
  <2>7. ASSUME NEW i \in extractSection(b)
        PROVE  c[i] = b[i] /\ Indent(c, i) = Indent(b, i)
    <3>1. (\A k \in extractSection(b) : i <= k) <=> \A k \in extractSection(c) : i <= k
      <4>1. ASSUME NEW k \in extractSection(c), ~(i <= k)
            PROVE  k \in extractSection(b)
        BY <1>1, <2>5, <2>6, <4>1
      <4>2. extractSection(b) \subseteq extractSection(c)
        BY <2>5, <2>6
      <4> QED BY <4>1, <4>2
    <3>2. c[i] = b[i]
      BY <1>1, <2>6
    <3> QED BY <3>1, <3>2 DEF Indent
  <2> QED BY <2>5, <2>6, <2>7 DEF StepLines
<1> QED BY <1>2, <1>3

\* A body of finitely many lines has finitely many steps.
LEMMA StepsFinite ==
    ASSUME NEW b \in Seq(Line)
    PROVE  IsFiniteSet(StepLines(b))
<1>1. StepLines(b) \subseteq 1..Len(b)
  BY BodyType, SectionOf DEF StepLines, extractSection
<1>2. IsFiniteSet(1..Len(b))
  BY BodyType, FS_Interval
<1> QED BY <1>1, <1>2, FS_Subset

\* A line written at the end of a body mends no step above it.
LEMMA Beginnings ==
    ASSUME TypeOK, NEW l \in Line, WriteLine(l)
    PROVE  /\ lintL2(body') => lintL2(body)
           /\ lintL4(body') => lintL4(body)
           /\ lintL5(body') => lintL5(body)
<1>1. body \in Seq(Line) /\ body' = Append(body, l) /\ body' \in Seq(Line)
  BY AppendProperties DEF TypeOK, WriteLine
<1>2. /\ extractSection(body) \subseteq extractSection(body')
      /\ \A i \in extractSection(body) : /\ body'[i] = body[i]
                                       /\ Indent(body', i) = Indent(body, i)
      /\ StepLines(body) \subseteq StepLines(body')
  BY <1>1, Continued
<1>3. lintL2(body') => lintL2(body)
  <2>1. StepLines(body) \subseteq extractSection(body)
    BY DEF StepLines
  <2> QED BY <1>2, <2>1 DEF lintL2
<1>4. lintL4(body') => lintL4(body)
  <2>1. Cardinality(StepLines(body)) <= Cardinality(StepLines(body'))
    BY <1>1, <1>2, StepsFinite, FS_Subset
  <2>2. Cardinality(StepLines(body)) \in Nat /\ Cardinality(StepLines(body')) \in Nat
    BY <1>1, StepsFinite, FS_CardinalityType
  <2> QED BY <2>1, <2>2, StepsAssumption DEF lintL4
<1>5. lintL5(body') => lintL5(body)
  BY <1>2 DEF lintL5
<1> QED BY <1>3, <1>4, <1>5
-----------------------------------------------------------------------------
(* The words of a body, and the backticks that open and close a span.        *)

\* Sequences put one behind the other are a sequence of their elements.
LEMMA FlattenType ==
    ASSUME NEW S, NEW ss \in Seq(Seq(S))
    PROVE  SE!FlattenSeq(ss) \in Seq(S)
<1> DEFINE n == Len(ss)
           F == CHOOSE f : f = [i \in 1..n |-> IF i = 1 THEN ss[i] ELSE f[i - 1] \o ss[i]]
<1>1. n \in Nat /\ \A i \in 1..n : ss[i] \in Seq(S)
  BY LenProperties, ElementOfSeq
<1>2. SE!FlattenSeq(ss) = IF n = 0 THEN ss ELSE F[n]
  BY DEF SE!FlattenSeq
<1>3. CASE n = 0
  <2>1. ss = <<>>
    BY <1>3, EmptySeq
  <2> QED BY <1>2, <1>3, <2>1, EmptySeq
<1>4. CASE n # 0
  <2>1. \E f : f = [i \in 1..n |-> IF i = 1 THEN ss[i] ELSE f[i - 1] \o ss[i]]
    <3> DEFINE step == [i \in 1..n |-> [t \in Seq(S) |-> IF i = 1 THEN ss[i] ELSE t \o ss[i]]]
    <3>1. <<>> \in Seq(S)
      BY EmptySeq
    <3>2. \A i \in 1..n : \A t \in Seq(S) : t \o ss[i] \in Seq(S)
      BY <1>1, ConcatProperties
    <3>3. step \in [1..n -> [Seq(S) -> Seq(S)]]
      BY <1>1, <3>2
    <3>4. PICK f \in [0..n -> Seq(S)] : Follows(f, n, <<>>, step)
      <4> DEFINE V == Seq(S)
      <4>1. n \in Nat /\ <<>> \in V /\ step \in [1..n -> [V -> V]]
        BY <1>1, <3>1, <3>3
      <4> HIDE DEF step, n, V
      <4>2. \E f \in [0..n -> V] : Follows(f, n, <<>>, step)
        BY <4>1, Recursion
      <4> QED BY <4>2 DEF V
    <3> DEFINE g == [i \in 1..n |-> f[i]]
    <3>5. \A i \in 1..n : f[i] = IF i = 1 THEN ss[i] ELSE f[i - 1] \o ss[i]
      <4> TAKE i \in 1..n
      <4>1. i - 1 \in 0..n
        BY <1>1
      <4>2. f[i - 1] \in Seq(S)
        BY <3>4, <4>1
      <4>3. f[i] = step[i][f[i - 1]]
        BY <3>4 DEF Follows
      <4> QED BY <4>2, <4>3
    <3>6. \A i \in 1..n : i # 1 => i - 1 \in 1..n
      BY <1>1
    <3>7. g = [i \in 1..n |-> IF i = 1 THEN ss[i] ELSE g[i - 1] \o ss[i]]
      BY <3>5, <3>6
    <3> HIDE DEF g
    <3> QED BY <3>7
  <2>2. F = [i \in 1..n |-> IF i = 1 THEN ss[i] ELSE F[i - 1] \o ss[i]]
    <3> HIDE DEF n
    <3> QED BY <2>1
  <2> HIDE DEF F
  <2> DEFINE T == {i \in 0..n : i = 0 \/ F[i] \in Seq(S)}
  <2>3. \A i \in 1..n : i - 1 \in T => i \in T
    <3> TAKE i \in 1..n
    <3>1. F[i] = IF i = 1 THEN ss[i] ELSE F[i - 1] \o ss[i]
      BY <2>2
    <3>2. CASE i = 1
      BY <1>1, <3>1, <3>2
    <3>3. CASE i # 1 /\ F[i - 1] \in Seq(S)
      <4>1. F[i - 1] \o ss[i] \in Seq(S)
        BY <1>1, <3>3, ConcatProperties
      <4>2. F[i] \in Seq(S) /\ i \in 0..n
        BY <1>1, <3>1, <3>3, <4>1
      <4> QED BY <4>2
    <3>4. i - 1 \in T => i = 1 \/ F[i - 1] \in Seq(S)
      BY <1>1
    <3> QED BY <3>2, <3>3, <3>4
  <2>4. \A i \in 0..n : i \in T
    <3>1. 0 \in T
      BY <1>1
    <3> HIDE DEF T
    <3> QED BY <1>1, <2>3, <3>1, InductionTo
  <2> QED BY <1>1, <1>2, <1>4, <2>4
<1> QED BY <1>3, <1>4

\* The words of a body are tokens.
LEMMA WordsType ==
    ASSUME NEW b \in Seq(Line)
    PROVE  Words(b) \in Seq(Token)
<1> DEFINE ss == [i \in DOMAIN b |-> b[i].words]
<1>1. ss \in Seq(Seq(Token))
  <2>1. Len(b) \in Nat /\ ss \in [1..Len(b) -> Seq(Token)]
    BY BodyType, LineAssumption
  <2> QED BY <2>1, SeqDef
<1> HIDE DEF ss
<1>2. SE!FlattenSeq(ss) \in Seq(Token)
  BY <1>1, FlattenType
<1> QED BY <1>2 DEF Words, ss

\* What Opener computes, word by word.
LEMMA OpenerSteps ==
    ASSUME NEW w \in Seq(Token)
    PROVE  /\ Opener(w)[0] = 0
           /\ \A i \in 1..Len(w) :
                Opener(w)[i] = IF ~IsTick(w[i]) THEN Opener(w)[i - 1]
                               ELSE IF Opener(w)[i - 1] \in {0, i - 1} THEN i ELSE 0
<1> DEFINE n == Len(w)
           o == CHOOSE f : f = [i \in 0..n |-> IF i = 0 THEN 0
                                               ELSE IF w[i].is # "tick" THEN f[i - 1]
                                               ELSE IF f[i - 1] \in {0, i - 1} THEN i ELSE 0]
           step == [i \in 1..n |-> [t \in 0..n |-> IF w[i].is # "tick" THEN t
                                                   ELSE IF t \in {0, i - 1} THEN i ELSE 0]]
<1>1. n \in Nat
  BY LenProperties
<1>2. \E f \in [0..n -> 0..n] : Follows(f, n, 0, step)
  <2> DEFINE S == 0..n
  <2>1. 0 \in S /\ step \in [1..n -> [S -> S]]
    BY <1>1
  <2> HIDE DEF step, S, n
  <2>2. \E f \in [0..n -> S] : Follows(f, n, 0, step)
    BY <1>1, <2>1, Recursion
  <2> QED BY <2>2 DEF S
<1>3. \E f : f = [i \in 0..n |-> IF i = 0 THEN 0
                                 ELSE IF w[i].is # "tick" THEN f[i - 1]
                                 ELSE IF f[i - 1] \in {0, i - 1} THEN i ELSE 0]
  <2>1. PICK f \in [0..n -> 0..n] : Follows(f, n, 0, step)
    BY <1>2
  <2>2. \A i \in 1..n : f[i] = IF w[i].is # "tick" THEN f[i - 1]
                               ELSE IF f[i - 1] \in {0, i - 1} THEN i ELSE 0
    <3> TAKE i \in 1..n
    <3>1. f[i] = step[i][f[i - 1]] /\ f[i - 1] \in 0..n
      BY <1>1, <2>1 DEF Follows
    <3> QED BY <3>1
  <2>3. f[0] = 0
    BY <2>1 DEF Follows
  <2>4. f = [i \in 0..n |-> IF i = 0 THEN 0
                            ELSE IF w[i].is # "tick" THEN f[i - 1]
                            ELSE IF f[i - 1] \in {0, i - 1} THEN i ELSE 0]
    BY <1>1, <2>1, <2>2, <2>3
  <2> QED BY <2>4
<1>4. o = [i \in 0..n |-> IF i = 0 THEN 0
                          ELSE IF w[i].is # "tick" THEN o[i - 1]
                          ELSE IF o[i - 1] \in {0, i - 1} THEN i ELSE 0]
  <2> HIDE DEF n
  <2> QED BY <1>3
<1>5. Opener(w) = o
  BY DEF Opener
<1> HIDE DEF o
<1> QED BY <1>1, <1>4, <1>5 DEF IsTick

\* Ticks are counted word by word.
LEMMA TickCount ==
    ASSUME NEW w \in Seq(Token)
    PROVE  /\ Cardinality(Ticks(w, 1, 0)) = 0
           /\ \A i \in 0..Len(w) : Cardinality(Ticks(w, 1, i)) \in Nat
           /\ \A i \in 1..Len(w) :
                Cardinality(Ticks(w, 1, i)) =
                   Cardinality(Ticks(w, 1, i - 1)) + IF IsTick(w[i]) THEN 1 ELSE 0
<1>1. Len(w) \in Nat
  BY LenProperties
<1>2. Ticks(w, 1, 0) = {}
  BY DEF Ticks
<1>3. \A i \in 0..Len(w) : IsFiniteSet(Ticks(w, 1, i))
  <2> TAKE i \in 0..Len(w)
  <2>1. IsFiniteSet(1..i)
    BY <1>1, FS_Interval
  <2>2. Ticks(w, 1, i) \subseteq 1..i
    BY DEF Ticks
  <2> QED BY <2>1, <2>2, FS_Subset
<1>4. ASSUME NEW i \in 1..Len(w)
      PROVE  Cardinality(Ticks(w, 1, i)) =
                Cardinality(Ticks(w, 1, i - 1)) + IF IsTick(w[i]) THEN 1 ELSE 0
  <2>1. i - 1 \in 0..Len(w) /\ i \notin Ticks(w, 1, i - 1)
    BY <1>1 DEF Ticks
  <2>2. CASE IsTick(w[i])
    <3>1. Ticks(w, 1, i) = Ticks(w, 1, i - 1) \cup {i}
      BY <1>1, <2>2 DEF Ticks
    <3>2. Cardinality(Ticks(w, 1, i)) = Cardinality(Ticks(w, 1, i - 1)) + 1
      BY <1>3, <2>1, <3>1, FS_AddElement
    <3> QED BY <2>2, <3>2
  <2>3. CASE ~IsTick(w[i])
    <3>1. Ticks(w, 1, i) = Ticks(w, 1, i - 1)
      BY <1>1, <2>3 DEF Ticks
    <3>2. Cardinality(Ticks(w, 1, i - 1)) \in Nat
      BY <1>3, <2>1, FS_CardinalityType
    <3> QED BY <2>3, <3>1, <3>2
  <2> QED BY <2>2, <2>3
<1> QED BY <1>2, <1>3, <1>4, FS_EmptySet, FS_CardinalityType

\* Without two ticks in a row a span is open exactly behind an odd number of
\* ticks, and it is the last of them that opened it.
LEMMA OpenerIsLastTick ==
    ASSUME NEW w \in Seq(Token), NoEmptyQuotes(w), NEW i \in 0..Len(w)
    PROVE  LET o == Opener(w) IN
           /\ o[i] \in 0..i
           /\ o[i] # 0 <=> Cardinality(Ticks(w, 1, i)) % 2 = 1
           /\ o[i] # 0 => IsTick(w[o[i]]) /\ \A j \in (o[i] + 1)..i : ~IsTick(w[j])
<1> DEFINE o == Opener(w)
           n == Len(w)
           count(k) == Cardinality(Ticks(w, 1, k))
           Holds(k) == /\ o[k] \in 0..k
                       /\ o[k] # 0 <=> count(k) % 2 = 1
                       /\ o[k] # 0 => IsTick(w[o[k]]) /\ \A j \in (o[k] + 1)..k : ~IsTick(w[j])
           T == {k \in 0..n : Holds(k)}
<1>1. n \in Nat
  BY LenProperties
<1>2. /\ o[0] = 0
      /\ \A k \in 1..n : o[k] = IF ~IsTick(w[k]) THEN o[k - 1]
                                ELSE IF o[k - 1] \in {0, k - 1} THEN k ELSE 0
  BY OpenerSteps
<1>3. /\ count(0) = 0 /\ \A k \in 0..n : count(k) \in Nat
      /\ \A k \in 1..n : count(k) = count(k - 1) + IF IsTick(w[k]) THEN 1 ELSE 0
  BY TickCount
<1> HIDE DEF o, count
<1>4. 0 \in T
  BY <1>1, <1>2, <1>3
<1>5. ASSUME NEW k \in 1..n, Holds(k - 1) PROVE Holds(k)
  <2>1. k - 1 \in 0..n /\ count(k - 1) \in Nat
    BY <1>1, <1>3
  <2>2. CASE ~IsTick(w[k])
    <3>1. o[k] = o[k - 1] /\ count(k) = count(k - 1)
      BY <1>2, <1>3, <2>1, <2>2
    <3> QED BY <1>1, <1>5, <2>2, <3>1
  <2>3. CASE IsTick(w[k])
    <3>1. count(k) % 2 = 1 <=> ~(count(k - 1) % 2 = 1)
      <4>1. count(k) = count(k - 1) + 1
        BY <1>3, <2>3
      <4> QED BY <2>1, <4>1
    <3>2. o[k - 1] = k - 1 => o[k - 1] = 0
      BY <1>1, <1>5, <2>3 DEF NoEmptyQuotes
    <3>3. o[k] = IF o[k - 1] = 0 THEN k ELSE 0
      BY <1>2, <2>3, <3>2
    <3> QED BY <1>1, <1>5, <2>3, <3>1, <3>3
  <2> QED BY <2>2, <2>3
<1>6. \A k \in 0..n : k \in T
  <2>1. \A k \in 1..n : k - 1 \in T => k \in T
    <3> HIDE DEF Holds
    <3> QED BY <1>1, <1>5
  <2> HIDE DEF T, n
  <2> QED BY <1>1, <1>4, <2>1, InductionTo
<1>7. Holds(i)
  BY <1>6
<1> QED BY <1>7 DEF o, count

\* A quoted span runs from a tick to the next one.
LEMMA SpanShape ==
    ASSUME NEW w \in Seq(Token), NoEmptyQuotes(w), NEW s \in Spans(w)
    PROVE  /\ s[2] \in 1..Len(w) /\ s[1] \in 1..(s[2] - 1)
           /\ IsTick(w[s[1]]) /\ IsTick(w[s[2]])
           /\ \A j \in (s[1] + 1)..(s[2] - 1) : ~IsTick(w[j])
           /\ Cardinality(Ticks(w, 1, s[2] - 1)) % 2 = 1
<1> DEFINE o == Opener(w)
<1>1. Len(w) \in Nat /\ DOMAIN w = 1..Len(w)
  BY LenProperties
<1>2. PICK k \in 1..Len(w) : s = <<o[k - 1], k>> /\ IsTick(w[k]) /\ o[k] = 0
  BY <1>1 DEF Spans, IsTick
<1>3. k - 1 \in 0..Len(w)
  BY <1>1
<1>4. o[k - 1] \notin {0, k - 1}
  BY <1>1, <1>2, OpenerSteps
<1>5. /\ o[k - 1] \in 0..(k - 1)
      /\ o[k - 1] # 0 => Cardinality(Ticks(w, 1, k - 1)) % 2 = 1
      /\ o[k - 1] # 0 => IsTick(w[o[k - 1]]) /\ \A j \in (o[k - 1] + 1)..(k - 1) : ~IsTick(w[j])
  BY <1>3, OpenerIsLastTick
<1> HIDE DEF o
<1>6. s[1] = o[k - 1] /\ s[2] = k
  BY <1>2
<1> QED BY <1>1, <1>2, <1>4, <1>5, <1>6

\* Words with no tick between them have the same ticks before them.
LEMMA SameTicks ==
    ASSUME NEW w, NEW i \in Nat, NEW k \in Nat, i <= k,
           \A j \in (i + 1)..k : ~IsTick(w[j])
    PROVE  Ticks(w, 1, i) = Ticks(w, 1, k)
BY DEF Ticks

\* A word is in a span exactly if the reader takes it for quoted, and the span
\* is opened by the tick the reader finds above the word.
LEMMA SpanOf ==
    ASSUME NEW w \in Seq(Token), NoEmptyQuotes(w), NEW i \in 1..Len(w), ~IsTick(w[i])
    PROVE  /\ \A s \in Spans(w) : i \in s[1]..s[2] =>
                 i \in InQuotes(w) /\ Opening(w, i) = w[s[1] + 1]
           /\ i \in InQuotes(w) => \E s \in Spans(w) : i \in s[1]..s[2]
<1>1. Len(w) \in Nat /\ DOMAIN w = 1..Len(w)
  BY LenProperties
<1>2. ASSUME NEW s \in Spans(w), i \in s[1]..s[2]
      PROVE  i \in InQuotes(w) /\ Opening(w, i) = w[s[1] + 1]
  <2>1. /\ s[2] \in 1..Len(w) /\ s[1] \in 1..(s[2] - 1)
        /\ IsTick(w[s[1]]) /\ IsTick(w[s[2]])
        /\ \A j \in (s[1] + 1)..(s[2] - 1) : ~IsTick(w[j])
        /\ Cardinality(Ticks(w, 1, s[2] - 1)) % 2 = 1
    BY SpanShape
  <2>2. i # s[1] /\ i # s[2]
    BY <2>1
  <2>3. i \in (s[1] + 1)..(s[2] - 1)
    BY <1>1, <1>2, <2>1, <2>2
  <2>4. Ticks(w, 1, i) = Ticks(w, 1, s[2] - 1)
    <3>1. \A j \in (i + 1)..(s[2] - 1) : ~IsTick(w[j])
      BY <2>1, <2>3
    <3> QED BY <2>1, <2>3, <3>1, SameTicks
  <2>5. s[2] \in Ticks(w, i, Len(w))
    BY <1>1, <2>1, <2>3 DEF Ticks
  <2>6. i \in InQuotes(w)
    BY <1>1, <2>1, <2>4, <2>5 DEF InQuotes
  <2>7. s[1] \in Ticks(w, 1, i) /\ \A t \in Ticks(w, 1, i) : t \in Nat /\ t <= s[1]
    <3>1. s[1] \in Ticks(w, 1, i)
      BY <2>1, <2>3 DEF Ticks
    <3>2. ASSUME NEW t \in Ticks(w, 1, i) PROVE t \in Nat /\ t <= s[1]
      <4>1. t \in 1..i /\ IsTick(w[t])
        BY DEF Ticks
      <4>2. t \notin (s[1] + 1)..(s[2] - 1)
        BY <2>1, <4>1
      <4> QED BY <2>1, <2>3, <4>1, <4>2
    <3> QED BY <3>1, <3>2
  <2>8. Max(Ticks(w, 1, i)) = s[1]
    BY <2>7 DEF Max
  <2> QED BY <2>1, <2>6, <2>8 DEF Opening
<1>3. ASSUME i \in InQuotes(w)
      PROVE  \E s \in Spans(w) : i \in s[1]..s[2]
  <2> DEFINE o == Opener(w)
  <2>1. Cardinality(Ticks(w, 1, i)) % 2 = 1 /\ Ticks(w, i, Len(w)) # {}
    BY <1>3 DEF InQuotes
  <2>2. PICK k \in Ticks(w, i, Len(w)) : \A t \in Ticks(w, i, Len(w)) : k <= t
    <3>1. Ticks(w, i, Len(w)) \subseteq Nat
      BY <1>1 DEF Ticks
    <3> QED BY <2>1, <3>1, LeastNat
  <2>3. k \in (i + 1)..Len(w) /\ IsTick(w[k])
    BY <1>1, <2>2 DEF Ticks
  <2>4. \A j \in (i + 1)..(k - 1) : ~IsTick(w[j])
    <3> SUFFICES ASSUME NEW j \in (i + 1)..(k - 1), IsTick(w[j]) PROVE FALSE
      OBVIOUS
    <3>1. j \in Ticks(w, i, Len(w))
      BY <1>1, <2>3 DEF Ticks
    <3> QED BY <1>1, <2>2, <2>3, <3>1
  <2>5. Ticks(w, 1, i) = Ticks(w, 1, k - 1)
    BY <1>1, <2>3, <2>4, SameTicks
  <2>6. k - 1 \in 0..Len(w)
    BY <1>1, <2>3
  <2>7. /\ o[k - 1] \in 0..(k - 1)
        /\ o[k - 1] # 0
        /\ IsTick(w[o[k - 1]])
    BY <2>1, <2>5, <2>6, OpenerIsLastTick
  <2>8. o[k - 1] # k - 1
    BY <1>1, <2>3, <2>7 DEF NoEmptyQuotes
  <2>9. o[k] = 0
    BY <1>1, <2>3, <2>7, <2>8, OpenerSteps
  <2>10. <<o[k - 1], k>> \in Spans(w)
    BY <1>1, <2>3, <2>9 DEF Spans, IsTick
  <2>11. o[k - 1] \notin (i + 1)..(k - 1)
    BY <2>4, <2>7
  <2>12. i \in o[k - 1]..k
    BY <1>1, <2>3, <2>7, <2>11
  <2> HIDE DEF o
  <2> QED BY <2>10, <2>12
<1> QED BY <1>2, <1>3

\* In every text the rules L3 and L6 take for quoted what the reader does.
LEMMA BackticksRead == TypeOK => LintReadsBackticks
<1> DEFINE w == Words(body)
           Good(t) == t.is = "field" \/ (t.is = "call" /\ t.tool \in Allowed)
<1> SUFFICES ASSUME TypeOK, NoEmptyQuotes(w)
             PROVE  /\ lintL3(body, Allowed) <=>
                          \A i \in DOMAIN w \ InQuotes(w) :
                              w[i].is \in {"call", "mention"} => w[i].tool \notin Allowed
                    /\ lintL6(body, Allowed) <=>
                          \A i \in InQuotes(w) : w[i].is = "call" => Good(Opening(w, i))
  BY DEF LintReadsBackticks
<1>1. w \in Seq(Token) /\ Len(w) \in Nat /\ DOMAIN w = 1..Len(w)
  BY WordsType, LenProperties DEF TypeOK
<1>2. lintL3(body, Allowed) <=> \A i \in DOMAIN w \ Quoted(w) :
                                   w[i].is \in {"call", "mention"} => w[i].tool \notin Allowed
  BY DEF lintL3
<1>3. lintL6(body, Allowed) <=> \A s \in Spans(w) :
                                   (\E k \in s[1]..s[2] : w[k].is = "call") => Good(w[s[1] + 1])
  BY DEF lintL6
<1> HIDE DEF w
<1>4. ASSUME NEW i \in DOMAIN w, ~IsTick(w[i])
      PROVE  i \in Quoted(w) <=> i \in InQuotes(w)
  <2>1. i \in Quoted(w) <=> \E s \in Spans(w) : i \in s[1]..s[2]
    BY DEF Quoted
  <2> QED BY <1>1, <1>4, <2>1, SpanOf
<1>5. \A i : w[i].is \in {"call", "mention"} => ~IsTick(w[i])
  BY DEF IsTick
<1>6. lintL3(body, Allowed) <=> \A i \in DOMAIN w \ InQuotes(w) :
                                   w[i].is \in {"call", "mention"} => w[i].tool \notin Allowed
  BY <1>2, <1>4, <1>5
<1> HIDE DEF Good
<1>7. ASSUME lintL6(body, Allowed), NEW i \in InQuotes(w), w[i].is = "call"
      PROVE  Good(Opening(w, i))
  <2>1. i \in 1..Len(w) /\ ~IsTick(w[i])
    BY <1>1, <1>7 DEF InQuotes
  <2>2. PICK s \in Spans(w) : i \in s[1]..s[2]
    BY <1>1, <2>1, SpanOf
  <2>3. Opening(w, i) = w[s[1] + 1]
    BY <1>1, <2>1, <2>2, SpanOf
  <2> QED BY <1>3, <1>7, <2>2, <2>3
<1>8. ASSUME \A i \in InQuotes(w) : w[i].is = "call" => Good(Opening(w, i))
      PROVE  lintL6(body, Allowed)
  <2> SUFFICES ASSUME NEW s \in Spans(w), NEW k \in s[1]..s[2], w[k].is = "call"
               PROVE  Good(w[s[1] + 1])
    BY <1>3
  <2>1. k \in 1..Len(w) /\ ~IsTick(w[k])
    <3>1. s[2] \in 1..Len(w) /\ s[1] \in 1..(s[2] - 1)
      BY <1>1, SpanShape
    <3> QED BY <1>1, <3>1 DEF IsTick
  <2> QED BY <1>1, <1>8, <2>1, SpanOf
<1> QED BY <1>6, <1>7, <1>8
-----------------------------------------------------------------------------
\* What an author writes is a sequence of lines.
LEMMA TypeInvariant == Spec => []TypeOK
<1>1. Init => TypeOK
  BY EmptySeq DEF Init, TypeOK
<1>2. TypeOK /\ [Next]_body => TypeOK'
  BY AppendProperties DEF TypeOK, Next, WriteLine
<1> QED BY <1>1, <1>2, PTL DEF Spec

\* The rules of the procedure judge the lines a reader finds under "# Procedure",
\* in a body of any length, with headings, steps and items in any order.
THEOREM ProcedureIsRead == Spec => []LintReadsProcedure
BY TypeInvariant, ProcedureRead, PTL

\* The rules of the tools take a word for quoted if the backticks around it say
\* so, in a text of any length and any division into lines.
THEOREM BackticksAreRead == Spec => []LintReadsBackticks
BY TypeInvariant, BackticksRead, PTL

\* No line written further down mends a step further up, however many procedures
\* a body has.
THEOREM BeginningsArePassed == Spec => BeginningsPass
<1>1. TypeOK /\ [Next]_body => [/\ lintL2(body') => lintL2(body)
                                /\ lintL4(body') => lintL4(body)
                                /\ lintL5(body') => lintL5(body)]_body
  BY Beginnings DEF Next
<1> QED BY <1>1, TypeInvariant, PTL DEF Spec, BeginningsPass
=============================================================================
