------------------------- MODULE PriceEditor_proofs -------------------------
(***************************************************************************)
(* Proofs about PriceEditor.  What is written and read back is a matter of *)
(* the sequences of rules, tests and conditions: first what FlattenSeq     *)
(* makes of them, then the operators on expressions, then the effects.     *)
(***************************************************************************)
EXTENDS PriceEditor, SequenceTheorems, WellFoundedInduction, TLAPS

-----------------------------------------------------------------------------
(* Sequences.                                                              *)

\* Induction up to n, on the set of the numbers for which the claim holds.
LEMMA Stepwise ==
  ASSUME NEW n \in Nat, NEW Good, 0 \in Good,
         \A i \in 1 .. n : i - 1 \in Good => i \in Good
  PROVE  \A i \in 0 .. n : i \in Good
<1> DEFINE Bad == {i \in 0 .. n : i \notin Good}
<1>1. ASSUME Bad # {} PROVE FALSE
  <2>1. Bad \subseteq Nat
    OBVIOUS
  <2>2. PICK x \in Bad : \A y \in Bad : ~ (<<y, x>> \in OpToRel(<, Nat))
    <3> HIDE DEF Bad
    <3> QED
      BY <1>1, <2>1, NatLessThanWellFounded, WFMin
  <2>3. x \in 1 .. n /\ x \notin Good
    OBVIOUS
  <2>4. x - 1 \in Bad
    BY <2>3
  <2>5. x \in Nat /\ x - 1 \in Nat /\ <<x - 1, x>> \in Nat \X Nat
    BY <2>3
  <2>6. <<x - 1, x>>[1] = x - 1 /\ <<x - 1, x>>[2] = x
    OBVIOUS
  <2>7. ~ x - 1 < x
    <3> HIDE DEF Bad
    <3> QED
      BY <2>2, <2>4, <2>5, <2>6, Zenon DEF OpToRel
  <2> QED
    BY <2>3, <2>7
<1> QED
  BY <1>1

\* g runs through the partial concatenations of s.
Joins(g, s) == g[0] = <<>> /\ \A i \in 1 .. Len(s) : g[i] = g[i - 1] \o s[i]

LEMMA JoinsExists ==
  ASSUME NEW S, NEW s \in Seq(Seq(S))
  PROVE  \E g \in [0 .. Len(s) -> Seq(S)] : Joins(g, s)
<1> DEFINE n == Len(s)
           Part(g, k) == g[0] = <<>> /\ \A i \in 1 .. k : g[i] = g[i - 1] \o s[i]
           Good == {k \in 0 .. n : \E g \in [0 .. k -> Seq(S)] : Part(g, k)}
<1>0. n \in Nat /\ \A i \in 1 .. n : s[i] \in Seq(S)
  BY ElementOfSeq, LenProperties
<1>1. 0 \in Good
  <2> DEFINE g == [i \in 0 .. 0 |-> <<>>]
  <2>1. g \in [0 .. 0 -> Seq(S)] /\ Part(g, 0)
    BY EmptySeq
  <2> HIDE DEF g, Part
  <2> QED
    BY <1>0, <2>1
<1>2. ASSUME NEW k \in 1 .. n, k - 1 \in Good PROVE k \in Good
  <2>1. k \in Nat /\ k - 1 \in Nat
    BY <1>0
  <2>2. PICK g \in [0 .. k - 1 -> Seq(S)] : Part(g, k - 1)
    BY <1>2
  <2> DEFINE h == [i \in 0 .. k |-> IF i = k THEN g[k - 1] \o s[k] ELSE g[i]]
  <2>3. g[k - 1] \o s[k] \in Seq(S)
    BY <1>0, <2>1, ConcatProperties
  <2>4. h \in [0 .. k -> Seq(S)]
    BY <2>1, <2>3
  <2>5. h[0] = <<>>
    BY <2>1, <2>2
  <2>6. ASSUME NEW i \in 1 .. k PROVE h[i] = h[i - 1] \o s[i]
    <3>1. i \in 0 .. k /\ i - 1 \in 0 .. k /\ i - 1 # k
      BY <2>1
    <3>2. h[i - 1] = g[i - 1] /\ h[i] = IF i = k THEN g[k - 1] \o s[k] ELSE g[i]
      BY <3>1
    <3>3. i # k => i \in 1 .. k - 1
      BY <2>1
    <3> QED
      BY <2>2, <3>2, <3>3
  <2>7. Part(h, k)
    BY <2>5, <2>6
  <2> HIDE DEF h, Part
  <2> QED
    BY <1>0, <2>1, <2>4, <2>7
<1>3. n \in Good
  <2>1. \A k \in 1 .. n : k - 1 \in Good => k \in Good
    BY <1>2
  <2> HIDE DEF Good, n
  <2>2. \A k \in 0 .. n : k \in Good
    BY <1>0, <1>1, <2>1, Stepwise
  <2> QED
    BY <1>0, <2>2
<1> QED
  BY <1>3 DEF Joins

\* FlattenSeq is the last of them.
LEMMA FlattenJoins ==
  ASSUME NEW S, NEW s \in Seq(Seq(S)), NEW g \in [0 .. Len(s) -> Seq(S)], Joins(g, s)
  PROVE  FlattenSeq(s) = g[Len(s)]
<1> DEFINE n == Len(s)
           Flat(f) == f = [i \in 1 .. n |-> IF i = 1 THEN s[i] ELSE f[i - 1] \o s[i]]
           f0 == CHOOSE f : Flat(f)
<1>0. n \in Nat /\ \A i \in 1 .. n : s[i] \in Seq(S)
  BY ElementOfSeq, LenProperties
<1>1. CASE n = 0
  <2>1. s = <<>>
    BY <1>1, EmptySeq
  <2> QED
    BY <1>1, <2>1 DEF FlattenSeq, Joins
<1>2. CASE n # 0
  <2>1. FlattenSeq(s) = f0[n]
    BY <1>2 DEF FlattenSeq
  <2>2. \E f : Flat(f)
    <3> DEFINE f1 == [i \in 1 .. n |-> g[i]]
    <3>1. ASSUME NEW i \in 1 .. n
          PROVE  f1[i] = IF i = 1 THEN s[i] ELSE f1[i - 1] \o s[i]
      <4>1. g[i] = g[i - 1] \o s[i]
        BY DEF Joins
      <4>2. CASE i = 1
        BY <1>0, <4>1, <4>2, ConcatEmptySeq DEF Joins
      <4>3. CASE i # 1
        <5>1. i - 1 \in 1 .. n
          BY <1>0, <4>3
        <5> QED
          BY <4>1, <4>3, <5>1
      <4> QED
        BY <4>2, <4>3
    <3>2. f1 = [i \in 1 .. n |-> f1[i]]
      OBVIOUS
    <3>3. Flat(f1)
      <4> HIDE DEF f1
      <4> QED
        BY <3>1, <3>2
    <3> QED
      BY <3>3
  <2>3. Flat(f0)
    <3> HIDE DEF Flat
    <3> QED
      BY <2>2
  <2>4. \A i \in 1 .. n : f0[i] = IF i = 1 THEN s[i] ELSE f0[i - 1] \o s[i]
    <3> HIDE DEF f0
    <3> QED
      BY <2>3
  <2> HIDE DEF f0, Flat
  <2> DEFINE Good == {i \in 0 .. n : i = 0 \/ f0[i] = g[i]}
  <2>5. 0 \in Good
    BY <1>0
  <2>6. ASSUME NEW i \in 1 .. n, i - 1 \in Good PROVE i \in Good
    <3>0. i \in Nat /\ i \in 0 .. n /\ s[i] \in Seq(S)
      BY <1>0
    <3>1. g[i] = g[i - 1] \o s[i] /\ g[0] = <<>>
      BY DEF Joins
    <3>2. CASE i = 1
      <4>1. f0[1] = s[1]
        BY <2>4, <3>2
      <4>2. i - 1 = 0
        BY <3>2
      <4>3. g[i] = <<>> \o s[i]
        BY <3>1, <4>2
      <4> QED
        BY <3>0, <3>2, <4>1, <4>3, ConcatEmptySeq
    <3>3. CASE i # 1
      <4>1. f0[i] = f0[i - 1] \o s[i]
        BY <2>4, <3>3
      <4>2. f0[i - 1] = g[i - 1]
        BY <2>6, <3>0, <3>3
      <4> QED
        BY <3>0, <3>1, <4>1, <4>2
    <3> QED
      BY <3>2, <3>3
  <2>7. n \in Good
    <3>1. \A i \in 1 .. n : i - 1 \in Good => i \in Good
      BY <2>6
    <3> HIDE DEF Good, n
    <3>2. \A i \in 0 .. n : i \in Good
      BY <1>0, <2>5, <3>1, Stepwise
    <3> QED
      BY <1>0, <3>2
  <2> QED
    BY <1>2, <2>1, <2>7
<1> QED
  BY <1>1, <1>2

LEMMA FlattenType ==
  ASSUME NEW S, NEW s \in Seq(Seq(S))
  PROVE  FlattenSeq(s) \in Seq(S)
  BY JoinsExists, FlattenJoins, LenProperties

\* Sequences of one element each.
LEMMA FlattenOnes ==
  ASSUME NEW S, NEW s \in Seq(Seq(S)), NEW t \in Seq(S), Len(t) = Len(s),
         \A i \in 1 .. Len(s) : s[i] = <<t[i]>>
  PROVE  FlattenSeq(s) = t
<1> DEFINE n == Len(s)
<1>1. PICK g \in [0 .. n -> Seq(S)] : Joins(g, s)
  BY JoinsExists
<1>2. FlattenSeq(s) = g[n]
  BY <1>1, FlattenJoins
<1>0. n \in Nat /\ \A i \in 1 .. n : t[i] \in S
  BY ElementOfSeq, LenProperties
<1> DEFINE Good == {i \in 0 .. n : Len(g[i]) = i /\ \A k \in 1 .. i : g[i][k] = t[k]}
<1>3. 0 \in Good
  BY <1>0, <1>1, EmptySeq DEF Joins
<1>4. ASSUME NEW i \in 1 .. n, i - 1 \in Good PROVE i \in Good
  <2>1. i \in 0 .. n /\ i - 1 \in 0 .. n /\ g[i - 1] \in Seq(S) /\ t[i] \in S
    BY <1>0
  <2>2. g[i] = g[i - 1] \o <<t[i]>>
    BY <1>1 DEF Joins
  <2>3. g[i] = Append(g[i - 1], t[i])
    BY <2>1, <2>2, AppendIsConcat
  <2>4. /\ Len(g[i]) = Len(g[i - 1]) + 1
        /\ \A k \in 1 .. Len(g[i - 1]) : g[i][k] = g[i - 1][k]
        /\ g[i][Len(g[i - 1]) + 1] = t[i]
    BY <2>1, <2>3, AppendProperties
  <2>5. Len(g[i - 1]) = i - 1 /\ \A k \in 1 .. i - 1 : g[i - 1][k] = t[k]
    BY <1>4
  <2>6. (i - 1) + 1 = i
    BY <2>1
  <2>7. Len(g[i]) = i /\ g[i][i] = t[i]
    BY <2>4, <2>5, <2>6
  <2>8. ASSUME NEW k \in 1 .. i PROVE g[i][k] = t[k]
    <3>1. k = i \/ k \in 1 .. i - 1
      BY <2>1
    <3> QED
      BY <2>4, <2>5, <2>7, <3>1
  <2> QED
    BY <2>1, <2>7, <2>8
<1>5. n \in Good
  <2>1. \A i \in 1 .. n : i - 1 \in Good => i \in Good
    BY <1>4
  <2> HIDE DEF Good, n
  <2>2. \A i \in 0 .. n : i \in Good
    BY <1>0, <1>3, <2>1, Stepwise
  <2> QED
    BY <1>0, <2>2
<1>6. g[n] \in Seq(S) /\ Len(g[n]) = Len(t) /\ \A k \in 1 .. Len(g[n]) : g[n][k] = t[k]
  BY <1>0, <1>5
<1> QED
  BY <1>2, <1>6, SeqEqual

LEMMA FlattenRange ==
  ASSUME NEW S, NEW s \in Seq(Seq(S))
  PROVE  Range(FlattenSeq(s)) = UNION {Range(s[j]) : j \in 1 .. Len(s)}
<1> DEFINE n == Len(s)
<1>1. PICK g \in [0 .. n -> Seq(S)] : Joins(g, s)
  BY JoinsExists
<1>2. FlattenSeq(s) = g[n]
  BY <1>1, FlattenJoins
<1>0. n \in Nat /\ \A i \in 1 .. n : s[i] \in Seq(S)
  BY ElementOfSeq, LenProperties
<1> DEFINE Good == {i \in 0 .. n : Range(g[i]) = UNION {Range(s[j]) : j \in 1 .. i}}
<1>3. 0 \in Good
  <2>1. Range(<<>>) = {}
    BY DEF Range
  <2>2. 1 .. 0 = {}
    OBVIOUS
  <2> QED
    BY <1>0, <1>1, <2>1, <2>2 DEF Joins
<1>4. ASSUME NEW i \in 1 .. n, i - 1 \in Good PROVE i \in Good
  <2>0. i \in 0 .. n /\ i - 1 \in 0 .. n
    BY <1>0
  <2>1. i \in 0 .. n /\ i - 1 \in 0 .. n /\ g[i - 1] \in Seq(S) /\ s[i] \in Seq(S)
    BY <1>0, <2>0
  <2>2. g[i] = g[i - 1] \o s[i]
    BY <1>1 DEF Joins
  <2>3. Range(g[i]) = Range(g[i - 1]) \cup Range(s[i])
    BY <2>1, <2>2, RangeConcatenation
  <2>4. 1 .. i = (1 .. i - 1) \cup {i}
    BY <2>1
  <2>5. Range(g[i - 1]) = UNION {Range(s[j]) : j \in 1 .. i - 1}
    BY <1>4
  <2>6. Range(g[i]) = UNION {Range(s[j]) : j \in 1 .. i}
    BY <2>3, <2>4, <2>5, Zenon
  <2> QED
    BY <2>1, <2>6
<1>5. n \in Good
  <2>1. \A i \in 1 .. n : i - 1 \in Good => i \in Good
    BY <1>4
  <2> HIDE DEF Good, n
  <2>2. \A i \in 0 .. n : i \in Good
    BY <1>0, <1>3, <2>1, Stepwise
  <2> QED
    BY <1>0, <2>2
<1> QED
  BY <1>2, <1>5

\* Two sequences of sequences, of no element or of one each, that correspond.
Matched(a, b, S, T, R) ==
  /\ Len(a) = Len(b)
  /\ \A i \in 1 .. Len(a) :
        \/ a[i] = <<>> /\ b[i] = <<>>
        \/ \E x \in S, y \in T : a[i] = <<x>> /\ b[i] = <<y>> /\ <<x, y>> \in R

LEMMA FlattenPairs ==
  ASSUME NEW S, NEW T, NEW R, NEW a \in Seq(Seq(S)), NEW b \in Seq(Seq(T)),
         Matched(a, b, S, T, R)
  PROVE  /\ Len(FlattenSeq(a)) = Len(FlattenSeq(b))
         /\ \A k \in 1 .. Len(FlattenSeq(a)) : <<FlattenSeq(a)[k], FlattenSeq(b)[k]>> \in R
<1> DEFINE n == Len(a)
<1>1. PICK g \in [0 .. n -> Seq(S)] : Joins(g, a)
  BY JoinsExists
<1>2. PICK h \in [0 .. n -> Seq(T)] : Joins(h, b)
  BY JoinsExists DEF Matched
<1>3. FlattenSeq(a) = g[n] /\ FlattenSeq(b) = h[n]
  BY <1>1, <1>2, FlattenJoins DEF Matched
<1>0. n \in Nat /\ Len(b) = n
  BY LenProperties DEF Matched
<1> DEFINE Good == {i \in 0 .. n : /\ Len(g[i]) = Len(h[i])
                                   /\ \A k \in 1 .. Len(g[i]) : <<g[i][k], h[i][k]>> \in R}
<1>4. 0 \in Good
  BY <1>0, <1>1, <1>2, EmptySeq DEF Joins
<1>5. ASSUME NEW i \in 1 .. n, i - 1 \in Good PROVE i \in Good
  <2>0. i \in 0 .. n /\ i - 1 \in 0 .. n
    BY <1>0
  <2>1. i \in 0 .. n /\ i - 1 \in 0 .. n /\ g[i - 1] \in Seq(S) /\ h[i - 1] \in Seq(T)
    BY <2>0
  <2>2. g[i] = g[i - 1] \o a[i] /\ h[i] = h[i - 1] \o b[i]
    BY <1>0, <1>1, <1>2 DEF Joins
  <2>3. /\ Len(g[i - 1]) = Len(h[i - 1]) /\ Len(g[i - 1]) \in Nat
        /\ \A k \in 1 .. Len(g[i - 1]) : <<g[i - 1][k], h[i - 1][k]>> \in R
    BY <1>5, <2>1, LenProperties
  <2>4. CASE a[i] = <<>> /\ b[i] = <<>>
    <3>1. g[i] = g[i - 1] /\ h[i] = h[i - 1]
      BY <2>1, <2>2, <2>4, ConcatEmptySeq
    <3> QED
      BY <2>1, <2>3, <3>1
  <2>5. CASE \E x \in S, y \in T : a[i] = <<x>> /\ b[i] = <<y>> /\ <<x, y>> \in R
    <3>1. PICK x \in S, y \in T : a[i] = <<x>> /\ b[i] = <<y>> /\ <<x, y>> \in R
      BY <2>5
    <3>2. g[i] = Append(g[i - 1], x) /\ h[i] = Append(h[i - 1], y)
      BY <2>1, <2>2, <3>1, AppendIsConcat
    <3>3. /\ Len(g[i]) = Len(g[i - 1]) + 1
          /\ \A k \in 1 .. Len(g[i - 1]) : g[i][k] = g[i - 1][k]
          /\ g[i][Len(g[i - 1]) + 1] = x
      BY <2>1, <3>2, AppendProperties
    <3>4. /\ Len(h[i]) = Len(h[i - 1]) + 1
          /\ \A k \in 1 .. Len(h[i - 1]) : h[i][k] = h[i - 1][k]
          /\ h[i][Len(h[i - 1]) + 1] = y
      BY <2>1, <3>2, AppendProperties
    <3>5. ASSUME NEW k \in 1 .. Len(g[i]) PROVE <<g[i][k], h[i][k]>> \in R
      <4>1. k = Len(g[i - 1]) + 1 \/ k \in 1 .. Len(g[i - 1])
        BY <2>3, <3>3
      <4> QED
        BY <2>3, <3>1, <3>3, <3>4, <4>1
    <3> QED
      BY <2>1, <2>3, <3>3, <3>4, <3>5
  <2> QED
    BY <2>4, <2>5 DEF Matched
<1>6. n \in Good
  <2>1. \A i \in 1 .. n : i - 1 \in Good => i \in Good
    BY <1>5
  <2> HIDE DEF Good, n
  <2>2. \A i \in 0 .. n : i \in Good
    BY <1>0, <1>4, <2>1, Stepwise
  <2> QED
    BY <1>0, <2>2
<1> QED
  BY <1>3, <1>6

LEMMA FunctionIsSeq ==
  ASSUME NEW S, NEW n \in Nat, NEW f \in [1 .. n -> S]
  PROVE  f \in Seq(S) /\ Len(f) = n
<1>1. f \in Seq(S)
  BY SeqDef
<1>2. Len(f) \in Nat /\ 1 .. Len(f) = 1 .. n
  BY <1>1, LenProperties
<1> QED
  BY <1>1, <1>2

-----------------------------------------------------------------------------
(* Rules that are written and read.                                        *)

LEMMA ConditionType ==
  ASSUME NEW c \in Conditions
  PROVE  buildRequestConditionExpr(c) \in Seq(Tests)
<1>1. "plain" \in Tests /\ "exists" \in Tests /\ "compare" \in Tests
  BY DEF Tests
<1>2. <<>> \in Seq(Tests) /\ <<"exists", "compare">> \in Seq(Tests)
      /\ <<"plain">> \in Seq(Tests) /\ <<"exists">> \in Seq(Tests)
  BY <1>1
<1> QED
  BY <1>2 DEF Conditions, buildRequestConditionExpr

\* The tests of each condition of a group.
TestsOf(g) == [i \in 1 .. Len(g.conditions) |-> buildRequestConditionExpr(g.conditions[i])]

LEMMA TestsOfType ==
  ASSUME NEW g \in RuleGroup
  PROVE  TestsOf(g) \in Seq(Seq(Tests)) /\ Len(TestsOf(g)) = Len(g.conditions)
         /\ \A i \in 1 .. Len(g.conditions) :
              TestsOf(g)[i] = buildRequestConditionExpr(g.conditions[i])
<1>1. Len(g.conditions) \in Nat /\ \A i \in 1 .. Len(g.conditions) : g.conditions[i] \in Conditions
  <2>1. g.conditions \in Seq(Conditions)
    BY DEF RuleGroup
  <2> QED
    BY <2>1, LenProperties, ElementOfSeq
<1>2. TestsOf(g) \in [1 .. Len(g.conditions) -> Seq(Tests)]
  BY <1>1, ConditionType DEF TestsOf
<1> QED
  BY <1>1, <1>2, FunctionIsSeq DEF TestsOf

LEMMA FactorIs ==
  ASSUME NEW g \in RuleGroup
  PROVE  /\ buildRuleGroupFactor(g) = IF g.multiplier THEN FlattenSeq(TestsOf(g)) ELSE <<>>
         /\ buildRuleGroupFactor(g) \in Seq(Tests)
<1>1. FlattenSeq(TestsOf(g)) \in Seq(Tests) /\ <<>> \in Seq(Tests)
  BY TestsOfType, FlattenType, EmptySeq
<1>2. buildRuleGroupFactor(g) = IF g.multiplier THEN FlattenSeq(TestsOf(g)) ELSE <<>>
  BY DEF buildRuleGroupFactor, TestsOf
<1> QED
  BY <1>1, <1>2

Factors == Seq(Tests) \ {<<>>}

\* The factor each group is written as, if any.
FactorsOf(gs) ==
  [i \in 1 .. Len(gs) |-> IfAny(buildRuleGroupFactor(gs[i]), buildRuleGroupFactor(gs[i]))]

LEMMA FactorsOfType ==
  ASSUME NEW gs \in Seq(RuleGroup)
  PROVE  /\ FactorsOf(gs) \in Seq(Seq(Factors)) /\ Len(FactorsOf(gs)) = Len(gs)
         /\ \A i \in 1 .. Len(gs) : /\ gs[i] \in RuleGroup
                                    /\ FactorsOf(gs)[i] = IfAny(buildRuleGroupFactor(gs[i]),
                                                                buildRuleGroupFactor(gs[i]))
<1>1. Len(gs) \in Nat /\ \A i \in 1 .. Len(gs) : gs[i] \in RuleGroup
  BY LenProperties, ElementOfSeq
<1>2. ASSUME NEW i \in 1 .. Len(gs)
      PROVE  IfAny(buildRuleGroupFactor(gs[i]), buildRuleGroupFactor(gs[i])) \in Seq(Factors)
  <2>1. buildRuleGroupFactor(gs[i]) \in Seq(Tests)
    BY <1>1, FactorIs
  <2>2. <<>> \in Seq(Factors)
    BY EmptySeq
  <2>3. ASSUME NEW f \in Factors PROVE <<f>> \in Seq(Factors)
    OBVIOUS
  <2> QED
    BY <2>1, <2>2, <2>3 DEF IfAny, Factors
<1>3. FactorsOf(gs) \in [1 .. Len(gs) -> Seq(Factors)]
  BY <1>2 DEF FactorsOf
<1> QED
  BY <1>1, <1>3, FunctionIsSeq DEF FactorsOf

LEMMA BuildType ==
  ASSUME NEW gs \in Seq(RuleGroup)
  PROVE  /\ buildRequestRuleExpr(gs) = FlattenSeq(FactorsOf(gs))
         /\ buildRequestRuleExpr(gs) \in Rules
<1>1. buildRequestRuleExpr(gs) = FlattenSeq(FactorsOf(gs))
  BY DEF buildRequestRuleExpr, FactorsOf
<1> QED
  BY <1>1, FactorsOfType, FlattenType DEF Rules, Factors

LEMMA BuildNothing == buildRequestRuleExpr(<<>>) = <<>>
<1>1. <<>> \in Seq(RuleGroup) /\ Len(<<>>) = 0
  BY EmptySeq
<1>2. FactorsOf(<<>>) \in Seq(Seq(Factors)) /\ Len(FactorsOf(<<>>)) = 0
  BY <1>1, FactorsOfType
<1>3. FactorsOf(<<>>) = <<>>
  BY <1>2, EmptySeq
<1>4. FlattenSeq(<<>>) = <<>>
  BY <1>1 DEF FlattenSeq
<1> QED
  BY <1>1, <1>3, <1>4, BuildType

Readables == {"plain", "exists"}

\* The conditions a factor is read as.
Read(f) == FlattenSeq([k \in 1 .. Len(f) |-> tryParseRequestCondition(f[k])])

\* A factor that can be read is read as the tests it consists of.
LEMMA ReadFactor ==
  ASSUME NEW f \in Seq(Tests), tryParseRuleGroupFactor(f)
  PROVE  f \in Seq(Readables) /\ Read(f) = f
<1> DEFINE s == [k \in 1 .. Len(f) |-> tryParseRequestCondition(f[k])]
<1>1. Len(f) \in Nat /\ f \in [1 .. Len(f) -> Tests]
  BY LenProperties
<1>2. \A k \in 1 .. Len(f) : f[k] \in Readables /\ tryParseRequestCondition(f[k]) = <<f[k]>>
  BY DEF tryParseRuleGroupFactor, tryParseRequestCondition, Readables
<1>3. f \in [1 .. Len(f) -> Readables]
  BY <1>1, <1>2
<1>4. f \in Seq(Readables)
  BY <1>1, <1>3, FunctionIsSeq
<1>5. ASSUME NEW x \in Readables PROVE <<x>> \in Seq(Readables)
  OBVIOUS
<1>6. s \in [1 .. Len(f) -> Seq(Readables)]
  BY <1>2, <1>5
<1>7. s \in Seq(Seq(Readables)) /\ Len(s) = Len(f)
  BY <1>1, <1>6, FunctionIsSeq
<1>8. \A k \in 1 .. Len(s) : s[k] = <<f[k]>>
  BY <1>2, <1>7
<1>9. Read(f) = FlattenSeq(s)
  BY DEF Read
<1> HIDE DEF s
<1> QED
  BY <1>4, <1>7, <1>8, <1>9, FlattenOnes

LEMMA ParseIs ==
  ASSUME NEW rule \in Rules
  PROVE  /\ ~ canUseVisualRules(rule) => tryParseRequestRuleExpr(rule) = <<>>
         /\ tryParseRequestRuleExpr(rule) \in Seq(RuleGroup)
         /\ canUseVisualRules(rule) =>
              /\ Len(tryParseRequestRuleExpr(rule)) = Len(rule)
              /\ \A i \in 1 .. Len(rule) :
                   /\ rule[i] \in Factors /\ rule[i] \in Seq(Readables)
                   /\ tryParseRequestRuleExpr(rule)[i]
                        = [multiplier |-> TRUE, conditions |-> rule[i]]
<1>1. ~ canUseVisualRules(rule) => tryParseRequestRuleExpr(rule) = <<>>
  BY DEF tryParseRequestRuleExpr
<1>2. <<>> \in Seq(RuleGroup)
  BY EmptySeq
<1>3. CASE canUseVisualRules(rule)
  <2>1. Len(rule) \in Nat /\ \A i \in 1 .. Len(rule) : rule[i] \in Factors
    BY LenProperties, ElementOfSeq DEF Rules, Factors
  <2>2. \A i \in 1 .. Len(rule) : rule[i] \in Seq(Readables) /\ Read(rule[i]) = rule[i]
    BY <1>3, <2>1, ReadFactor DEF canUseVisualRules, Factors
  <2>3. tryParseRequestRuleExpr(rule)
          = [i \in 1 .. Len(rule) |-> [multiplier |-> TRUE, conditions |-> Read(rule[i])]]
    BY <1>3 DEF tryParseRequestRuleExpr, Read
  <2>4. \A i \in 1 .. Len(rule) :
          tryParseRequestRuleExpr(rule)[i] = [multiplier |-> TRUE, conditions |-> rule[i]]
    BY <2>2, <2>3
  <2>5. ASSUME NEW i \in 1 .. Len(rule)
        PROVE  [multiplier |-> TRUE, conditions |-> Read(rule[i])] \in RuleGroup
    <3>1. Readables \subseteq Conditions
      BY DEF Readables, Conditions
    <3>2. rule[i] \in Seq(Conditions)
      BY <2>2, <3>1, SeqMonotonic
    <3> QED
      BY <2>2, <3>2 DEF RuleGroup
  <2>6. tryParseRequestRuleExpr(rule) \in [1 .. Len(rule) -> RuleGroup]
    BY <2>3, <2>5
  <2> QED
    BY <1>3, <2>1, <2>2, <2>4, <2>6, FunctionIsSeq
<1> QED
  BY <1>1, <1>2, <1>3

\* A group whose conditions are tests that can be read is written as them.
LEMMA FactorOfReadable ==
  ASSUME NEW f \in Seq(Readables)
  PROVE  /\ [multiplier |-> TRUE, conditions |-> f] \in RuleGroup
         /\ buildRuleGroupFactor([multiplier |-> TRUE, conditions |-> f]) = f
<1> DEFINE g == [multiplier |-> TRUE, conditions |-> f]
<1>1. Readables \subseteq Conditions /\ Readables \subseteq Tests
  BY DEF Readables, Conditions, Tests
<1>2. f \in Seq(Conditions) /\ f \in Seq(Tests)
  BY <1>1, SeqMonotonic
<1>3. g \in RuleGroup /\ g.multiplier /\ g.conditions = f
  BY <1>2 DEF RuleGroup
<1>4. \A k \in 1 .. Len(f) : f[k] \in Readables
  BY ElementOfSeq
<1>5. \A c \in Readables : buildRequestConditionExpr(c) = <<c>>
  BY DEF Readables, buildRequestConditionExpr
<1> HIDE DEF g
<1>6. /\ TestsOf(g) \in Seq(Seq(Tests)) /\ Len(TestsOf(g)) = Len(f)
      /\ \A k \in 1 .. Len(f) : TestsOf(g)[k] = <<f[k]>>
  BY <1>3, <1>4, <1>5, TestsOfType
<1>7. FlattenSeq(TestsOf(g)) = f
  BY <1>2, <1>6, FlattenOnes
<1>8. buildRuleGroupFactor(g) = f
  BY <1>3, <1>7, FactorIs
<1> QED
  BY <1>3, <1>8 DEF g

\* Rules that can be read are written again as they were.
LEMMA ReadBack ==
  ASSUME NEW rule \in Rules, canUseVisualRules(rule)
  PROVE  buildRequestRuleExpr(tryParseRequestRuleExpr(rule)) = rule
<1> DEFINE gs == tryParseRequestRuleExpr(rule)
<1>1. /\ gs \in Seq(RuleGroup) /\ Len(gs) = Len(rule)
      /\ \A i \in 1 .. Len(rule) :
           /\ rule[i] \in Factors /\ rule[i] \in Seq(Readables)
           /\ gs[i] = [multiplier |-> TRUE, conditions |-> rule[i]]
  BY ParseIs
<1> HIDE DEF gs
<1>2. /\ FactorsOf(gs) \in Seq(Seq(Factors)) /\ Len(FactorsOf(gs)) = Len(rule)
      /\ \A i \in 1 .. Len(rule) : FactorsOf(gs)[i] = IfAny(buildRuleGroupFactor(gs[i]),
                                                            buildRuleGroupFactor(gs[i]))
  BY <1>1, FactorsOfType
<1>3. \A i \in 1 .. Len(rule) : buildRuleGroupFactor(gs[i]) = rule[i]
  BY <1>1, FactorOfReadable
<1>4. \A i \in 1 .. Len(rule) : FactorsOf(gs)[i] = <<rule[i]>>
  BY <1>1, <1>2, <1>3 DEF IfAny, Factors
<1>5. rule \in Seq(Factors)
  BY DEF Rules, Factors
<1>6. FlattenSeq(FactorsOf(gs)) = rule
  BY <1>2, <1>4, <1>5, FlattenOnes
<1> QED
  BY <1>1, <1>6, BuildType DEF gs

\* The tests of a group that is written at all are the ones it demands.
DemandOf(g) ==
  {t \in Tests : \E k \in 1 .. Len(g.conditions) :
      t \in Range(buildRequestConditionExpr(g.conditions[k]))}

LEMMA FactorDemands ==
  ASSUME NEW g \in RuleGroup, buildRuleGroupFactor(g) # <<>>
  PROVE  Range(buildRuleGroupFactor(g)) = DemandOf(g)
<1>1. buildRuleGroupFactor(g) = FlattenSeq(TestsOf(g))
  BY FactorIs
<1>2. /\ TestsOf(g) \in Seq(Seq(Tests)) /\ Len(TestsOf(g)) = Len(g.conditions)
      /\ \A i \in 1 .. Len(g.conditions) :
           TestsOf(g)[i] = buildRequestConditionExpr(g.conditions[i])
  BY TestsOfType
<1>3. Range(FlattenSeq(TestsOf(g))) = UNION {Range(TestsOf(g)[j]) : j \in 1 .. Len(g.conditions)}
  BY <1>2, FlattenRange
<1>4. \A j \in 1 .. Len(g.conditions) :
        Range(TestsOf(g)[j]) \subseteq Tests
  BY <1>2, ElementOfSeq, RangeOfSeq
<1> QED
  BY <1>1, <1>2, <1>3, <1>4 DEF DemandOf

\* Each group, if it is written at all.
WrittenOf(gs) == [i \in 1 .. Len(gs) |-> IfAny(buildRuleGroupFactor(gs[i]), gs[i])]

LEMMA Written ==
  ASSUME NEW gs \in Seq(RuleGroup)
  PROVE  /\ Effective(gs) \in Seq(RuleGroup)
         /\ Len(buildRequestRuleExpr(gs)) = Len(Effective(gs))
         /\ \A k \in 1 .. Len(Effective(gs)) :
              /\ buildRequestRuleExpr(gs)[k] = buildRuleGroupFactor(Effective(gs)[k])
              /\ buildRequestRuleExpr(gs)[k] # <<>>
<1> DEFINE a == FactorsOf(gs)
           b == WrittenOf(gs)
           R == {p \in Factors \X RuleGroup : p[1] = buildRuleGroupFactor(p[2])}
<1>1. /\ a \in Seq(Seq(Factors)) /\ Len(a) = Len(gs) /\ Len(gs) \in Nat
      /\ \A i \in 1 .. Len(gs) : /\ gs[i] \in RuleGroup
                                 /\ a[i] = IfAny(buildRuleGroupFactor(gs[i]),
                                                 buildRuleGroupFactor(gs[i]))
  BY FactorsOfType, LenProperties
<1>2. ASSUME NEW i \in 1 .. Len(gs) PROVE IfAny(buildRuleGroupFactor(gs[i]), gs[i]) \in Seq(RuleGroup)
  <2>1. <<>> \in Seq(RuleGroup)
    BY EmptySeq
  <2>2. ASSUME NEW g \in RuleGroup PROVE <<g>> \in Seq(RuleGroup)
    OBVIOUS
  <2> QED
    BY <1>1, <2>1, <2>2 DEF IfAny
<1>3. b \in [1 .. Len(gs) -> Seq(RuleGroup)]
  BY <1>2 DEF WrittenOf
<1>4. b \in Seq(Seq(RuleGroup)) /\ Len(b) = Len(gs)
  BY <1>1, <1>3, FunctionIsSeq
<1>5. \A i \in 1 .. Len(gs) : b[i] = IfAny(buildRuleGroupFactor(gs[i]), gs[i])
  BY DEF WrittenOf
<1> HIDE DEF a, b
<1>6. ASSUME NEW i \in 1 .. Len(a)
      PROVE  \/ a[i] = <<>> /\ b[i] = <<>>
             \/ \E x \in Factors, y \in RuleGroup : a[i] = <<x>> /\ b[i] = <<y>> /\ <<x, y>> \in R
  <2>1. CASE buildRuleGroupFactor(gs[i]) = <<>>
    BY <1>1, <1>5, <2>1 DEF IfAny
  <2>2. CASE buildRuleGroupFactor(gs[i]) # <<>>
    <3>1. buildRuleGroupFactor(gs[i]) \in Factors /\ gs[i] \in RuleGroup
      BY <1>1, <2>2, FactorIs DEF Factors
    <3>2. <<buildRuleGroupFactor(gs[i]), gs[i]>> \in R
      BY <3>1
    <3>3. a[i] = <<buildRuleGroupFactor(gs[i])>> /\ b[i] = <<gs[i]>>
      BY <1>1, <1>5, <2>2 DEF IfAny
    <3> HIDE DEF R
    <3> QED
      BY <3>1, <3>2, <3>3
  <2> QED
    BY <2>1, <2>2
<1>7. /\ Len(FlattenSeq(a)) = Len(FlattenSeq(b))
      /\ \A k \in 1 .. Len(FlattenSeq(a)) : <<FlattenSeq(a)[k], FlattenSeq(b)[k]>> \in R
  <2>1. Len(a) = Len(b)
    BY <1>1, <1>4
  <2>2. \A i \in 1 .. Len(a) :
          \/ a[i] = <<>> /\ b[i] = <<>>
          \/ \E x \in Factors, y \in RuleGroup : a[i] = <<x>> /\ b[i] = <<y>> /\ <<x, y>> \in R
    BY <1>6
  <2>3. a \in Seq(Seq(Factors)) /\ b \in Seq(Seq(RuleGroup))
    BY <1>1, <1>4
  <2> HIDE DEF R
  <2>4. Matched(a, b, Factors, RuleGroup, R)
    BY <2>1, <2>2 DEF Matched
  <2> QED
    BY <2>3, <2>4, FlattenPairs
<1>8. buildRequestRuleExpr(gs) = FlattenSeq(a) /\ Effective(gs) = FlattenSeq(b)
  BY BuildType DEF Effective, WrittenOf, a, b
<1>9. Effective(gs) \in Seq(RuleGroup)
  BY <1>4, <1>8, FlattenType
<1> QED
  BY <1>7, <1>8, <1>9 DEF Factors

LEMMA DemandsKept ==
  ASSUME NEW gs \in Seq(RuleGroup), canUseVisualRules(buildRequestRuleExpr(gs))
  PROVE  Demands(tryParseRequestRuleExpr(buildRequestRuleExpr(gs))) = Demands(Effective(gs))
<1> DEFINE rule == buildRequestRuleExpr(gs)
           back == tryParseRequestRuleExpr(rule)
           kept == Effective(gs)
<1>1. rule \in Rules
  BY BuildType
<1>2. /\ back \in Seq(RuleGroup) /\ Len(back) = Len(rule)
      /\ \A i \in 1 .. Len(rule) : /\ rule[i] \in Seq(Readables)
                                   /\ back[i] = [multiplier |-> TRUE, conditions |-> rule[i]]
  BY <1>1, ParseIs
<1>3. /\ kept \in Seq(RuleGroup) /\ Len(kept) = Len(rule)
      /\ \A k \in 1 .. Len(rule) : rule[k] = buildRuleGroupFactor(kept[k]) /\ rule[k] # <<>>
  BY Written
<1> HIDE DEF rule, back, kept
<1>4. ASSUME NEW i \in 1 .. Len(rule) PROVE DemandOf(back[i]) = DemandOf(kept[i])
  <2>1. back[i] \in RuleGroup /\ buildRuleGroupFactor(back[i]) = rule[i]
    BY <1>2, FactorOfReadable
  <2>2. kept[i] \in RuleGroup
    BY <1>3, ElementOfSeq
  <2> QED
    BY <1>3, <2>1, <2>2, FactorDemands
<1>5. /\ Demands(back) = [i \in 1 .. Len(rule) |-> DemandOf(back[i])]
      /\ Demands(kept) = [i \in 1 .. Len(rule) |-> DemandOf(kept[i])]
  BY <1>2, <1>3 DEF Demands, DemandOf
<1>6. Demands(back) = Demands(kept)
  BY <1>4, <1>5
<1> QED
  BY <1>6 DEF rule, back, kept

-----------------------------------------------------------------------------
(* Expressions.                                                            *)

LEMMA Constants ==
  /\ "" \notin Configs /\ ZeroPrice \notin Configs /\ NoConfig \notin Configs
  /\ Default \in Configs /\ ZeroPrice # "" /\ ZeroPrice # NoConfig /\ NoConfig # ""
  /\ "" \notin Loose /\ ZeroPrice \notin Loose /\ Configs \cap Loose = {}
  /\ ReadAs \in [Loose -> Configs] /\ Configs \subseteq Prices
  BY PriceEditorAssumption DEF ZeroPrice, NoConfig, Prices

LEMMA PriceType ==
  ASSUME NEW b \in Prices \cup {"", ZeroPrice}
  PROVE  Price(b) \in Exprs
<1>1. <<>> \in Seq(Rules \ {<<>>})
  BY EmptySeq
<1> QED
  BY <1>1 DEF Price, Exprs

LEMMA ExprFields ==
  ASSUME NEW e \in Exprs
  PROVE  /\ e = [base |-> e.base, layers |-> e.layers]
         /\ e.base \in Prices \cup {"", ZeroPrice}
         /\ e.layers \in Seq(Rules \ {<<>>})
         /\ e.base = "" => e.layers = <<>>
         /\ e # Empty <=> e.base # ""
<1>1. e \in [base : Prices \cup {"", ZeroPrice}, layers : Seq(Rules \ {<<>>})]
  BY DEF Exprs
<1>2. e.base = "" => e.layers = <<>>
  BY DEF Exprs
<1>3. e = [base |-> e.base, layers |-> e.layers]
  BY <1>1
<1>4. Empty = [base |-> "", layers |-> <<>>] /\ Empty.base = ""
  BY DEF Empty, Price
<1>5. e.base = "" => e = Empty
  BY <1>2, <1>3, <1>4
<1> QED
  BY <1>1, <1>2, <1>3, <1>4, <1>5

\* What an expression with a layer on top is taken apart into.
LEMMA TopLayer ==
  ASSUME NEW e \in Exprs, e.layers # <<>>
  PROVE  /\ Last(e.layers) \in Rules /\ Last(e.layers) # <<>>
         /\ [e EXCEPT !.layers = Front(@)] \in Exprs
         /\ [e EXCEPT !.layers = Front(@)].base = e.base /\ e.base # ""
         /\ [[e EXCEPT !.layers = Front(@)] EXCEPT !.layers = Append(@, Last(e.layers))] = e
         /\ Len([e EXCEPT !.layers = Front(@)].layers) = Len(e.layers) - 1
<1> DEFINE ls == e.layers
           L == Rules \ {<<>>}
<1>1. ls \in Seq(L) /\ e.base # ""
  BY ExprFields
<1>2. PICK s \in Seq(L), l \in L : ls = Append(s, l)
  BY <1>1, SequenceEmptyOrAppend
<1> HIDE DEF ls, L
<1>3. /\ Len(ls) = Len(s) + 1 /\ Len(s) \in Nat
      /\ \A i \in 1 .. Len(s) : ls[i] = s[i] /\ s[i] \in L
      /\ ls[Len(s) + 1] = l
  BY <1>2, AppendProperties, LenProperties, ElementOfSeq
<1>4. Last(ls) = l
  BY <1>3 DEF Last
<1>5. Front(ls) = s
  <2>1. Front(ls) = SubSeq(ls, 1, Len(s))
    BY <1>3 DEF Front
  <2>2. \A i \in 1 .. Len(s) : ls[i] \in L
    BY <1>3
  <2>3. /\ SubSeq(ls, 1, Len(s)) \in Seq(L)
        /\ Len(SubSeq(ls, 1, Len(s))) = IF 1 <= Len(s) THEN Len(s) - 1 + 1 ELSE 0
        /\ \A i \in 1 .. Len(s) - 1 + 1 : SubSeq(ls, 1, Len(s))[i] = ls[1 + i - 1]
    BY <1>3, <2>2, SubSeqProperties
  <2>4. Len(SubSeq(ls, 1, Len(s))) = Len(s)
    BY <1>3, <2>3
  <2>5. ASSUME NEW i \in 1 .. Len(s) PROVE SubSeq(ls, 1, Len(s))[i] = s[i]
    <3>1. i \in 1 .. Len(s) - 1 + 1 /\ 1 + i - 1 = i
      BY <1>3
    <3> QED
      BY <1>3, <2>3, <3>1
  <2> QED
    BY <2>1, <2>3, <2>4, <2>5, SeqEqual
<1> DEFINE b == e.base
<1>6. e = [base |-> b, layers |-> ls] /\ b \in Prices \cup {"", ZeroPrice}
  BY ExprFields DEF ls
<1> HIDE DEF b
<1>7. [e EXCEPT !.layers = Front(@)] = [base |-> b, layers |-> s]
  <2>1. e.layers = ls
    BY DEF ls
  <2>2. [[base |-> b, layers |-> ls] EXCEPT !.layers = s] = [base |-> b, layers |-> s]
    OBVIOUS
  <2> QED
    BY <1>5, <1>6, <2>1, <2>2, Zenon
<1>8. [base |-> b, layers |-> s] \in Exprs
  BY <1>1, <1>6 DEF Exprs, L, b
<1>9. [[base |-> b, layers |-> s] EXCEPT !.layers = Append(@, l)] = e
  <2>1. [base |-> b, layers |-> s].layers = s
    OBVIOUS
  <2>2. [[base |-> b, layers |-> s] EXCEPT !.layers = ls] = [base |-> b, layers |-> ls]
    OBVIOUS
  <2> QED
    BY <1>2, <1>6, <2>1, <2>2, Zenon
<1>10. l \in Rules /\ l # <<>>
  BY DEF L
<1>11. /\ [base |-> b, layers |-> s].base = b
       /\ [base |-> b, layers |-> s].layers = s
       /\ Len(s) = Len(ls) - 1
  BY <1>3
<1>12. b = e.base /\ ls = e.layers
  BY DEF ls, b
<1> QED
  BY <1>1, <1>4, <1>7, <1>8, <1>9, <1>10, <1>11, <1>12, Zenon

LEMMA SplitIs ==
  ASSUME NEW e \in Exprs
  PROVE  /\ splitBillingExprAndRequestRules(e) \in [billingExpr : Exprs, requestRuleExpr : Rules]
         /\ canUseVisualRules(splitBillingExprAndRequestRules(e).requestRuleExpr)
         /\ combineBillingExpr(splitBillingExprAndRequestRules(e).billingExpr,
                               splitBillingExprAndRequestRules(e).requestRuleExpr) = e
         /\ splitBillingExprAndRequestRules(e).billingExpr = Empty => e = Empty
<1>1. <<>> \in Rules /\ canUseVisualRules(<<>>)
  BY EmptySeq DEF Rules, canUseVisualRules
<1>2. CASE e.layers # <<>> /\ canUseVisualRules(Last(e.layers))
  BY <1>2, TopLayer, ExprFields DEF splitBillingExprAndRequestRules, combineBillingExpr
<1>3. CASE ~ (e.layers # <<>> /\ canUseVisualRules(Last(e.layers)))
  BY <1>1, <1>3 DEF splitBillingExprAndRequestRules, combineBillingExpr
<1> QED
  BY <1>2, <1>3

LEMMA CombineIs ==
  ASSUME NEW e \in Exprs, NEW rule \in Rules
  PROVE  /\ combineBillingExpr(e, rule) \in Exprs
         /\ rule = <<>> => combineBillingExpr(e, rule) = e
         /\ combineBillingExpr(e, rule) = Empty <=> e = Empty
         /\ combineBillingExpr(e, rule).base = e.base
         /\ e # Empty /\ rule # <<>> =>
              /\ canUseVisualRules(rule) =>
                   splitBillingExprAndRequestRules(combineBillingExpr(e, rule))
                     = [billingExpr |-> e, requestRuleExpr |-> rule]
              /\ ~ canUseVisualRules(rule) =>
                   splitBillingExprAndRequestRules(combineBillingExpr(e, rule))
                     = [billingExpr |-> combineBillingExpr(e, rule), requestRuleExpr |-> <<>>]
              /\ Len(combineBillingExpr(e, rule).layers) = Len(e.layers) + 1
              /\ Last(combineBillingExpr(e, rule).layers) = rule
<1>1. CASE e = Empty \/ rule = <<>>
  BY <1>1 DEF combineBillingExpr
<1>2. CASE e # Empty /\ rule # <<>>
  <2> DEFINE L == Rules \ {<<>>}
             b == e.base
             ls == e.layers
             c == [base |-> b, layers |-> Append(ls, rule)]
  <2>1. /\ e = [base |-> b, layers |-> ls] /\ ls \in Seq(L) /\ rule \in L
        /\ b # "" /\ b \in Prices \cup {"", ZeroPrice}
    BY <1>2, ExprFields
  <2>2. [e EXCEPT !.layers = Append(@, rule)] = [e EXCEPT !.layers = Append(ls, rule)]
    OBVIOUS
  <2>3. combineBillingExpr(e, rule) = [e EXCEPT !.layers = Append(ls, rule)]
    BY <1>2, <2>2 DEF combineBillingExpr
  <2> HIDE DEF L, b, ls
  <2>4. [[base |-> b, layers |-> ls] EXCEPT !.layers = Append(ls, rule)] = c
    OBVIOUS
  <2>5. combineBillingExpr(e, rule) = c
    BY <2>1, <2>3, <2>4, Zenon
  <2>6. /\ Append(ls, rule) \in Seq(L) /\ Append(ls, rule) # <<>>
        /\ Len(Append(ls, rule)) = Len(ls) + 1
        /\ Append(ls, rule)[Len(ls) + 1] = rule
    <3>1. ls \in Seq(L) /\ rule \in L
      BY <2>1
    <3> QED
      BY <3>1, AppendProperties
  <2>7. c \in Exprs /\ c.layers # <<>> /\ c.base = b /\ c.layers = Append(ls, rule)
    BY <2>1, <2>6 DEF Exprs, L
  <2>8. Last(c.layers) = rule
    BY <2>6, <2>7 DEF Last
  <2> HIDE DEF c
  <2>9. [c EXCEPT !.layers = Front(@)] = e
    <3> DEFINE f == [c EXCEPT !.layers = Front(@)]
    <3>1. /\ f \in Exprs /\ f.base = c.base
          /\ [f EXCEPT !.layers = Append(@, rule)] = c
      BY <2>7, <2>8, TopLayer
    <3> DEFINE fl == f.layers
    <3>2. [f EXCEPT !.layers = Append(@, rule)] = [f EXCEPT !.layers = Append(fl, rule)]
      OBVIOUS
    <3> HIDE DEF f
    <3>3. f = [base |-> b, layers |-> fl] /\ fl \in Seq(L)
      BY <2>7, <3>1, ExprFields DEF L
    <3> HIDE DEF fl
    <3>4. [[base |-> b, layers |-> fl] EXCEPT !.layers = Append(fl, rule)].layers
            = Append(fl, rule)
      OBVIOUS
    <3>5. Append(fl, rule) = Append(ls, rule)
      BY <2>7, <3>1, <3>2, <3>3, <3>4, Zenon
    <3>6. fl = ls
      <4>1. ls \in Seq(L) /\ rule \in L /\ fl \in Seq(L)
        BY <2>1, <3>3
      <4> QED
        BY <3>5, <4>1, AppendInjective
    <3>7. f = e
      BY <2>1, <3>3, <3>6
    <3> QED
      BY <3>7 DEF f
  <2>10. c # Empty
    <3>1. Empty.base = ""
      BY DEF Empty, Price
    <3> QED
      BY <2>1, <2>7, <3>1
  <2>11. /\ canUseVisualRules(rule) =>
               splitBillingExprAndRequestRules(c) = [billingExpr |-> e, requestRuleExpr |-> rule]
         /\ ~ canUseVisualRules(rule) =>
               splitBillingExprAndRequestRules(c) = [billingExpr |-> c, requestRuleExpr |-> <<>>]
    BY <2>7, <2>8, <2>9, Zenon DEF splitBillingExprAndRequestRules
  <2>12. b = e.base /\ ls = e.layers
    BY DEF b, ls
  <2> QED
    BY <1>2, <2>5, <2>6, <2>7, <2>8, <2>10, <2>11, <2>12, Zenon
<1> QED
  BY <1>1, <1>2

\* What the form can show is written and read without loss.
LEMMA GenerateIs ==
  ASSUME NEW c \in Configs \cup {NoConfig}
  PROVE  /\ generateExprFromVisualConfig(c) \in Exprs
         /\ generateExprFromVisualConfig(c) # Empty
         /\ tryParseVisualConfig(generateExprFromVisualConfig(c)) = c
         /\ splitBillingExprAndRequestRules(generateExprFromVisualConfig(c))
              = [billingExpr |-> generateExprFromVisualConfig(c), requestRuleExpr |-> <<>>]
         /\ c \in Configs => generateExprFromVisualConfig(c) = Price(c)
<1> DEFINE b == IF c = NoConfig THEN ZeroPrice ELSE c
           e == Price(b)
<1>1. generateExprFromVisualConfig(c) = e
  BY DEF generateExprFromVisualConfig
<1>2. b \in Configs \cup {ZeroPrice} /\ b # ""
  BY Constants
<1>3. (b \in Configs <=> c # NoConfig) /\ (c # NoConfig => b = c)
  BY Constants
<1> HIDE DEF b
<1>10. b \notin Loose /\ b \in Prices \cup {"", ZeroPrice}
  BY <1>2, Constants
<1>4. e.base = b /\ e.layers = <<>>
  BY DEF Price
<1>5. e \in Exprs
  BY <1>10, PriceType
<1> HIDE DEF e
<1>6. e # Empty
  BY <1>2, <1>4, <1>5, ExprFields
<1>7. tryParseVisualConfig(e) = c
  BY <1>3, <1>4, <1>10 DEF tryParseVisualConfig
<1>8. splitBillingExprAndRequestRules(e) = [billingExpr |-> e, requestRuleExpr |-> <<>>]
  BY <1>4 DEF splitBillingExprAndRequestRules
<1>9. c \in Configs => e = Price(c)
  BY <1>3, Constants DEF e
<1> QED
  BY <1>1, <1>5, <1>6, <1>7, <1>8, <1>9

LEMMA ParseVisualIs ==
  ASSUME NEW e \in Exprs
  PROVE  /\ tryParseVisualConfig(e) \in Configs \cup {NoConfig}
         /\ tryParseVisualConfig(e) # NoConfig =>
              /\ tryParseVisualConfig(e) \in Configs
              /\ e.base \in Configs =>
                   e = generateExprFromVisualConfig(tryParseVisualConfig(e))
<1>1. CASE e.layers = <<>> /\ e.base \in Configs
  <2>1. tryParseVisualConfig(e) = e.base /\ e.base # NoConfig
    BY <1>1, Constants DEF tryParseVisualConfig
  <2>2. e = Price(e.base)
    BY <1>1, ExprFields DEF Price
  <2>3. generateExprFromVisualConfig(e.base) = Price(e.base)
    BY <1>1, GenerateIs
  <2> QED
    BY <1>1, <2>1, <2>2, <2>3
<1>2. CASE e.layers = <<>> /\ e.base \in Loose
  <2>1. tryParseVisualConfig(e) = ReadAs[e.base] /\ e.base \notin Configs
    BY <1>2, Constants DEF tryParseVisualConfig
  <2>2. ReadAs[e.base] \in Configs
    BY <1>2, Constants
  <2> QED
    BY <2>1, <2>2
<1>3. CASE e.layers # <<>> \/ e.base \notin Configs \cup Loose
  BY <1>3 DEF tryParseVisualConfig
<1> QED
  BY <1>1, <1>2, <1>3

LEMMA EmptyIs ==
  /\ Empty \in Exprs /\ <<>> \in Rules /\ <<>> \in Seq(RuleGroup)
  /\ splitBillingExprAndRequestRules(Empty) = [billingExpr |-> Empty, requestRuleExpr |-> <<>>]
  /\ canUseVisualRules(<<>>) /\ tryParseRequestRuleExpr(<<>>) = <<>>
<1>1. Empty \in Exprs /\ Empty.layers = <<>>
  BY PriceType DEF Empty, Price
<1>2. <<>> \in Rules /\ <<>> \in Seq(RuleGroup) /\ Len(<<>>) = 0
  BY EmptySeq DEF Rules
<1>3. canUseVisualRules(<<>>)
  BY <1>2 DEF canUseVisualRules
<1>4. Len(tryParseRequestRuleExpr(<<>>)) = 0 /\ tryParseRequestRuleExpr(<<>>) \in Seq(RuleGroup)
  BY <1>2, <1>3, ParseIs
<1>5. tryParseRequestRuleExpr(<<>>) = <<>>
  BY <1>4, EmptySeq
<1> QED
  BY <1>1, <1>2, <1>3, <1>5 DEF splitBillingExprAndRequestRules

-----------------------------------------------------------------------------
(* The invariant of the effects.                                           *)

Tiered == pricingMode = "tiered_expr"

\* There is something to run only while the editor is there.
TypeInv == TypeOK /\ (settled \/ Tiered)

WholeInv == Whole(stored) /\ Whole(editor.rawExpr) /\ RuleOf(panel.billingExpr) = <<>>

\* At rest the panel has what the editor reports, and the form has a price.
RestInv ==
    settled /\ Tiered =>
        /\ panel = reported(editor, panel) /\ seen = panel
        /\ editor.mode = "visual" => editor.config # NoConfig

\* In raw mode the rules beside the text are the text's.
RawInv ==
    editor.mode = "raw" /\ canUseVisualRules(panel.requestRuleExpr) =>
        editor.rawExpr = Empty \/ panel.requestRuleExpr = RuleOf(editor.rawExpr)

\* The form has no price only until the first effect has run.
FreshInv ==
    editor.mode = "visual" /\ editor.config = NoConfig =>
        /\ editor.groups = tryParseRequestRuleExpr(panel.requestRuleExpr)
        /\ ~ initRef /\ seen # panel

\* When the first effect is about to change to raw mode, the form's rules are
\* the panel's.
SwitchInv ==
    /\ editor.mode = "visual" /\ ~ initRef /\ seen # panel
    /\ tryParseVisualConfig(panel.billingExpr) = NoConfig /\ panel.billingExpr # Empty
    => \/ buildRequestRuleExpr(editor.groups) = panel.requestRuleExpr
       \/ editor.groups = tryParseRequestRuleExpr(panel.requestRuleExpr)

EditorInv == TypeInv /\ WholeInv /\ RestInv /\ RawInv /\ FreshInv /\ SwitchInv

\* The editor shows the price the user has set.
EditorRight ==
    \/ /\ editor.mode = "visual"
       /\ generateExprFromVisualConfig(editor.config) = BaseOf(intended)
       /\ buildRequestRuleExpr(editor.groups) = RuleOf(intended)
    \/ /\ editor.mode = "raw"
       /\ editor.rawExpr = intended /\ panel.requestRuleExpr = RuleOf(intended)

PanelRight == panel = splitBillingExprAndRequestRules(intended)

\* If the editor may not lose the price, it shows it, and the panel has it or
\* will be given it before the first effect can run.
KeptInv ==
    ~ exempt =>
        /\ Tiered => Readable(intended) /\ EditorRight /\ (PanelRight \/ initRef \/ seen = panel)
        /\ ~ Tiered /\ panel.billingExpr # Empty => Readable(intended) /\ PanelRight

-----------------------------------------------------------------------------
(* Types.                                                                  *)

Panels == [billingExpr : Exprs, requestRuleExpr : Rules]
Editors == [mode : {"visual", "raw"}, config : Configs \cup {NoConfig},
            rawExpr : Exprs, groups : Seq(RuleGroup)]

LEMMA TypeParts ==
  ASSUME TypeInv
  PROVE  /\ panel \in Panels /\ panel.billingExpr \in Exprs /\ panel.requestRuleExpr \in Rules
         /\ panel = [billingExpr |-> panel.billingExpr, requestRuleExpr |-> panel.requestRuleExpr]
         /\ stored \in Exprs /\ intended \in Exprs
         /\ editor.config \in Configs \cup {NoConfig} /\ editor.rawExpr \in Exprs
         /\ editor.groups \in Seq(RuleGroup)
         /\ Tiered => editor \in Editors /\ editor.mode \in {"visual", "raw"}
         /\ ~ Tiered => settled /\ editor.mode = "none"
  BY DEF TypeInv, TypeOK, Tiered, Panels, Editors

\* What the effects make of the editor and the panel.
LEMMA InitializeType ==
  ASSUME NEW ed \in Editors, NEW p \in Panels
  PROVE  initialize(ed, p) \in Editors
<1>1. p.billingExpr \in Exprs /\ p.requestRuleExpr \in Rules
  BY DEF Panels
<1>2. tryParseVisualConfig(p.billingExpr) \in Configs \cup {NoConfig}
  BY <1>1, ParseVisualIs
<1>3. combineBillingExpr(p.billingExpr, p.requestRuleExpr) \in Exprs
  BY <1>1, CombineIs
<1>4. tryParseRequestRuleExpr(p.requestRuleExpr) \in Seq(RuleGroup)
  BY <1>1, ParseIs
<1> QED
  BY <1>2, <1>3, <1>4, Constants DEF initialize, Editors, createDefaultVisualConfig

LEMMA ReportedType ==
  ASSUME NEW ed \in Editors, NEW p \in Panels
  PROVE  reported(ed, p) \in Panels
<1>1. p.requestRuleExpr \in Rules /\ buildRequestRuleExpr(ed.groups) \in Rules
  BY BuildType DEF Panels, Editors
<1>2. generateExprFromVisualConfig(ed.config) \in Exprs
  BY GenerateIs DEF Editors
<1>3. splitBillingExprAndRequestRules(ed.rawExpr).billingExpr \in Exprs
  BY SplitIs DEF Editors
<1> QED
  BY <1>1, <1>2, <1>3 DEF reported, effectiveExpr, Panels

LEMMA MountType ==
  ASSUME NEW p \in Panels
  PROVE  TieredPricingEditor(p) \in Editors
<1>1. p.billingExpr \in Exprs /\ p.requestRuleExpr \in Rules
  BY DEF Panels
<1>2. tryParseVisualConfig(p.billingExpr) \in Configs \cup {NoConfig}
  BY <1>1, ParseVisualIs
<1>3. combineBillingExpr(p.billingExpr, p.requestRuleExpr) \in Exprs
  BY <1>1, CombineIs
<1>4. tryParseRequestRuleExpr(p.requestRuleExpr) \in Seq(RuleGroup)
  BY <1>1, ParseIs
<1> QED
  BY <1>2, <1>3, <1>4 DEF TieredPricingEditor, Editors

\* The variables that only have a type.
RestOK ==
  /\ stored \in Exprs /\ intended \in Exprs
  /\ open \in BOOLEAN /\ isEdit \in BOOLEAN /\ named \in BOOLEAN
  /\ initRef \in BOOLEAN /\ renamed \in BOOLEAN /\ settled \in BOOLEAN
  /\ saves \in 0 .. MaxSaves /\ exempt \in BOOLEAN

LEMMA TypeFrom ==
  ASSUME RestOK', panel' \in Panels,
         \/ Tiered' /\ editor' \in Editors
         \/ pricingMode' = "other" /\ editor' = NoEditor /\ settled'
  PROVE  TypeInv'
<1>1. NoEditor \in [mode : {"none"}, config : Configs \cup {NoConfig},
                    rawExpr : Exprs, groups : Seq(RuleGroup)]
  BY EmptyIs DEF NoEditor
<1> QED
  BY <1>1 DEF RestOK, TypeInv, TypeOK, Tiered, Editors, Panels

LEMMA OtherTab ==
  ASSUME TypeInv
  PROVE  RestOK /\ (Tiered \/ pricingMode = "other")
  BY DEF TypeInv, TypeOK, RestOK, Tiered

LEMMA ReportedIs ==
  ASSUME NEW ed \in Editors, NEW p \in Panels
  PROVE  /\ ed.mode = "visual" =>
              reported(ed, p) = [billingExpr |-> generateExprFromVisualConfig(ed.config),
                                 requestRuleExpr |-> buildRequestRuleExpr(ed.groups)]
         /\ ed.mode = "raw" =>
              reported(ed, p) = [billingExpr |-> BaseOf(ed.rawExpr),
                                 requestRuleExpr |-> p.requestRuleExpr]
  BY DEF reported, effectiveExpr, BaseOf

LEMMA InitializeIs ==
  ASSUME NEW ed \in Editors, NEW p \in Panels
  PROVE  /\ initialize(ed, p).rawExpr = combineBillingExpr(p.billingExpr, p.requestRuleExpr)
         /\ initialize(ed, p).groups = tryParseRequestRuleExpr(p.requestRuleExpr)
         /\ initialize(ed, p).mode = "raw" =>
              /\ tryParseVisualConfig(p.billingExpr) = NoConfig
              /\ p.billingExpr # Empty \/ ed.mode = "raw"
         /\ initialize(ed, p).mode = "visual" => initialize(ed, p).config # NoConfig
         /\ tryParseVisualConfig(p.billingExpr) # NoConfig =>
              /\ initialize(ed, p).mode = "visual"
              /\ initialize(ed, p).config = tryParseVisualConfig(p.billingExpr)
<1> DEFINE parsed == tryParseVisualConfig(p.billingExpr)
           m == IF parsed # NoConfig THEN "visual"
                ELSE IF p.billingExpr # Empty THEN "raw" ELSE ed.mode
           c == IF parsed = NoConfig /\ p.billingExpr = Empty THEN Default ELSE parsed
           raw == combineBillingExpr(p.billingExpr, p.requestRuleExpr)
           gs == tryParseRequestRuleExpr(p.requestRuleExpr)
<1>1. initialize(ed, p) = [mode |-> m, config |-> c, rawExpr |-> raw, groups |-> gs]
  BY DEF initialize, createDefaultVisualConfig
<1>2. Default # NoConfig
  BY Constants
<1>3. /\ parsed # NoConfig => m = "visual"
      /\ parsed = NoConfig /\ p.billingExpr # Empty => m = "raw"
      /\ parsed = NoConfig /\ p.billingExpr = Empty => m = ed.mode
  <2> HIDE DEF parsed
  <2> QED
    OBVIOUS
<1>4. /\ parsed # NoConfig => c = parsed
      /\ parsed = NoConfig /\ p.billingExpr # Empty => c = parsed
      /\ parsed = NoConfig /\ p.billingExpr = Empty => c = Default
  <2> HIDE DEF parsed
  <2> QED
    OBVIOUS
<1>5. "visual" # "raw"
  OBVIOUS
<1> HIDE DEF m, c, raw, gs
<1>6. /\ initialize(ed, p).mode = m /\ initialize(ed, p).config = c
      /\ initialize(ed, p).rawExpr = raw /\ initialize(ed, p).groups = gs
  BY <1>1
<1> QED
  BY <1>2, <1>3, <1>4, <1>5, <1>6 DEF raw, gs, parsed

LEMMA MountIs ==
  ASSUME NEW p \in Panels
  PROVE  /\ TieredPricingEditor(p).mode = "visual"
         /\ TieredPricingEditor(p).config = tryParseVisualConfig(p.billingExpr)
         /\ TieredPricingEditor(p).rawExpr = combineBillingExpr(p.billingExpr, p.requestRuleExpr)
         /\ TieredPricingEditor(p).groups = tryParseRequestRuleExpr(p.requestRuleExpr)
  BY DEF TieredPricingEditor

LEMMA SplitParts ==
  ASSUME NEW e \in Exprs
  PROVE  /\ BaseOf(e) \in Exprs /\ RuleOf(e) \in Rules /\ canUseVisualRules(RuleOf(e))
         /\ combineBillingExpr(BaseOf(e), RuleOf(e)) = e
         /\ BaseOf(e) = Empty => e = Empty
         /\ RuleOf(e) = <<>> => BaseOf(e) = e
         /\ splitBillingExprAndRequestRules(e) \in Panels
         /\ splitBillingExprAndRequestRules(e)
              = [billingExpr |-> BaseOf(e), requestRuleExpr |-> RuleOf(e)]
<1>1. /\ splitBillingExprAndRequestRules(e) \in Panels
      /\ canUseVisualRules(RuleOf(e)) /\ combineBillingExpr(BaseOf(e), RuleOf(e)) = e
      /\ BaseOf(e) = Empty => e = Empty
  BY SplitIs DEF BaseOf, RuleOf, Panels
<1>2. BaseOf(e) \in Exprs /\ RuleOf(e) \in Rules
  BY <1>1 DEF BaseOf, RuleOf, Panels
<1>3. RuleOf(e) = <<>> => BaseOf(e) = e
  BY <1>1, <1>2, CombineIs
<1>4. splitBillingExprAndRequestRules(e)
        = [billingExpr |-> BaseOf(e), requestRuleExpr |-> RuleOf(e)]
  BY <1>1 DEF BaseOf, RuleOf, Panels
<1> QED
  BY <1>1, <1>2, <1>3, <1>4

\* Rules put on a price that has none on top can be told from it again.
LEMMA CombineWhole ==
  ASSUME NEW e \in Exprs, NEW rule \in Rules, RuleOf(e) = <<>>
  PROVE  /\ combineBillingExpr(e, rule) \in Exprs /\ Whole(combineBillingExpr(e, rule))
         /\ combineBillingExpr(e, rule) = Empty => e = Empty
         /\ e # Empty /\ canUseVisualRules(rule) =>
              /\ RuleOf(combineBillingExpr(e, rule)) = rule
              /\ BaseOf(combineBillingExpr(e, rule)) = e
         /\ ~ canUseVisualRules(rule) => RuleOf(combineBillingExpr(e, rule)) = <<>>
<1> DEFINE c == combineBillingExpr(e, rule)
<1>1. c \in Exprs /\ (c = Empty <=> e = Empty) /\ BaseOf(e) = e
  BY CombineIs, SplitParts
<1>2. RuleOf(Empty) = <<>> /\ BaseOf(Empty) = Empty /\ canUseVisualRules(<<>>)
  BY EmptyIs DEF RuleOf, BaseOf
<1>3. CASE e = Empty
  BY <1>1, <1>2, <1>3 DEF Whole
<1>4. CASE rule = <<>>
  <2>1. c = e
    BY <1>4, CombineIs
  <2> QED
    BY <1>1, <1>2, <1>4, <2>1 DEF Whole
<1>5. CASE e # Empty /\ rule # <<>>
  <2>1. CASE canUseVisualRules(rule)
    <3>1. BaseOf(c) = e /\ RuleOf(c) = rule
      BY <1>5, <2>1, CombineIs DEF BaseOf, RuleOf
    <3> QED
      BY <1>1, <2>1, <3>1 DEF Whole
  <2>2. CASE ~ canUseVisualRules(rule)
    <3>1. BaseOf(c) = c /\ RuleOf(c) = <<>>
      BY <1>5, <2>2, CombineIs DEF BaseOf, RuleOf
    <3> QED
      BY <1>1, <2>2, <3>1 DEF Whole
  <2> QED
    BY <2>1, <2>2
<1> QED
  BY <1>3, <1>4, <1>5

LEMMA GenerateWhole ==
  ASSUME NEW c \in Configs \cup {NoConfig}
  PROVE  RuleOf(generateExprFromVisualConfig(c)) = <<>>
  BY GenerateIs DEF RuleOf

\* No panel has been seen before mounting.
LEMMA UnseenIsNew == Unseen \notin Panels
<1>1. <<<<>>>> \notin Rules
  <2>1. ASSUME <<<<>>>> \in Rules PROVE FALSE
    <3>1. 1 \in 1 .. Len(<<<<>>>>)
      OBVIOUS
    <3>2. <<<<>>>>[1] \in Seq(Tests) \ {<<>>}
      BY <2>1, <3>1, ElementOfSeq DEF Rules
    <3> QED
      BY <3>2
  <2> QED
    BY <2>1
<1> QED
  BY <1>1 DEF Unseen, Panels

\* A render shows no editor, or a new one.
LEMMA RenderType ==
  ASSUME NEW mode \in {"tiered_expr", "other"}, NEW p \in Panels, Render(mode, p)
  PROVE  /\ panel' \in Panels
         /\ initRef' \in BOOLEAN /\ renamed' \in BOOLEAN /\ settled' \in BOOLEAN
         /\ \/ Tiered' /\ editor' \in Editors
            \/ pricingMode' = "other" /\ editor' = NoEditor /\ settled'
<1>1. CASE mode = "tiered_expr"
  BY <1>1, MountType DEF Render, Tiered
<1>2. CASE mode = "other"
  BY <1>2 DEF Render, Tiered
<1> QED
  BY <1>1, <1>2

\* An event in the editor leaves the rest of the page alone.
LEMMA ShowsType ==
  ASSUME TypeInv, Tiered, NEW ed \in Editors, NEW rule \in Rules, Shows(ed, rule),
         intended' \in Exprs, exempt' \in BOOLEAN
  PROVE  TypeInv'
<1>1. RestOK /\ panel \in Panels
  BY OtherTab, TypeParts
<1>2. [panel EXCEPT !.requestRuleExpr = rule] \in Panels
  BY <1>1 DEF Panels
<1>3. RestOK'
  BY <1>1 DEF RestOK, Shows, page
<1>4. Tiered' /\ editor' \in Editors /\ panel' \in Panels
  BY <1>2 DEF Tiered, Shows, page
<1> QED
  BY <1>3, <1>4, TypeFrom

LEMMA IntendsType ==
  ASSUME NEW e \in Exprs, exempt \in BOOLEAN,
         Intends(e) \/ IntendsAtOnce(e) \/ IntendsAfresh(e)
  PROVE  intended' \in Exprs /\ exempt' \in BOOLEAN
<1>1. CASE Intends(e)
  BY <1>1 DEF Intends
<1>2. CASE IntendsAtOnce(e)
  BY <1>2 DEF IntendsAtOnce
<1>3. CASE IntendsAfresh(e)
  BY <1>3 DEF IntendsAfresh
<1> QED
  BY <1>1, <1>2, <1>3

\* The panels a render starts from.
LEMMA NothingIsPanel == [billingExpr |-> Empty, requestRuleExpr |-> <<>>] \in Panels
  BY EmptyIs DEF Panels

LEMMA DefaultIs ==
  /\ Price(Default) \in Exprs /\ Price(Default) # Empty
  /\ Price(Default) = generateExprFromVisualConfig(Default)
  /\ RuleOf(Price(Default)) = <<>>
  BY Constants, GenerateIs, GenerateWhole

LEMMA EditingIs ==
  ASSUME TypeInv, NEW m, Editing(m)
  PROVE  Tiered /\ settled /\ editor \in Editors /\ editor.mode = m
  BY TypeParts DEF Editing, Tiered

\* The groups the user may leave behind.
LEMMA GroupsChanged ==
  ASSUME NEW gs \in Seq(RuleGroup)
  PROVE  /\ Append(gs, [multiplier |-> FALSE, conditions |-> <<"blank">>]) \in Seq(RuleGroup)
         /\ \A i \in 1 .. Len(gs), g \in Groups : [gs EXCEPT ![i] = g] \in Seq(RuleGroup)
         /\ \A i \in 1 .. Len(gs) : RemoveAt(gs, i) \in Seq(RuleGroup)
<1>1. <<"blank">> \in Seq(Conditions)
  BY DEF Conditions
<1>2. [multiplier |-> FALSE, conditions |-> <<"blank">>] \in RuleGroup
  BY <1>1 DEF RuleGroup
<1>3. Append(gs, [multiplier |-> FALSE, conditions |-> <<"blank">>]) \in Seq(RuleGroup)
  BY <1>2, AppendProperties
<1>4. Groups \subseteq RuleGroup
  BY PriceEditorAssumption
<1>5. ASSUME NEW i \in 1 .. Len(gs), NEW g \in Groups
      PROVE  [gs EXCEPT ![i] = g] \in Seq(RuleGroup)
  BY <1>4, ExceptSeq
<1>6. ASSUME NEW i \in 1 .. Len(gs) PROVE RemoveAt(gs, i) \in Seq(RuleGroup)
  <2>1. /\ Len(gs) \in Nat /\ \A k \in 1 .. Len(gs) : gs[k] \in RuleGroup
    BY LenProperties, ElementOfSeq
  <2>2. SubSeq(gs, 1, i - 1) \in Seq(RuleGroup)
    BY <2>1, SubSeqProperties
  <2>3. SubSeq(gs, i + 1, Len(gs)) \in Seq(RuleGroup)
    BY <2>1, SubSeqProperties
  <2> QED
    BY <2>2, <2>3, ConcatProperties DEF RemoveAt
<1> QED
  BY <1>3, <1>5, <1>6

-----------------------------------------------------------------------------
(* Every step keeps the types.                                             *)

LEMMA EffectsType ==
  ASSUME TypeInv, useEffects
  PROVE  TypeInv'
<1>1. Tiered /\ editor \in Editors /\ panel \in Panels /\ RestOK
  BY TypeParts, OtherTab DEF useEffects, Effects, TypeInv
<1>2. initialize(editor, panel) \in Editors /\ reported(editor, panel) \in Panels
  BY <1>1, InitializeType, ReportedType
<1>3. editor' \in Editors /\ panel' \in Panels /\ Tiered'
  BY <1>1, <1>2 DEF useEffects, Effects, Tiered, page
<1>4. /\ stored' = stored /\ intended' = intended /\ open' = open /\ isEdit' = isEdit
      /\ named' = named /\ saves' = saves /\ exempt' = exempt
  BY DEF useEffects, Effects, page, history
<1>5. initRef' \in BOOLEAN /\ renamed' \in BOOLEAN /\ settled' \in BOOLEAN
  BY DEF useEffects, Effects
<1>6. RestOK'
  BY <1>1, <1>4, <1>5 DEF RestOK
<1> QED
  BY <1>3, <1>6, TypeFrom

LEMMA EditType ==
  ASSUME TypeInv, handleEdit
  PROVE  TypeInv'
<1> DEFINE mode == IF stored = Empty THEN "other" ELSE "tiered_expr"
           p == splitBillingExprAndRequestRules(stored)
<1>1. RestOK /\ stored \in Exprs /\ mode \in {"tiered_expr", "other"} /\ p \in Panels
  BY OtherTab, TypeParts, SplitParts
<1>2. Render(mode, p) /\ IntendsAfresh(stored) /\ UNCHANGED <<stored, saves>>
      /\ open' = TRUE /\ isEdit' = TRUE /\ named' = TRUE
  BY DEF handleEdit
<1> HIDE DEF mode, p
<1>3. intended' \in Exprs /\ exempt' \in BOOLEAN
  BY <1>1, <1>2, IntendsType DEF RestOK
<1>4. RestOK'
  BY <1>1, <1>2, <1>3, RenderType DEF RestOK
<1> QED
  BY <1>1, <1>2, <1>4, RenderType, TypeFrom

LEMMA AddType ==
  ASSUME TypeInv, handleAdd
  PROVE  TypeInv'
<1> DEFINE mode == "other"
           p == [billingExpr |-> Empty, requestRuleExpr |-> <<>>]
<1>1. RestOK /\ Empty \in Exprs /\ mode \in {"tiered_expr", "other"} /\ p \in Panels
  BY OtherTab, EmptyIs, NothingIsPanel
<1>2. Render(mode, p) /\ IntendsAfresh(Empty) /\ UNCHANGED <<stored, saves>>
      /\ open' = TRUE /\ isEdit' = FALSE /\ named' = FALSE
  BY DEF handleAdd
<1> HIDE DEF mode, p
<1>3. intended' \in Exprs /\ exempt' \in BOOLEAN
  BY <1>1, <1>2, IntendsType DEF RestOK
<1>4. RestOK'
  BY <1>1, <1>2, <1>3, RenderType DEF RestOK
<1> QED
  BY <1>1, <1>2, <1>4, RenderType, TypeFrom

LEMMA NameType ==
  ASSUME TypeInv, typeName
  PROVE  TypeInv'
<1>1. /\ named' = TRUE
      /\ \/ Tiered /\ renamed' = TRUE /\ settled' = FALSE
         \/ renamed' = renamed /\ settled' = settled
      /\ UNCHANGED <<stored, open, isEdit, pricingMode, panel, editor, initRef, seen,
                     saves, history>>
  BY DEF typeName, Tiered
<1> QED
  BY <1>1 DEF TypeInv, TypeOK, Tiered, history

LEMMA ModeType ==
  ASSUME TypeInv, NEW mode \in {"tiered_expr", "other"}, handlePricingModeChange(mode)
  PROVE  TypeInv'
<1> DEFINE p == IF mode = "tiered_expr" /\ panel.billingExpr = Empty
                THEN [panel EXCEPT !.billingExpr = Price(Default)] ELSE panel
<1>1. RestOK /\ panel \in Panels
  BY OtherTab, TypeParts
<1>2. p \in Panels
  BY <1>1, DefaultIs DEF Panels
<1>3. /\ Render(mode, p) /\ UNCHANGED <<stored, open, isEdit, named, saves>>
      /\ \/ IntendsAfresh(combineBillingExpr(Price(Default), panel.requestRuleExpr))
         \/ UNCHANGED history
  BY DEF handlePricingModeChange
<1> HIDE DEF p
<1>4. combineBillingExpr(Price(Default), panel.requestRuleExpr) \in Exprs
  BY TypeParts, DefaultIs, CombineIs
<1>5. intended' \in Exprs /\ exempt' \in BOOLEAN
  BY <1>1, <1>3, <1>4, IntendsType DEF RestOK, history
<1>6. RestOK'
  BY <1>1, <1>2, <1>3, <1>5, RenderType DEF RestOK
<1> QED
  BY <1>2, <1>3, <1>6, RenderType, TypeFrom

LEMMA CommitType ==
  ASSUME TypeInv, commitOpenEditor
  PROVE  TypeInv'
<1> DEFINE p == IF pricingMode = "tiered_expr" THEN panel
                ELSE [billingExpr |-> Empty, requestRuleExpr |-> <<>>]
<1>1. RestOK /\ panel \in Panels /\ pricingMode \in {"tiered_expr", "other"}
  BY OtherTab, TypeParts DEF Tiered
<1>2. p \in Panels
  BY <1>1, NothingIsPanel
<1>3. /\ Render(pricingMode, p) /\ IntendsAfresh(stored') /\ UNCHANGED <<open, named>>
      /\ isEdit' = TRUE /\ saves < MaxSaves /\ saves' = saves + 1
      /\ stored' = IF pricingMode = "tiered_expr" THEN Submitted ELSE Empty
  BY DEF commitOpenEditor
<1> HIDE DEF p
<1>4. stored' \in Exprs
  BY <1>3, TypeParts, CombineIs, EmptyIs DEF Submitted
<1>5. intended' \in Exprs /\ exempt' \in BOOLEAN
  BY <1>3, <1>4 DEF IntendsAfresh
<1>6. saves' \in 0 .. MaxSaves
  <2>1. MaxSaves \in Nat /\ saves \in 0 .. MaxSaves
    BY <1>1, PriceEditorAssumption DEF RestOK
  <2>2. saves < MaxSaves /\ saves' = saves + 1
    BY <1>3
  <2> QED
    BY <2>1, <2>2
<1>7. RestOK'
  BY <1>1, <1>2, <1>3, <1>4, <1>5, <1>6, RenderType DEF RestOK
<1> QED
  BY <1>1, <1>2, <1>3, <1>7, RenderType, TypeFrom

LEMMA VisualChangeType ==
  ASSUME TypeInv, NEW config \in Configs, handleVisualChange(config)
  PROVE  TypeInv'
<1>1. Tiered /\ editor \in Editors /\ editor.groups \in Seq(RuleGroup)
  BY EditingIs, TypeParts DEF handleVisualChange
<1>2. [editor EXCEPT !.config = config] \in Editors
  BY <1>1 DEF Editors
<1>3. panel.requestRuleExpr \in Rules /\ exempt \in BOOLEAN
  BY TypeParts DEF TypeInv, TypeOK
<1>4. combineBillingExpr(Price(config), buildRequestRuleExpr(editor.groups)) \in Exprs
  BY <1>1, GenerateIs, BuildType, CombineIs
<1> QED
  BY <1>1, <1>2, <1>3, <1>4, IntendsType, ShowsType DEF handleVisualChange

LEMMA GroupsChangeType ==
  ASSUME TypeInv, NEW gs \in Seq(RuleGroup), handleRuleGroupsChange(gs)
  PROVE  TypeInv'
<1>1. Tiered /\ editor \in Editors /\ editor.config \in Configs \cup {NoConfig}
  BY EditingIs, TypeParts DEF handleRuleGroupsChange
<1>2. [editor EXCEPT !.groups = gs] \in Editors
  BY <1>1 DEF Editors
<1>3. panel.requestRuleExpr \in Rules /\ exempt \in BOOLEAN
  BY TypeParts DEF TypeInv, TypeOK
<1>4. combineBillingExpr(generateExprFromVisualConfig(editor.config),
                         buildRequestRuleExpr(gs)) \in Exprs
  BY <1>1, GenerateIs, BuildType, CombineIs
<1> QED
  BY <1>1, <1>2, <1>3, <1>4, IntendsType, ShowsType DEF handleRuleGroupsChange

LEMMA RawChangeType ==
  ASSUME TypeInv, NEW e \in Exprs, handleRawChange(e)
  PROVE  TypeInv'
<1>1. Tiered /\ editor \in Editors
  BY EditingIs DEF handleRawChange
<1>2. [editor EXCEPT !.rawExpr = e] \in Editors
  BY <1>1 DEF Editors
<1>3. RuleOf(e) \in Rules /\ exempt \in BOOLEAN
  BY SplitParts DEF TypeInv, TypeOK
<1> QED
  BY <1>1, <1>2, <1>3, IntendsType, ShowsType DEF handleRawChange, RuleOf

\* The editor that a change of mode leaves.
LEMMA ToVisualIs ==
  ASSUME NEW ed \in Editors
  PROVE  /\ toVisualMode(ed) \in Editors /\ toVisualMode(ed).mode = "visual"
         /\ toVisualMode(ed).rawExpr = ed.rawExpr
         /\ toVisualMode(ed).config # NoConfig
         /\ tryParseVisualConfig(BaseOf(ed.rawExpr)) # NoConfig =>
              toVisualMode(ed).config = tryParseVisualConfig(BaseOf(ed.rawExpr))
         /\ toVisualMode(ed).groups = tryParseRequestRuleExpr(RuleOf(ed.rawExpr))
<1> DEFINE parsed == tryParseVisualConfig(BaseOf(ed.rawExpr))
           c == IF parsed = NoConfig THEN Default ELSE parsed
           gs == tryParseRequestRuleExpr(RuleOf(ed.rawExpr))
<1>1. ed.rawExpr \in Exprs
  BY DEF Editors
<1>2. parsed \in Configs \cup {NoConfig} /\ gs \in Seq(RuleGroup)
  BY <1>1, SplitParts, ParseVisualIs, ParseIs
<1>3. c \in Configs \cup {NoConfig} /\ c # NoConfig /\ (parsed # NoConfig => c = parsed)
  BY <1>2, Constants
<1>4. toVisualMode(ed) = [ed EXCEPT !.mode = "visual", !.config = c, !.groups = gs]
  BY DEF toVisualMode, BaseOf, RuleOf, createDefaultVisualConfig
<1> HIDE DEF c, gs
<1>5. /\ toVisualMode(ed).mode = "visual" /\ toVisualMode(ed).rawExpr = ed.rawExpr
      /\ toVisualMode(ed).config = c /\ toVisualMode(ed).groups = gs
  BY <1>4 DEF Editors
<1>6. toVisualMode(ed) \in Editors
  BY <1>2, <1>3, <1>4 DEF Editors
<1> QED
  BY <1>3, <1>5, <1>6 DEF gs

LEMMA ToRawIs ==
  ASSUME NEW ed \in Editors
  PROVE  /\ toRawMode(ed) \in Editors /\ toRawMode(ed).mode = "raw"
         /\ toRawMode(ed).rawExpr = combineBillingExpr(generateExprFromVisualConfig(ed.config),
                                                      buildRequestRuleExpr(ed.groups))
<1> DEFINE raw == combineBillingExpr(generateExprFromVisualConfig(ed.config),
                                     buildRequestRuleExpr(ed.groups))
<1>1. ed.config \in Configs \cup {NoConfig} /\ ed.groups \in Seq(RuleGroup)
  BY DEF Editors
<1>2. raw \in Exprs
  BY <1>1, GenerateIs, BuildType, CombineIs
<1>3. toRawMode(ed) = [ed EXCEPT !.mode = "raw", !.rawExpr = raw]
  BY DEF toRawMode
<1> HIDE DEF raw
<1>4. toRawMode(ed) \in Editors /\ toRawMode(ed).mode = "raw" /\ toRawMode(ed).rawExpr = raw
  BY <1>2, <1>3 DEF Editors
<1> QED
  BY <1>4 DEF raw

LEMMA ModeChangeType ==
  ASSUME TypeInv, handleModeChange
  PROVE  TypeInv'
<1>1. exempt' \in BOOLEAN /\ intended' \in Exprs
  BY DEF handleModeChange, history, TypeInv, TypeOK
<1>2. CASE Editing("raw") /\ Shows(toVisualMode(editor), RuleOf(editor.rawExpr))
  <2>1. Tiered /\ editor \in Editors /\ editor.rawExpr \in Exprs
    BY <1>2, EditingIs, TypeParts
  <2> QED
    BY <1>1, <1>2, <2>1, SplitParts, ToVisualIs, ShowsType
<1>3. CASE Editing("visual") /\ Shows(toRawMode(editor), panel.requestRuleExpr)
  <2>1. Tiered /\ editor \in Editors /\ panel.requestRuleExpr \in Rules
    BY <1>3, EditingIs, TypeParts
  <2> QED
    BY <1>1, <1>3, <2>1, ToRawIs, ShowsType
<1> QED
  BY <1>2, <1>3 DEF handleModeChange, RuleOf

\* A template is a price without rules, and its rules.
LEMMA PresetIs ==
  ASSUME NEW preset \in Presets
  PROVE  /\ preset.requestRules \in Seq(RuleGroup)
         /\ Price(preset.expr) \in Exprs /\ Price(preset.expr) # Empty
         /\ RuleOf(Price(preset.expr)) = <<>> /\ Price(preset.expr).base = preset.expr
         /\ tryParseVisualConfig(Price(preset.expr)) \in Configs \cup {NoConfig}
         /\ preset.expr \in Configs =>
              /\ tryParseVisualConfig(Price(preset.expr)) = preset.expr
              /\ generateExprFromVisualConfig(preset.expr) = Price(preset.expr)
<1> DEFINE b == preset.expr
           e == Price(b)
<1>1. b \in Prices /\ b # "" /\ preset.requestRules \in Seq(RuleGroup)
  BY PriceEditorAssumption
<1> HIDE DEF b
<1>2. e \in Exprs
  BY <1>1, PriceType
<1>3. e.base = b /\ e.layers = <<>>
  BY DEF Price
<1>4. b \in Configs => tryParseVisualConfig(e) = b /\ generateExprFromVisualConfig(b) = e
  BY GenerateIs
<1> HIDE DEF e
<1>5. e # Empty
  BY <1>1, <1>2, <1>3, ExprFields
<1>6. RuleOf(e) = <<>>
  BY <1>3 DEF RuleOf, splitBillingExprAndRequestRules
<1>7. tryParseVisualConfig(e) \in Configs \cup {NoConfig}
  BY <1>2, ParseVisualIs
<1> QED
  BY <1>1, <1>2, <1>3, <1>4, <1>5, <1>6, <1>7 DEF e, b

\* The editor that a template leaves.
PresetEditor(preset) ==
  LET parsed == tryParseVisualConfig(Price(preset.expr))
  IN [mode |-> IF parsed = NoConfig THEN "raw" ELSE "visual", config |-> parsed,
      rawExpr |-> combineBillingExpr(Price(preset.expr),
                                     buildRequestRuleExpr(preset.requestRules)),
      groups |-> preset.requestRules]

LEMMA PresetType ==
  ASSUME TypeInv, NEW preset \in Presets, applyPreset(preset)
  PROVE  TypeInv'
<1> DEFINE rule == buildRequestRuleExpr(preset.requestRules)
           raw == combineBillingExpr(Price(preset.expr), rule)
           ed == PresetEditor(preset)
<1>1. preset.requestRules \in Seq(RuleGroup)
  BY PresetIs
<1>2. rule \in Rules
  BY <1>1, BuildType
<1>3. raw \in Exprs
  BY <1>2, PresetIs, CombineIs
<1>4. Shows(ed, rule) /\ IntendsAtOnce(raw) /\ (Editing("visual") \/ Editing("raw"))
  BY DEF applyPreset, PresetEditor
<1>5. ed \in Editors
  <2> DEFINE parsed == tryParseVisualConfig(Price(preset.expr))
             mode == IF parsed = NoConfig THEN "raw" ELSE "visual"
  <2>1. parsed \in Configs \cup {NoConfig} /\ mode \in {"visual", "raw"}
    BY PresetIs
  <2>2. ed = [mode |-> mode, config |-> parsed, rawExpr |-> raw,
              groups |-> preset.requestRules]
    BY DEF PresetEditor
  <2> HIDE DEF parsed, mode, raw, ed
  <2> QED
    BY <1>1, <1>3, <2>1, <2>2 DEF Editors
<1> HIDE DEF rule, raw
<1> HIDE DEF ed
<1>6. Tiered /\ exempt \in BOOLEAN
  BY <1>4, EditingIs DEF TypeInv, TypeOK
<1> QED
  BY <1>2, <1>3, <1>4, <1>5, <1>6, IntendsType, ShowsType

\* The groups that the handlers of the list of groups leave.
GroupsStep ==
  \E gs \in Seq(RuleGroup) : handleRuleGroupsChange(gs)

LEMMA GroupsSteps ==
  ASSUME TypeInv,
         \/ addRuleGroup
         \/ \E i \in 1 .. Len(editor.groups), g \in Groups :
              handleRuleGroupsChange([editor.groups EXCEPT ![i] = g])
         \/ \E i \in 1 .. Len(editor.groups) :
              handleRuleGroupsChange(RemoveAt(editor.groups, i))
  PROVE  GroupsStep
<1>1. editor.groups \in Seq(RuleGroup)
  BY TypeParts
<1> QED
  BY <1>1, GroupsChanged DEF addRuleGroup, GroupsStep

\* A step is one of these.
LEMMA Steps ==
  ASSUME TypeInv, Next
  PROVE  \/ useEffects \/ handleEdit \/ handleAdd \/ typeName \/ commitOpenEditor
         \/ \E mode \in {"tiered_expr", "other"} : handlePricingModeChange(mode)
         \/ \E config \in Configs : handleVisualChange(config)
         \/ GroupsStep
         \/ \E e \in Typed : handleRawChange(e)
         \/ handleModeChange
         \/ \E preset \in Presets : applyPreset(preset)
  BY GroupsSteps DEF Next

LEMMA TypeStep ==
  ASSUME TypeInv, [Next]_vars
  PROVE  TypeInv'
<1>1. CASE UNCHANGED vars
  BY <1>1 DEF vars, page, history, TypeInv, TypeOK, Tiered
<1>2. ASSUME NEW e \in Typed, handleRawChange(e) PROVE TypeInv'
  BY <1>2, PriceEditorAssumption, RawChangeType
<1>3. CASE Next
  BY <1>2, <1>3, Steps, EffectsType, EditType, AddType, NameType, CommitType, ModeType,
     VisualChangeType, GroupsChangeType, ModeChangeType, PresetType DEF GroupsStep
<1> QED
  BY <1>1, <1>3

LEMMA TypeStart ==
  ASSUME Init
  PROVE  TypeInv
<1>1. Stored \subseteq Exprs /\ MaxSaves \in Nat
  BY PriceEditorAssumption
<1>2. /\ stored \in Exprs /\ intended \in Exprs /\ panel \in Panels
      /\ pricingMode = "other" /\ editor = NoEditor /\ settled = TRUE
      /\ open = FALSE /\ isEdit = FALSE /\ named = FALSE /\ initRef = FALSE
      /\ renamed = FALSE /\ exempt = FALSE /\ saves = 0
  BY <1>1, EmptyIs, NothingIsPanel DEF Init
<1>3. NoEditor \in [mode : {"none"}, config : Configs \cup {NoConfig},
                    rawExpr : Exprs, groups : Seq(RuleGroup)]
  BY EmptyIs DEF NoEditor
<1>4. saves \in 0 .. MaxSaves
  BY <1>1, <1>2
<1> QED
  BY <1>2, <1>3, <1>4 DEF TypeInv, TypeOK, Tiered, Panels

\* The types of the page hold in every state, for any prices, rules and
\* templates: whatever the handlers and the effects of
\* tiered-pricing-editor.tsx do, the editor is there exactly while its tab is.
THEOREM PriceTypeCorrect == Spec => []TypeOK
<1>1. Init => TypeInv
  BY TypeStart
<1>2. TypeInv /\ [Next]_vars => TypeInv'
  BY TypeStep
<1>3. TypeInv => TypeOK
  BY DEF TypeInv
<1> QED
  BY <1>1, <1>2, <1>3, PTL DEF Spec

\* Rules that buildRequestRuleExpr writes and tryParseRequestRuleExpr reads
\* again demand the tests the user has entered, in every state: whatever the
\* groups are, a group that cannot be read whole is not read at all.
THEOREM PriceRuleNeverWeakened == Spec => []RuleNeverWeakened
<1>1. TypeInv => RuleNeverWeakened
  <2> SUFFICES ASSUME TypeInv PROVE RuleNeverWeakened
    OBVIOUS
  <2> DEFINE rule == buildRequestRuleExpr(editor.groups)
  <2>1. editor.groups \in Seq(RuleGroup) /\ rule \in Rules
    BY TypeParts, BuildType
  <2>2. tryParseRequestRuleExpr(rule) # <<>> => canUseVisualRules(rule)
    BY <2>1, ParseIs
  <2>3. canUseVisualRules(rule) =>
          Demands(tryParseRequestRuleExpr(rule)) = Demands(Effective(editor.groups))
    BY <2>1, DemandsKept
  <2> QED
    BY <2>2, <2>3 DEF RuleNeverWeakened
<1> QED
  BY <1>1, TypeStart, TypeStep, PTL DEF Spec

-----------------------------------------------------------------------------
(* Every step keeps the invariant of the effects.                          *)

LEMMA EmptyWhole == Whole(Empty) /\ RuleOf(Empty) = <<>> /\ BaseOf(Empty) = Empty
  BY EmptyIs DEF Whole, RuleOf, BaseOf

\* An editor that is mounted, or none.
LEMMA Mounted ==
  ASSUME NEW mode \in {"tiered_expr", "other"}, NEW p \in Panels, Render(mode, p),
         RuleOf(p.billingExpr) = <<>>, Whole(stored'), TypeInv'
  PROVE  EditorInv'
<1>1. p.billingExpr \in Exprs /\ p.requestRuleExpr \in Rules /\ panel' = p
  BY DEF Panels, Render
<1>2. CASE mode = "tiered_expr"
  <2>1. editor' = TieredPricingEditor(p) /\ settled' = FALSE /\ initRef' = FALSE /\ seen' = Unseen
    BY <1>2 DEF Render
  <2>2. /\ editor'.mode = "visual"
        /\ editor'.groups = tryParseRequestRuleExpr(p.requestRuleExpr)
        /\ editor'.rawExpr = combineBillingExpr(p.billingExpr, p.requestRuleExpr)
    BY <2>1, MountIs
  <2>3. Whole(editor'.rawExpr)
    BY <1>1, <2>2, CombineWhole
  <2>4. WholeInv'
    BY <1>1, <2>3 DEF WholeInv
  <2>5. RestInv' /\ RawInv'
    BY <2>1, <2>2 DEF RestInv, RawInv
  <2>6. FreshInv' /\ SwitchInv'
    BY <1>1, <2>1, <2>2, UnseenIsNew DEF FreshInv, SwitchInv
  <2> QED
    BY <2>4, <2>5, <2>6 DEF EditorInv
<1>3. CASE mode = "other"
  <2>1. editor' = NoEditor /\ ~ Tiered'
    BY <1>3 DEF Render, Tiered
  <2>2. editor'.mode = "none" /\ editor'.rawExpr = Empty
    BY <2>1 DEF NoEditor
  <2>3. WholeInv'
    BY <1>1, <2>2, EmptyWhole DEF WholeInv
  <2>4. RestInv' /\ RawInv' /\ FreshInv' /\ SwitchInv'
    BY <2>1, <2>2 DEF RestInv, RawInv, FreshInv, SwitchInv
  <2> QED
    BY <2>3, <2>4 DEF EditorInv
<1> QED
  BY <1>2, <1>3

LEMMA EditInv ==
  ASSUME EditorInv, handleEdit
  PROVE  EditorInv'
<1> DEFINE mode == IF stored = Empty THEN "other" ELSE "tiered_expr"
           p == splitBillingExprAndRequestRules(stored)
<1>1. TypeInv /\ stored \in Exprs /\ Whole(stored)
  BY TypeParts DEF EditorInv, WholeInv
<1>2. TypeInv'
  BY <1>1, EditType
<1>3. Render(mode, p) /\ stored' = stored
  BY DEF handleEdit
<1>4. mode \in {"tiered_expr", "other"} /\ p \in Panels /\ p.billingExpr = BaseOf(stored)
  BY <1>1, SplitParts DEF BaseOf
<1>5. RuleOf(p.billingExpr) = <<>> /\ Whole(stored')
  BY <1>1, <1>3, <1>4 DEF Whole
<1> HIDE DEF mode, p
<1> QED
  BY <1>2, <1>3, <1>4, <1>5, Mounted

LEMMA AddInv ==
  ASSUME EditorInv, handleAdd
  PROVE  EditorInv'
<1> DEFINE p == [billingExpr |-> Empty, requestRuleExpr |-> <<>>]
<1>1. TypeInv /\ Whole(stored)
  BY DEF EditorInv, WholeInv
<1>2. TypeInv'
  BY <1>1, AddType
<1>3. Render("other", p) /\ stored' = stored
  BY DEF handleAdd
<1>4. p \in Panels /\ RuleOf(p.billingExpr) = <<>>
  BY NothingIsPanel, EmptyWhole
<1> HIDE DEF p
<1> QED
  BY <1>1, <1>2, <1>3, <1>4, Mounted

LEMMA ModeInv ==
  ASSUME EditorInv, NEW mode \in {"tiered_expr", "other"}, handlePricingModeChange(mode)
  PROVE  EditorInv'
<1> DEFINE p == IF mode = "tiered_expr" /\ panel.billingExpr = Empty
                THEN [panel EXCEPT !.billingExpr = Price(Default)] ELSE panel
<1>1. TypeInv /\ Whole(stored) /\ panel \in Panels /\ RuleOf(panel.billingExpr) = <<>>
  BY TypeParts DEF EditorInv, WholeInv
<1>2. TypeInv'
  BY <1>1, ModeType
<1>3. Render(mode, p) /\ stored' = stored
  BY DEF handlePricingModeChange
<1>4. p \in Panels /\ (p.billingExpr = Price(Default) \/ p.billingExpr = panel.billingExpr)
  BY <1>1, DefaultIs DEF Panels
<1> HIDE DEF p
<1>5. RuleOf(p.billingExpr) = <<>>
  BY <1>1, <1>4, DefaultIs
<1> QED
  BY <1>1, <1>2, <1>3, <1>4, <1>5, Mounted

LEMMA CommitInv ==
  ASSUME EditorInv, commitOpenEditor
  PROVE  EditorInv'
<1> DEFINE p == IF pricingMode = "tiered_expr" THEN panel
                ELSE [billingExpr |-> Empty, requestRuleExpr |-> <<>>]
<1>1. /\ TypeInv /\ panel \in Panels /\ RuleOf(panel.billingExpr) = <<>>
      /\ panel.billingExpr \in Exprs /\ panel.requestRuleExpr \in Rules
  BY TypeParts DEF EditorInv, WholeInv
<1>2. TypeInv' /\ pricingMode \in {"tiered_expr", "other"}
  BY <1>1, CommitType, OtherTab DEF Tiered
<1>3. /\ Render(pricingMode, p)
      /\ stored' = IF pricingMode = "tiered_expr" THEN Submitted ELSE Empty
  BY DEF commitOpenEditor
<1>4. Whole(Submitted)
  BY <1>1, CombineWhole DEF Submitted
<1>5. Whole(stored')
  BY <1>3, <1>4, EmptyWhole
<1>6. p \in Panels /\ RuleOf(p.billingExpr) = <<>>
  BY <1>1, NothingIsPanel, EmptyWhole
<1> HIDE DEF p
<1> QED
  BY <1>2, <1>3, <1>5, <1>6, Mounted

LEMMA NameInv ==
  ASSUME EditorInv, typeName
  PROVE  EditorInv'
<1>1. /\ Tiered => settled' = FALSE
      /\ UNCHANGED <<stored, pricingMode, panel, editor, initRef, seen>>
  BY DEF typeName, Tiered
<1>2. TypeInv'
  BY NameType DEF EditorInv
<1>3. RestInv'
  BY <1>1 DEF RestInv, Tiered
<1>4. WholeInv' /\ RawInv' /\ FreshInv' /\ SwitchInv'
  BY <1>1 DEF EditorInv, WholeInv, RawInv, FreshInv, SwitchInv
<1> QED
  BY <1>2, <1>3, <1>4 DEF EditorInv

\* At rest the panel has the price and the rules of the form, or the price of
\* the text.
LEMMA AtRest ==
  ASSUME EditorInv, settled, Tiered
  PROVE  /\ seen = panel /\ editor \in Editors
         /\ editor.mode = "visual" =>
              /\ editor.config \in Configs /\ editor.config # NoConfig
              /\ panel.billingExpr = generateExprFromVisualConfig(editor.config)
              /\ panel.requestRuleExpr = buildRequestRuleExpr(editor.groups)
              /\ tryParseVisualConfig(panel.billingExpr) # NoConfig
         /\ editor.mode = "raw" => panel.billingExpr = BaseOf(editor.rawExpr)
<1>1. /\ TypeInv /\ panel = reported(editor, panel) /\ seen = panel
      /\ editor.mode = "visual" => editor.config # NoConfig
  BY DEF EditorInv, RestInv
<1>2. /\ editor \in Editors /\ panel \in Panels
      /\ editor.config \in Configs \cup {NoConfig}
  BY <1>1, TypeParts
<1>3. ASSUME editor.mode = "visual"
      PROVE  /\ panel.billingExpr = generateExprFromVisualConfig(editor.config)
             /\ panel.requestRuleExpr = buildRequestRuleExpr(editor.groups)
  <2>1. panel = [billingExpr |-> generateExprFromVisualConfig(editor.config),
                 requestRuleExpr |-> buildRequestRuleExpr(editor.groups)]
    BY <1>1, <1>2, <1>3, ReportedIs
  <2> QED
    BY <2>1
<1>4. editor.mode = "raw" => panel.billingExpr = BaseOf(editor.rawExpr)
  <2>1. editor.mode = "raw" => panel = [billingExpr |-> BaseOf(editor.rawExpr),
                                         requestRuleExpr |-> panel.requestRuleExpr]
    BY <1>1, <1>2, ReportedIs
  <2> QED
    BY <2>1
<1>5. tryParseVisualConfig(generateExprFromVisualConfig(editor.config)) = editor.config
  BY <1>2, GenerateIs
<1> QED
  BY <1>1, <1>2, <1>3, <1>4, <1>5

\* An event in the editor.
LEMMA Shown ==
  ASSUME EditorInv, Tiered, NEW ed, NEW rule, Shows(ed, rule), TypeInv',
         Whole(ed.rawExpr),
         ed.mode = "raw" /\ canUseVisualRules(rule) =>
            ed.rawExpr = Empty \/ rule = RuleOf(ed.rawExpr),
         ed.mode = "visual" =>
            /\ ed.config # NoConfig
            /\ \/ tryParseVisualConfig(panel.billingExpr) # NoConfig
               \/ buildRequestRuleExpr(ed.groups) = rule
               \/ ed.groups = tryParseRequestRuleExpr(rule)
  PROVE  EditorInv'
<1>1. panel \in Panels /\ Whole(stored) /\ RuleOf(panel.billingExpr) = <<>>
  BY TypeParts DEF EditorInv, WholeInv
<1>2. /\ editor' = ed /\ panel'.billingExpr = panel.billingExpr
      /\ panel'.requestRuleExpr = rule /\ settled' = FALSE /\ stored' = stored
  BY <1>1 DEF Shows, Panels
<1>3. WholeInv' /\ RestInv'
  BY <1>1, <1>2 DEF WholeInv, RestInv
<1>4. RawInv' /\ FreshInv' /\ SwitchInv'
  BY <1>2 DEF RawInv, FreshInv, SwitchInv
<1> QED
  BY <1>3, <1>4 DEF EditorInv

LEMMA VisualChangeInv ==
  ASSUME EditorInv, NEW config \in Configs, handleVisualChange(config)
  PROVE  EditorInv'
<1> DEFINE ed == [editor EXCEPT !.config = config]
<1>1. TypeInv /\ Whole(editor.rawExpr)
  BY DEF EditorInv, WholeInv
<1>2. Tiered /\ settled /\ editor \in Editors /\ editor.mode = "visual"
  BY <1>1, EditingIs DEF handleVisualChange
<1>3. TypeInv'
  BY <1>1, VisualChangeType
<1>4. ed.mode = "visual" /\ ed.config = config /\ ed.rawExpr = editor.rawExpr
  BY <1>2 DEF Editors
<1>5. Shows(ed, panel.requestRuleExpr)
  BY DEF handleVisualChange
<1> HIDE DEF ed
<1> QED
  BY <1>1, <1>2, <1>3, <1>4, <1>5, AtRest, Shown, Constants

LEMMA GroupsChangeInv ==
  ASSUME EditorInv, NEW gs \in Seq(RuleGroup), handleRuleGroupsChange(gs)
  PROVE  EditorInv'
<1> DEFINE ed == [editor EXCEPT !.groups = gs]
<1>1. TypeInv /\ Whole(editor.rawExpr)
  BY DEF EditorInv, WholeInv
<1>2. Tiered /\ settled /\ editor \in Editors /\ editor.mode = "visual"
  BY <1>1, EditingIs DEF handleRuleGroupsChange
<1>3. TypeInv'
  BY <1>1, GroupsChangeType
<1>4. ed.mode = "visual" /\ ed.config = editor.config /\ ed.rawExpr = editor.rawExpr
  BY <1>2 DEF Editors
<1>5. Shows(ed, panel.requestRuleExpr)
  BY DEF handleRuleGroupsChange
<1> HIDE DEF ed
<1> QED
  BY <1>1, <1>2, <1>3, <1>4, <1>5, AtRest, Shown

LEMMA RawChangeInv ==
  ASSUME EditorInv, NEW e \in Exprs, Whole(e), handleRawChange(e)
  PROVE  EditorInv'
<1> DEFINE ed == [editor EXCEPT !.rawExpr = e]
<1>1. TypeInv
  BY DEF EditorInv
<1>2. Tiered /\ editor \in Editors /\ editor.mode = "raw"
  BY <1>1, EditingIs DEF handleRawChange
<1>3. TypeInv'
  BY <1>1, RawChangeType
<1>4. ed.mode = "raw" /\ ed.rawExpr = e
  BY <1>2 DEF Editors
<1>5. Shows(ed, RuleOf(e))
  BY DEF handleRawChange, RuleOf
<1> HIDE DEF ed
<1> QED
  BY <1>2, <1>3, <1>4, <1>5, Shown

LEMMA ModeChangeInv ==
  ASSUME EditorInv, handleModeChange
  PROVE  EditorInv'
<1>1. TypeInv /\ Whole(editor.rawExpr)
  BY DEF EditorInv, WholeInv
<1>2. TypeInv'
  BY <1>1, ModeChangeType
<1>3. CASE Editing("raw") /\ Shows(toVisualMode(editor), RuleOf(editor.rawExpr))
  <2>1. Tiered /\ editor \in Editors
    BY <1>1, <1>3, EditingIs
  <2> QED
    BY <1>1, <1>2, <1>3, <2>1, ToVisualIs, Shown
<1>4. CASE Editing("visual") /\ Shows(toRawMode(editor), panel.requestRuleExpr)
  <2>1. Tiered /\ settled /\ editor \in Editors /\ editor.mode = "visual"
    BY <1>1, <1>4, EditingIs
  <2> DEFINE base == generateExprFromVisualConfig(editor.config)
             rule == buildRequestRuleExpr(editor.groups)
  <2>2. /\ toRawMode(editor).mode = "raw"
        /\ toRawMode(editor).rawExpr = combineBillingExpr(base, rule)
        /\ panel.requestRuleExpr = rule
    BY <2>1, ToRawIs, AtRest
  <2>3. base \in Exprs /\ base # Empty /\ RuleOf(base) = <<>> /\ rule \in Rules
    BY <2>1, GenerateIs, GenerateWhole, BuildType DEF Editors
  <2> HIDE DEF base, rule
  <2>4. /\ Whole(toRawMode(editor).rawExpr)
        /\ canUseVisualRules(rule) => RuleOf(toRawMode(editor).rawExpr) = rule
    BY <2>2, <2>3, CombineWhole
  <2> QED
    BY <1>2, <1>4, <2>1, <2>2, <2>4, Shown
<1> QED
  BY <1>3, <1>4 DEF handleModeChange, RuleOf

LEMMA PresetInv ==
  ASSUME EditorInv, NEW preset \in Presets, applyPreset(preset)
  PROVE  EditorInv'
<1> DEFINE rule == buildRequestRuleExpr(preset.requestRules)
           raw == combineBillingExpr(Price(preset.expr), rule)
           ed == PresetEditor(preset)
<1>1. TypeInv /\ preset.requestRules \in Seq(RuleGroup)
  BY PresetIs DEF EditorInv
<1>2. TypeInv'
  BY <1>1, PresetType
<1>3. /\ rule \in Rules /\ Price(preset.expr) \in Exprs /\ Price(preset.expr) # Empty
      /\ RuleOf(Price(preset.expr)) = <<>>
  BY <1>1, BuildType, PresetIs
<1>4. Whole(raw) /\ (canUseVisualRules(rule) => RuleOf(raw) = rule)
  BY <1>3, CombineWhole
<1>5. Shows(ed, rule) /\ (Editing("visual") \/ Editing("raw"))
  BY DEF applyPreset, PresetEditor
<1>6. /\ ed.mode = "visual" => ed.config # NoConfig
      /\ ed.rawExpr = raw /\ buildRequestRuleExpr(ed.groups) = rule
  BY DEF PresetEditor
<1> HIDE DEF ed, rule, raw
<1>7. Tiered
  BY <1>1, <1>5, EditingIs
<1> QED
  BY <1>1, <1>2, <1>4, <1>5, <1>6, <1>7, Shown, Constants

\* What the effects of a render do, with the first one or without.
First == ~ initRef /\ seen # panel

LEMMA EffectsAre ==
  ASSUME EditorInv, useEffects
  PROVE  /\ Tiered /\ Tiered' /\ ~ settled /\ editor \in Editors /\ panel \in Panels
         /\ stored' = stored /\ seen' = panel /\ intended' = intended /\ exempt' = exempt
         /\ panel' \in Panels /\ editor' \in Editors /\ TypeInv /\ TypeInv'
         /\ First => editor' = initialize(editor, panel)
         /\ ~ First => editor' = editor
         /\ panel' = reported(editor, panel)
         /\ editor.mode = "visual" =>
              /\ panel'.billingExpr = generateExprFromVisualConfig(editor.config)
              /\ panel'.requestRuleExpr = buildRequestRuleExpr(editor.groups)
         /\ editor.mode = "raw" =>
              /\ panel'.billingExpr = BaseOf(editor.rawExpr)
              /\ panel'.requestRuleExpr = panel.requestRuleExpr
         /\ settled' => editor' = editor /\ panel' = panel
         /\ initRef' <=> ~ renamed /\ (initRef \/ First)
<1>1. TypeInv
  BY DEF EditorInv
<1>2. TypeInv'
  BY <1>1, EffectsType
<1>3. ~ settled /\ Tiered
  BY <1>1 DEF useEffects, Effects, TypeInv
<1>4. editor \in Editors /\ panel \in Panels
  BY <1>1, <1>3, TypeParts
<1>5. Tiered' /\ stored' = stored /\ seen' = panel /\ intended' = intended /\ exempt' = exempt
  BY <1>3 DEF useEffects, Effects, page, history, Tiered
<1>6. /\ First => editor' = initialize(editor, panel)
      /\ ~ First => editor' = editor
      /\ panel' = reported(editor, panel)
      /\ settled' => editor' = editor /\ panel' = panel
      /\ initRef' <=> ~ renamed /\ (initRef \/ First)
  BY DEF useEffects, Effects, First
<1>7. panel' \in Panels /\ editor' \in Editors
  BY <1>4, <1>6, ReportedType, InitializeType
<1>8. ASSUME editor.mode = "visual"
      PROVE  /\ panel'.billingExpr = generateExprFromVisualConfig(editor.config)
             /\ panel'.requestRuleExpr = buildRequestRuleExpr(editor.groups)
  <2>1. panel' = [billingExpr |-> generateExprFromVisualConfig(editor.config),
                  requestRuleExpr |-> buildRequestRuleExpr(editor.groups)]
    BY <1>4, <1>6, <1>8, ReportedIs
  <2> QED
    BY <2>1
<1>9. ASSUME editor.mode = "raw"
      PROVE  /\ panel'.billingExpr = BaseOf(editor.rawExpr)
             /\ panel'.requestRuleExpr = panel.requestRuleExpr
  <2>1. panel' = [billingExpr |-> BaseOf(editor.rawExpr),
                  requestRuleExpr |-> panel.requestRuleExpr]
    BY <1>4, <1>6, <1>9, ReportedIs
  <2> QED
    BY <2>1
<1> QED
  BY <1>1, <1>2, <1>3, <1>4, <1>5, <1>6, <1>7, <1>8, <1>9

\* The form has a price after the effects, and had one before them if the
\* first one did not run.
LEMMA FreshEnds ==
  ASSUME EditorInv, useEffects
  PROVE  /\ ~ First /\ editor.mode = "visual" => editor.config # NoConfig
         /\ editor'.mode = "visual" => editor'.config # NoConfig
<1>1. ~ First /\ editor.mode = "visual" => editor.config # NoConfig
  BY DEF EditorInv, FreshInv, First
<1> QED
  BY <1>1, EffectsAre, InitializeIs

LEMMA EffectsInv ==
  ASSUME EditorInv, useEffects
  PROVE  EditorInv'
<1> DEFINE pb == panel.billingExpr
           pr == panel.requestRuleExpr
           G == generateExprFromVisualConfig(editor.config)
           B == buildRequestRuleExpr(editor.groups)
           C == combineBillingExpr(pb, pr)
<1>1. /\ editor \in Editors /\ panel \in Panels /\ TypeInv /\ TypeInv' /\ Tiered
      /\ editor.mode \in {"visual", "raw"} /\ editor' \in Editors
      /\ pb \in Exprs /\ pr \in Rules /\ editor.rawExpr \in Exprs
      /\ editor.config \in Configs \cup {NoConfig} /\ editor.groups \in Seq(RuleGroup)
  BY EffectsAre, TypeParts
<1>2. Whole(stored) /\ Whole(editor.rawExpr) /\ RuleOf(pb) = <<>>
  BY DEF EditorInv, WholeInv
<1>3. /\ C \in Exprs /\ Whole(C) /\ (pb = Empty => C = Empty)
      /\ pb # Empty /\ canUseVisualRules(pr) => RuleOf(C) = pr
      /\ ~ canUseVisualRules(pr) => RuleOf(C) = <<>>
  BY <1>1, <1>2, CombineIs, CombineWhole
<1>4. First => editor'.rawExpr = C /\ editor'.groups = tryParseRequestRuleExpr(pr)
  BY <1>1, EffectsAre, InitializeIs
<1>5. WholeInv'
  <2>1. Whole(editor'.rawExpr)
    BY <1>2, <1>3, <1>4, EffectsAre
  <2>2. RuleOf(panel'.billingExpr) = <<>>
    BY <1>1, <1>2, EffectsAre, GenerateWhole DEF Whole
  <2>3. Whole(stored')
    BY <1>2, EffectsAre
  <2> QED
    BY <2>1, <2>2, <2>3 DEF WholeInv
<1>6. RestInv'
  <2> SUFFICES ASSUME settled'
               PROVE  /\ panel' = reported(editor', panel') /\ seen' = panel'
                      /\ editor'.mode = "visual" => editor'.config # NoConfig
    BY DEF RestInv
  <2>1. editor' = editor /\ panel' = panel /\ panel' = reported(editor, panel) /\ seen' = panel
    BY EffectsAre
  <2> QED
    BY <2>1, FreshEnds
<1>7. RawInv'
  <2> SUFFICES ASSUME editor'.mode = "raw", canUseVisualRules(panel'.requestRuleExpr)
               PROVE  editor'.rawExpr = Empty \/ panel'.requestRuleExpr = RuleOf(editor'.rawExpr)
    BY DEF RawInv
  <2>1. CASE ~ First
    <3>1. editor' = editor /\ editor.mode = "raw" /\ panel'.requestRuleExpr = pr
      BY <2>1, EffectsAre
    <3> QED
      BY <3>1 DEF EditorInv, RawInv
  <2>2. CASE First /\ editor.mode = "raw"
    BY <1>3, <1>4, <2>2, EffectsAre
  <2>3. CASE First /\ editor.mode = "visual"
    <3>1. tryParseVisualConfig(pb) = NoConfig /\ pb # Empty
      <4>1. editor' = initialize(editor, panel)
        BY <2>3, EffectsAre
      <4>2. editor.mode # "raw"
        BY <2>3
      <4> QED
        BY <1>1, <4>1, <4>2, InitializeIs
    <3>2. panel'.requestRuleExpr = B
      BY <2>3, EffectsAre
    <3>3. B = pr \/ editor.groups = tryParseRequestRuleExpr(pr)
      BY <2>3, <3>1 DEF EditorInv, SwitchInv, First
    <3>4. ASSUME editor.groups = tryParseRequestRuleExpr(pr), canUseVisualRules(pr) PROVE B = pr
      BY <1>1, <3>4, ReadBack
    <3>5. ASSUME editor.groups = tryParseRequestRuleExpr(pr), ~ canUseVisualRules(pr)
          PROVE  B = <<>>
      BY <1>1, <3>5, ParseIs, BuildNothing
    <3> QED
      BY <1>3, <1>4, <2>3, <3>1, <3>2, <3>3, <3>4, <3>5
  <2> QED
    BY <1>1, <2>1, <2>2, <2>3
<1>8. FreshInv'
  BY FreshEnds DEF FreshInv
<1>9. SwitchInv'
  <2> SUFFICES ASSUME editor'.mode = "visual",
                      tryParseVisualConfig(panel'.billingExpr) = NoConfig
               PROVE  \/ buildRequestRuleExpr(editor'.groups) = panel'.requestRuleExpr
                      \/ editor'.groups = tryParseRequestRuleExpr(panel'.requestRuleExpr)
    BY DEF SwitchInv
  <2>1. tryParseVisualConfig(G) = editor.config
    BY <1>1, GenerateIs
  <2>2. CASE ~ First
    <3>1. editor.mode = "visual" /\ editor.config # NoConfig /\ panel'.billingExpr = G
      BY <2>2, EffectsAre, FreshEnds
    <3> QED
      BY <2>1, <3>1
  <2>3. CASE First /\ editor.mode = "raw"
    BY <1>4, <2>3, EffectsAre
  <2>4. CASE First /\ editor.mode = "visual"
    <3>1. panel'.billingExpr = G /\ panel'.requestRuleExpr = B
      BY <2>4, EffectsAre
    <3>2. editor.config = NoConfig
      BY <2>1, <3>1
    <3>3. editor.groups = tryParseRequestRuleExpr(pr)
      BY <2>4, <3>2 DEF EditorInv, FreshInv
    <3> QED
      BY <1>4, <2>4, <3>1, <3>3
  <2> QED
    BY <1>1, <2>2, <2>3, <2>4
<1> QED
  BY <1>1, <1>5, <1>6, <1>7, <1>8, <1>9 DEF EditorInv

LEMMA EditorStep ==
  ASSUME RulesOutermost, EditorInv, [Next]_vars
  PROVE  EditorInv'
<1>1. CASE UNCHANGED vars
  <2>1. UNCHANGED <<stored, pricingMode, panel, editor, initRef, seen, settled>>
    BY <1>1 DEF vars, page
  <2>2. TypeInv'
    BY TypeStep DEF EditorInv
  <2>3. WholeInv' /\ RestInv' /\ RawInv' /\ FreshInv' /\ SwitchInv'
    BY <2>1 DEF EditorInv, WholeInv, RestInv, RawInv, FreshInv, SwitchInv, Tiered
  <2> QED
    BY <2>2, <2>3 DEF EditorInv
<1>2. ASSUME NEW e \in Typed, handleRawChange(e) PROVE EditorInv'
  <2>1. e \in Exprs /\ Whole(e)
    BY PriceEditorAssumption DEF RulesOutermost
  <2> QED
    BY <1>2, <2>1, RawChangeInv
<1>3. TypeInv
  BY DEF EditorInv
<1>4. CASE Next
  BY <1>2, <1>3, <1>4, Steps, EffectsInv, EditInv, AddInv, NameInv, CommitInv, ModeInv,
     VisualChangeInv, GroupsChangeInv, ModeChangeInv, PresetInv DEF GroupsStep
<1> QED
  BY <1>1, <1>4

LEMMA EditorStart ==
  ASSUME RulesOutermost, Init
  PROVE  EditorInv
<1>1. Whole(stored)
  BY DEF Init, RulesOutermost
<1>2. /\ editor.mode = "none" /\ editor.rawExpr = Empty /\ panel.billingExpr = Empty
      /\ ~ Tiered
  BY DEF Init, NoEditor, Tiered
<1>3. WholeInv
  BY <1>1, <1>2, EmptyWhole DEF WholeInv
<1>4. RestInv /\ RawInv /\ FreshInv /\ SwitchInv
  BY <1>2 DEF RestInv, RawInv, FreshInv, SwitchInv
<1> QED
  BY <1>3, <1>4, TypeStart DEF EditorInv

\* Once the effects of tiered-pricing-editor.tsx have come to rest, what saving
\* stores is what the editor shows, for any prices, groups and templates, if
\* the readable rules of every text typed or stored are its outermost ones.
\* Without that hypothesis the theorem is false: of a text with two readable
\* layers the second one stays in the price, and is split off it again when
\* the editor is filled anew.
THEOREM PriceShownIsSubmitted ==
  ASSUME RulesOutermost
  PROVE  Spec => []ShownIsSubmitted
<1>1. EditorInv => ShownIsSubmitted
  <2> SUFFICES ASSUME EditorInv, settled, Tiered
               PROVE  \/ /\ editor.mode = "visual"
                         /\ Submitted = combineBillingExpr(
                                          generateExprFromVisualConfig(editor.config),
                                          buildRequestRuleExpr(editor.groups))
                      \/ /\ editor.mode = "raw"
                         /\ canUseVisualRules(panel.requestRuleExpr) =>
                              Submitted = editor.rawExpr
    BY DEF ShownIsSubmitted, Tiered
  <2>1. TypeInv
    BY DEF EditorInv
  <2>2. CASE editor.mode = "visual"
    BY <2>2, AtRest DEF Submitted
  <2>3. CASE editor.mode = "raw"
    <3>1. panel.billingExpr = BaseOf(editor.rawExpr) /\ editor.rawExpr \in Exprs
      BY <2>1, <2>3, AtRest, TypeParts
    <3>2. combineBillingExpr(BaseOf(editor.rawExpr), RuleOf(editor.rawExpr)) = editor.rawExpr
      BY <3>1, SplitParts
    <3>3. editor.rawExpr = Empty => Submitted = Empty
      BY <3>1, EmptyWhole DEF Submitted, combineBillingExpr
    <3>4. canUseVisualRules(panel.requestRuleExpr) =>
            editor.rawExpr = Empty \/ panel.requestRuleExpr = RuleOf(editor.rawExpr)
      BY <2>3 DEF EditorInv, RawInv
    <3> QED
      BY <2>3, <3>1, <3>2, <3>3, <3>4 DEF Submitted
  <2> QED
    BY <2>1, <2>2, <2>3, TypeParts
<1>2. Init => EditorInv
  BY EditorStart
<1>3. EditorInv /\ [Next]_vars => EditorInv'
  BY EditorStep
<1> QED
  BY <1>1, <1>2, <1>3, PTL DEF Spec

-----------------------------------------------------------------------------
(* The price the user has set is kept.                                     *)

LEMMA OneLayer ==
  ASSUME NEW e \in Exprs, e.layers # <<>>, Len(e.layers) <= 1
  PROVE  Len(e.layers) = 1 /\ [e EXCEPT !.layers = Front(@)] = Price(e.base)
<1> DEFINE f == [e EXCEPT !.layers = Front(@)]
           ls == e.layers
           fs == f.layers
           L == Rules \ {<<>>}
<1>1. f \in Exprs /\ f.base = e.base /\ Len(fs) = Len(ls) - 1
  BY TopLayer
<1>2. ls \in Seq(L) /\ ls # <<>> /\ Len(ls) <= 1
  BY ExprFields
<1> HIDE DEF ls, f, L
<1>3. Len(ls) = 1
  <2>1. Len(ls) \in Nat /\ (Len(ls) = 0 => ls = <<>>)
    BY <1>2, EmptySeq, LenProperties
  <2> DEFINE n == Len(ls)
  <2>2. n \in Nat /\ n # 0 /\ n <= 1
    BY <1>2, <2>1, Zenon
  <2> HIDE DEF n
  <2>3. n = 1
    BY <2>2
  <2> QED
    BY <2>3 DEF n
<1>4. Len(fs) = 0 /\ fs \in Seq(L)
  <2>1. fs \in Seq(L)
    BY <1>1, ExprFields DEF L
  <2> QED
    BY <1>1, <1>3, <2>1
<1>5. f.layers = <<>>
  BY <1>4, EmptySeq
<1>6. f = Price(e.base)
  BY <1>1, <1>5, ExprFields DEF Price
<1> QED
  BY <1>3, <1>6 DEF f, ls

\* A price the visual editor can show, with rules it can show, is read as such.
LEMMA ReadableIs ==
  ASSUME NEW e \in Exprs, Readable(e)
  PROVE  /\ e # Empty /\ e.base \in Configs
         /\ BaseOf(e) = generateExprFromVisualConfig(e.base)
         /\ tryParseVisualConfig(BaseOf(e)) = e.base /\ e.base # NoConfig
<1>1. e.base \in Configs /\ Len(e.layers) <= 1
  BY DEF Readable
<1>2. e # Empty /\ e.base # NoConfig
  BY <1>1, ExprFields, Constants
<1>3. BaseOf(e) = Price(e.base)
  <2>1. CASE e.layers = <<>>
    <3>1. BaseOf(e) = e
      BY <2>1 DEF BaseOf, splitBillingExprAndRequestRules
    <3> QED
      BY <2>1, <3>1, ExprFields DEF Price
  <2>2. CASE e.layers # <<>>
    <3>1. Len(e.layers) = 1 /\ [e EXCEPT !.layers = Front(@)] = Price(e.base)
      BY <1>1, <2>2, OneLayer
    <3>2. canUseVisualRules(Last(e.layers))
      BY <3>1 DEF Readable, Last
    <3> QED
      BY <2>2, <3>1, <3>2 DEF BaseOf, splitBillingExprAndRequestRules
  <2> QED
    BY <2>1, <2>2
<1> QED
  BY <1>1, <1>2, <1>3, GenerateIs

\* If the visual editor can show a price with its rules, they can be told apart.
LEMMA ReadableSplit ==
  ASSUME NEW e \in Exprs, NEW rule \in Rules, RuleOf(e) = <<>>,
         Readable(combineBillingExpr(e, rule))
  PROVE  /\ BaseOf(combineBillingExpr(e, rule)) = e
         /\ RuleOf(combineBillingExpr(e, rule)) = rule
         /\ splitBillingExprAndRequestRules(combineBillingExpr(e, rule))
              = [billingExpr |-> e, requestRuleExpr |-> rule]
<1> DEFINE c == combineBillingExpr(e, rule)
<1>1. c \in Exprs /\ c # Empty
  BY CombineIs, ReadableIs
<1>2. e # Empty
  BY <1>1, CombineIs
<1>3. canUseVisualRules(rule)
  <2>1. CASE rule = <<>>
    BY <2>1, EmptyIs
  <2>2. CASE rule # <<>>
    <3>1. Last(c.layers) = rule /\ Len(c.layers) = Len(e.layers) + 1
      BY <1>2, <2>2, CombineIs
    <3>2. Len(e.layers) \in Nat
      BY ExprFields, LenProperties
    <3>3. canUseVisualRules(c.layers[Len(c.layers)])
      BY <3>1, <3>2 DEF Readable
    <3> QED
      BY <3>1, <3>3 DEF Last
  <2> QED
    BY <2>1, <2>2
<1>4. BaseOf(c) = e /\ RuleOf(c) = rule
  BY <1>2, <1>3, CombineWhole
<1>5. splitBillingExprAndRequestRules(c) = [billingExpr |-> BaseOf(c), requestRuleExpr |-> RuleOf(c)]
  BY <1>1, SplitParts
<1> QED
  BY <1>4, <1>5

\* A form with the price and the rules of e.
FormRight(ed, e) ==
  /\ ed.mode = "visual"
  /\ generateExprFromVisualConfig(ed.config) = BaseOf(e)
  /\ buildRequestRuleExpr(ed.groups) = RuleOf(e)

\* An editor filled from the panel shows what the panel has.
LEMMA FilledRight ==
  ASSUME NEW e \in Exprs, Readable(e)
  PROVE  /\ FormRight(TieredPricingEditor(splitBillingExprAndRequestRules(e)), e)
         /\ \A ed \in Editors : FormRight(initialize(ed, splitBillingExprAndRequestRules(e)), e)
         /\ \A ed \in Editors : ed.rawExpr = e => FormRight(toVisualMode(ed), e)
<1> DEFINE p == splitBillingExprAndRequestRules(e)
<1>1. /\ p \in Panels /\ RuleOf(e) \in Rules /\ canUseVisualRules(RuleOf(e))
      /\ p.billingExpr = BaseOf(e) /\ p.requestRuleExpr = RuleOf(e)
  BY SplitParts DEF BaseOf, RuleOf
<1>2. /\ tryParseVisualConfig(BaseOf(e)) = e.base /\ e.base # NoConfig
      /\ generateExprFromVisualConfig(e.base) = BaseOf(e)
  BY ReadableIs
<1>3. buildRequestRuleExpr(tryParseRequestRuleExpr(RuleOf(e))) = RuleOf(e)
  BY <1>1, ReadBack
<1> HIDE DEF p
<1>4. FormRight(TieredPricingEditor(p), e)
  BY <1>1, <1>2, <1>3, MountIs DEF FormRight
<1>5. ASSUME NEW ed \in Editors PROVE FormRight(initialize(ed, p), e)
  BY <1>1, <1>2, <1>3, InitializeIs DEF FormRight
<1>6. ASSUME NEW ed \in Editors, ed.rawExpr = e PROVE FormRight(toVisualMode(ed), e)
  BY <1>2, <1>3, <1>6, ToVisualIs DEF FormRight
<1> QED
  BY <1>4, <1>5, <1>6 DEF p

\* At rest the panel has the price as well.
LEMMA RestRight ==
  ASSUME EditorInv, KeptInv, ~ exempt, settled, Tiered
  PROVE  Readable(intended) /\ PanelRight
<1>1. Readable(intended) /\ EditorRight /\ TypeInv
  BY DEF KeptInv, EditorInv
<1>2. /\ intended \in Exprs
      /\ panel = [billingExpr |-> panel.billingExpr, requestRuleExpr |-> panel.requestRuleExpr]
  BY <1>1, TypeParts
<1>3. panel.billingExpr = BaseOf(intended) /\ panel.requestRuleExpr = RuleOf(intended)
  BY <1>1, AtRest DEF EditorRight
<1> QED
  BY <1>1, <1>2, <1>3, SplitParts DEF PanelRight

\* A new editor on a panel that has the price.
LEMMA MountedKept ==
  ASSUME NEW mode \in {"tiered_expr", "other"}, NEW p \in Panels, Render(mode, p),
         intended' \in Exprs, Readable(intended'),
         p = splitBillingExprAndRequestRules(intended')
  PROVE  KeptInv'
<1>1. PanelRight'
  BY DEF Render, PanelRight
<1>2. CASE mode = "tiered_expr"
  <2>1. editor' = TieredPricingEditor(p)
    BY <1>2 DEF Render
  <2>2. FormRight(editor', intended')
    BY <2>1, FilledRight
  <2>3. EditorRight'
    BY <2>2 DEF FormRight, EditorRight
  <2>4. Tiered'
    BY <1>2 DEF Render, Tiered
  <2> QED
    BY <1>1, <2>3, <2>4 DEF KeptInv
<1>3. CASE mode = "other"
  <2>1. ~ Tiered'
    BY <1>3 DEF Render, Tiered
  <2> QED
    BY <1>1, <2>1 DEF KeptInv
<1> QED
  BY <1>2, <1>3

LEMMA EffectsKept ==
  ASSUME EditorInv, KeptInv, useEffects
  PROVE  KeptInv'
<1> SUFFICES ASSUME ~ exempt PROVE Readable(intended') /\ EditorRight' /\ PanelRight'
  BY EffectsAre DEF KeptInv
<1>1. /\ Readable(intended) /\ EditorRight /\ (PanelRight \/ initRef \/ seen = panel)
      /\ intended' = intended /\ TypeInv
  BY EffectsAre DEF KeptInv
<1>2. intended \in Exprs /\ editor \in Editors
  BY <1>1, TypeParts, EffectsAre
<1>3. EditorRight'
  <2>1. CASE First
    <3>1. editor' = initialize(editor, splitBillingExprAndRequestRules(intended))
      BY <1>1, <2>1, EffectsAre DEF First, PanelRight
    <3>2. FormRight(editor', intended')
      BY <1>1, <1>2, <3>1, FilledRight
    <3> QED
      BY <3>2 DEF FormRight, EditorRight
  <2>2. CASE ~ First
    <3>1. /\ editor' = editor
          /\ editor.mode = "raw" => panel'.requestRuleExpr = panel.requestRuleExpr
      BY <2>2, EffectsAre
    <3> QED
      BY <1>1, <3>1 DEF EditorRight
  <2> QED
    BY <2>1, <2>2
<1>4. PanelRight'
  <2>1. panel'.billingExpr = BaseOf(intended) /\ panel'.requestRuleExpr = RuleOf(intended)
    BY <1>1, EffectsAre DEF EditorRight
  <2>2. panel' = [billingExpr |-> panel'.billingExpr, requestRuleExpr |-> panel'.requestRuleExpr]
    BY EffectsAre DEF Panels
  <2> QED
    BY <1>1, <1>2, <2>1, <2>2, SplitParts DEF PanelRight
<1> QED
  BY <1>1, <1>3, <1>4

LEMMA EditKept ==
  ASSUME EditorInv, handleEdit
  PROVE  KeptInv'
<1> SUFFICES ASSUME ~ exempt' PROVE KeptInv'
  BY DEF KeptInv
<1> DEFINE mode == IF stored = Empty THEN "other" ELSE "tiered_expr"
           p == splitBillingExprAndRequestRules(stored)
<1>1. Readable(stored) /\ intended' = stored
  BY DEF handleEdit, IntendsAfresh
<1>2. stored \in Exprs /\ p \in Panels /\ mode \in {"tiered_expr", "other"}
  BY TypeParts, SplitParts DEF EditorInv
<1>3. Render(mode, p)
  BY DEF handleEdit
<1> HIDE DEF mode
<1> QED
  BY <1>1, <1>2, <1>3, MountedKept

LEMMA NothingUnreadable == ~ Readable(Empty)
  BY Constants DEF Readable, Empty, Price

LEMMA AddKept ==
  ASSUME handleAdd
  PROVE  KeptInv'
<1>1. exempt'
  BY NothingUnreadable DEF handleAdd, IntendsAfresh
<1> QED
  BY <1>1 DEF KeptInv

LEMMA NameKept ==
  ASSUME KeptInv, typeName
  PROVE  KeptInv'
<1>1. UNCHANGED <<pricingMode, panel, editor, initRef, seen, intended, exempt>>
  BY DEF typeName, history
<1> QED
  BY <1>1 DEF KeptInv, Tiered, EditorRight, PanelRight, Readable

LEMMA ModeKept ==
  ASSUME EditorInv, KeptInv, NEW mode \in {"tiered_expr", "other"},
         handlePricingModeChange(mode)
  PROVE  KeptInv'
<1> SUFFICES ASSUME ~ exempt' PROVE KeptInv'
  BY DEF KeptInv
<1>1. /\ TypeInv /\ panel \in Panels /\ intended \in Exprs
      /\ panel.billingExpr \in Exprs /\ panel.requestRuleExpr \in Rules
      /\ RuleOf(panel.billingExpr) = <<>> /\ settled /\ mode # pricingMode
      /\ (Tiered \/ pricingMode = "other")
  BY TypeParts, OtherTab DEF EditorInv, WholeInv, handlePricingModeChange
<1>2. CASE mode = "tiered_expr" /\ panel.billingExpr = Empty
  <2> DEFINE p == [panel EXCEPT !.billingExpr = Price(Default)]
             e == combineBillingExpr(Price(Default), panel.requestRuleExpr)
  <2>1. Render(mode, p) /\ Readable(e) /\ intended' = e
    BY <1>2 DEF handlePricingModeChange, IntendsAfresh
  <2>2. p \in Panels /\ p = [billingExpr |-> Price(Default),
                             requestRuleExpr |-> panel.requestRuleExpr]
    BY <1>1, DefaultIs DEF Panels
  <2>3. e \in Exprs /\ splitBillingExprAndRequestRules(e) = p
    BY <1>1, <2>1, <2>2, DefaultIs, CombineIs, ReadableSplit
  <2> HIDE DEF p, e
  <2> QED
    BY <2>1, <2>2, <2>3, MountedKept
<1>3. CASE ~ (mode = "tiered_expr" /\ panel.billingExpr = Empty)
  <2>1. /\ Render(mode, panel) /\ intended' = intended /\ exempt' = exempt
    BY <1>3 DEF handlePricingModeChange, history
  <2>2. CASE Tiered
    <3>1. Readable(intended) /\ PanelRight
      BY <1>1, <2>1, <2>2, RestRight
    <3> QED
      BY <1>1, <2>1, <3>1, MountedKept DEF PanelRight
  <2>3. CASE ~ Tiered
    <3>1. mode = "tiered_expr" /\ panel.billingExpr # Empty
      BY <1>1, <1>3, <2>3
    <3>2. Readable(intended) /\ PanelRight
      BY <2>1, <2>3, <3>1 DEF KeptInv
    <3> QED
      BY <1>1, <2>1, <3>2, MountedKept DEF PanelRight
  <2> QED
    BY <2>2, <2>3
<1> QED
  BY <1>2, <1>3

LEMMA CommitKept ==
  ASSUME EditorInv, commitOpenEditor
  PROVE  KeptInv'
<1> SUFFICES ASSUME ~ exempt' PROVE KeptInv'
  BY DEF KeptInv
<1>1. /\ panel \in Panels /\ RuleOf(panel.billingExpr) = <<>>
      /\ panel.billingExpr \in Exprs /\ panel.requestRuleExpr \in Rules
      /\ panel = [billingExpr |-> panel.billingExpr, requestRuleExpr |-> panel.requestRuleExpr]
  BY TypeParts DEF EditorInv, WholeInv
<1>2. Readable(stored') /\ intended' = stored'
  BY DEF commitOpenEditor, IntendsAfresh
<1>3. Tiered
  BY <1>2, NothingUnreadable DEF commitOpenEditor, Tiered
<1>4. Render("tiered_expr", panel) /\ stored' = Submitted
  BY <1>3 DEF commitOpenEditor, Tiered
<1>5. Submitted \in Exprs /\ splitBillingExprAndRequestRules(Submitted) = panel
  BY <1>1, <1>2, <1>4, CombineIs, ReadableSplit DEF Submitted
<1> QED
  BY <1>1, <1>2, <1>4, <1>5, MountedKept

\* An event in the editor that leaves the panel as it was.
LEMMA SamePanel ==
  ASSUME TypeInv, NEW ed, NEW rule, Shows(ed, rule), rule = panel.requestRuleExpr
  PROVE  panel' = panel
<1>1. panel = [billingExpr |-> panel.billingExpr, requestRuleExpr |-> panel.requestRuleExpr]
  BY TypeParts
<1> QED
  BY <1>1 DEF Shows

\* An event that sets the price and the rules of the form, one by effects.
LEMMA FormKept ==
  ASSUME EditorInv, settled, Tiered, NEW ed, NEW e \in Exprs, NEW rule \in Rules,
         Shows(ed, panel.requestRuleExpr), RuleOf(e) = <<>>,
         ed.mode = "visual", generateExprFromVisualConfig(ed.config) = e,
         buildRequestRuleExpr(ed.groups) = rule,
         Intends(combineBillingExpr(e, rule))
  PROVE  KeptInv'
<1> SUFFICES ASSUME ~ exempt' PROVE KeptInv'
  BY DEF KeptInv
<1>1. Readable(combineBillingExpr(e, rule)) /\ intended' = combineBillingExpr(e, rule)
  BY DEF Intends
<1>2. BaseOf(intended') = e /\ RuleOf(intended') = rule
  BY <1>1, ReadableSplit
<1>3. editor' = ed /\ seen' = seen /\ Tiered'
  BY DEF Shows, Tiered, page
<1>4. EditorRight'
  BY <1>2, <1>3 DEF EditorRight
<1>5. seen' = panel'
  BY <1>3, AtRest, SamePanel DEF EditorInv
<1> QED
  BY <1>1, <1>3, <1>4, <1>5 DEF KeptInv

LEMMA VisualChangeKept ==
  ASSUME EditorInv, NEW config \in Configs, handleVisualChange(config)
  PROVE  KeptInv'
<1> DEFINE ed == [editor EXCEPT !.config = config]
           rule == buildRequestRuleExpr(editor.groups)
<1>1. Tiered /\ settled /\ editor \in Editors /\ editor.mode = "visual"
  BY EditingIs DEF EditorInv, handleVisualChange
<1>2. ed.mode = "visual" /\ ed.config = config /\ ed.groups = editor.groups
  BY <1>1 DEF Editors
<1>3. /\ Price(config) \in Exprs /\ generateExprFromVisualConfig(config) = Price(config)
      /\ RuleOf(Price(config)) = <<>> /\ rule \in Rules
  BY <1>1, GenerateIs, GenerateWhole, BuildType DEF Editors
<1>4. Shows(ed, panel.requestRuleExpr) /\ Intends(combineBillingExpr(Price(config), rule))
  BY DEF handleVisualChange
<1>5. buildRequestRuleExpr(ed.groups) = rule
  BY <1>2
<1> HIDE DEF ed, rule
<1> QED
  BY <1>1, <1>2, <1>3, <1>4, <1>5, FormKept

LEMMA GroupsChangeKept ==
  ASSUME EditorInv, NEW gs \in Seq(RuleGroup), handleRuleGroupsChange(gs)
  PROVE  KeptInv'
<1> DEFINE ed == [editor EXCEPT !.groups = gs]
           base == generateExprFromVisualConfig(editor.config)
           rule == buildRequestRuleExpr(gs)
<1>1. Tiered /\ settled /\ editor \in Editors /\ editor.mode = "visual"
  BY EditingIs DEF EditorInv, handleRuleGroupsChange
<1>2. ed.mode = "visual" /\ ed.config = editor.config /\ ed.groups = gs
  BY <1>1 DEF Editors
<1>3. base \in Exprs /\ RuleOf(base) = <<>> /\ rule \in Rules
  BY <1>1, GenerateIs, GenerateWhole, BuildType DEF Editors
<1>4. Shows(ed, panel.requestRuleExpr) /\ Intends(combineBillingExpr(base, rule))
  BY DEF handleRuleGroupsChange
<1>5. generateExprFromVisualConfig(ed.config) = base /\ buildRequestRuleExpr(ed.groups) = rule
  BY <1>2
<1> HIDE DEF ed, base, rule
<1> QED
  BY <1>1, <1>2, <1>3, <1>4, <1>5, FormKept

\* An event that hands the rules of e to the panel at once: the first effect,
\* if armed, finds the panel as it was, or with the whole of e.
LEMMA AtOnce ==
  ASSUME EditorInv, settled, Tiered, NEW ed, NEW e \in Exprs, Shows(ed, RuleOf(e)),
         IntendsAtOnce(e), ~ exempt'
  PROVE  /\ Readable(intended') /\ intended' = e /\ editor' = ed /\ Tiered'
         /\ panel'.requestRuleExpr = RuleOf(e)
         /\ (PanelRight \/ initRef \/ seen = panel)'
<1>1. /\ Readable(e) /\ intended' = e
      /\ initRef \/ RuleOf(e) = panel.requestRuleExpr \/ BaseOf(e) = panel.billingExpr
  BY DEF IntendsAtOnce, BaseOf, RuleOf
<1>2. editor' = ed /\ seen' = seen /\ initRef' = initRef /\ Tiered'
  BY DEF Shows, Tiered, page
<1>3. panel' = [billingExpr |-> panel.billingExpr, requestRuleExpr |-> RuleOf(e)]
  <2>1. panel \in Panels /\ panel' = [panel EXCEPT !.requestRuleExpr = RuleOf(e)]
    BY TypeParts DEF EditorInv, Shows
  <2> QED
    BY <2>1 DEF Panels
<1>4. RuleOf(e) = panel.requestRuleExpr => seen' = panel'
  BY <1>2, AtRest, SamePanel DEF EditorInv
<1>5. BaseOf(e) = panel.billingExpr => PanelRight'
  BY <1>1, <1>3, SplitParts DEF PanelRight
<1> QED
  BY <1>1, <1>2, <1>3, <1>4, <1>5

LEMMA RawChangeKept ==
  ASSUME EditorInv, NEW e \in Exprs, handleRawChange(e)
  PROVE  KeptInv'
<1> SUFFICES ASSUME ~ exempt' PROVE KeptInv'
  BY DEF KeptInv
<1> DEFINE ed == [editor EXCEPT !.rawExpr = e]
<1>1. Tiered /\ settled /\ editor \in Editors /\ editor.mode = "raw"
  BY EditingIs DEF EditorInv, handleRawChange
<1>2. ed.mode = "raw" /\ ed.rawExpr = e
  BY <1>1 DEF Editors
<1>3. Shows(ed, RuleOf(e)) /\ IntendsAtOnce(e)
  BY DEF handleRawChange, RuleOf
<1> HIDE DEF ed
<1>4. /\ Readable(intended') /\ intended' = e /\ editor' = ed /\ Tiered'
      /\ panel'.requestRuleExpr = RuleOf(e)
      /\ (PanelRight \/ initRef \/ seen = panel)'
  BY <1>1, <1>3, AtOnce
<1>5. EditorRight'
  BY <1>2, <1>4 DEF EditorRight
<1> QED
  BY <1>4, <1>5 DEF KeptInv

LEMMA PresetKept ==
  ASSUME EditorInv, NEW preset \in Presets, applyPreset(preset)
  PROVE  KeptInv'
<1> SUFFICES ASSUME ~ exempt' PROVE KeptInv'
  BY DEF KeptInv
<1> DEFINE rule == buildRequestRuleExpr(preset.requestRules)
           base == Price(preset.expr)
           e == combineBillingExpr(base, rule)
           ed == PresetEditor(preset)
<1>1. preset.requestRules \in Seq(RuleGroup) /\ base.base = preset.expr
  BY PresetIs
<1>2. rule \in Rules /\ base \in Exprs /\ RuleOf(base) = <<>>
  BY <1>1, BuildType, PresetIs
<1>3. Shows(ed, rule) /\ IntendsAtOnce(e) /\ (Editing("visual") \/ Editing("raw"))
  BY DEF applyPreset, PresetEditor
<1>5. Tiered /\ settled
  BY <1>3, EditingIs DEF EditorInv
<1>6. Readable(e) /\ e \in Exprs /\ preset.expr \in Configs
  <2> HIDE DEF base, rule, ed
  <2> QED
    BY <1>1, <1>2, <1>3, CombineIs DEF IntendsAtOnce, Readable
<1>4. /\ ed.mode = "visual" /\ generateExprFromVisualConfig(ed.config) = base
      /\ buildRequestRuleExpr(ed.groups) = rule
  <2>1. tryParseVisualConfig(base) = preset.expr /\ preset.expr # NoConfig
        /\ generateExprFromVisualConfig(preset.expr) = base
    BY <1>6, PresetIs, Constants
  <2> QED
    BY <2>1 DEF PresetEditor
<1> HIDE DEF ed, rule, base
<1>7. BaseOf(e) = base /\ RuleOf(e) = rule
  BY <1>2, <1>6, ReadableSplit
<1> HIDE DEF e
<1>8. Shows(ed, RuleOf(e))
  BY <1>3, <1>7
<1>9. /\ Readable(intended') /\ intended' = e /\ editor' = ed /\ Tiered'
      /\ (PanelRight \/ initRef \/ seen = panel)'
  BY <1>3, <1>5, <1>6, <1>8, AtOnce
<1>10. EditorRight'
  BY <1>2, <1>4, <1>7, <1>9 DEF EditorRight
<1> QED
  BY <1>9, <1>10 DEF KeptInv

LEMMA ModeChangeKept ==
  ASSUME EditorInv, KeptInv, handleModeChange
  PROVE  KeptInv'
<1> SUFFICES ASSUME ~ exempt' PROVE KeptInv'
  BY DEF KeptInv
<1>1. ~ exempt /\ intended' = intended /\ exempt' = exempt /\ TypeInv
  BY DEF handleModeChange, history, EditorInv
<1>2. intended \in Exprs /\ editor.groups \in Seq(RuleGroup)
  BY <1>1, TypeParts
<1>3. CASE Editing("raw") /\ Shows(toVisualMode(editor), RuleOf(editor.rawExpr))
  <2>1. Tiered /\ settled /\ editor \in Editors /\ editor.mode = "raw"
    BY <1>1, <1>3, EditingIs
  <2>2. /\ Readable(intended) /\ editor.rawExpr = intended
        /\ panel.requestRuleExpr = RuleOf(intended)
    BY <1>1, <2>1 DEF KeptInv, EditorRight
  <2>3. editor' = toVisualMode(editor) /\ seen' = seen /\ Tiered'
    BY <1>3, <2>1 DEF Shows, Tiered, page
  <2>4. FormRight(editor', intended')
    BY <1>1, <1>2, <2>1, <2>2, <2>3, FilledRight
  <2>5. EditorRight'
    BY <2>4 DEF FormRight, EditorRight
  <2>6. seen' = panel'
    BY <1>1, <1>3, <2>1, <2>2, <2>3, AtRest, SamePanel
  <2> QED
    BY <1>1, <2>2, <2>3, <2>5, <2>6 DEF KeptInv
<1>4. CASE Editing("visual") /\ Shows(toRawMode(editor), panel.requestRuleExpr)
  <2>1. Tiered /\ settled /\ editor \in Editors /\ editor.mode = "visual"
    BY <1>1, <1>4, EditingIs
  <2>2. /\ Readable(intended)
        /\ generateExprFromVisualConfig(editor.config) = BaseOf(intended)
        /\ buildRequestRuleExpr(editor.groups) = RuleOf(intended)
    BY <1>1, <2>1 DEF KeptInv, EditorRight
  <2>3. editor' = toRawMode(editor) /\ seen' = seen /\ Tiered'
    BY <1>4, <2>1 DEF Shows, Tiered, page
  <2>4. editor'.mode = "raw" /\ editor'.rawExpr = intended
    BY <1>2, <2>1, <2>2, <2>3, ToRawIs, SplitParts
  <2>5. panel' = panel /\ panel.requestRuleExpr = RuleOf(intended) /\ seen = panel
    BY <1>1, <1>4, <2>1, <2>2, AtRest, SamePanel
  <2>6. EditorRight'
    BY <1>1, <2>4, <2>5 DEF EditorRight
  <2> QED
    BY <1>1, <2>2, <2>3, <2>5, <2>6 DEF KeptInv
<1> QED
  BY <1>3, <1>4 DEF handleModeChange, RuleOf

LEMMA KeptStep ==
  ASSUME EditorInv, KeptInv, [Next]_vars
  PROVE  KeptInv'
<1>1. CASE UNCHANGED vars
  <2>1. UNCHANGED <<pricingMode, panel, editor, initRef, seen, intended, exempt>>
    BY <1>1 DEF vars, page, history
  <2> QED
    BY <2>1 DEF KeptInv, Tiered, EditorRight, PanelRight, Readable
<1>2. ASSUME NEW e \in Typed, handleRawChange(e) PROVE KeptInv'
  <2>1. e \in Exprs
    BY PriceEditorAssumption
  <2> QED
    BY <1>2, <2>1, RawChangeKept
<1>3. TypeInv
  BY DEF EditorInv
<1>4. CASE Next
  BY <1>2, <1>3, <1>4, Steps, EffectsKept, EditKept, AddKept, NameKept, CommitKept, ModeKept,
     VisualChangeKept, GroupsChangeKept, ModeChangeKept, PresetKept DEF GroupsStep
<1> QED
  BY <1>1, <1>4

\* The price and the rules the user has set are the ones that saving stores,
\* however often the effects of tiered-pricing-editor.tsx have copied them
\* between the panel and the editor, through renames, changes of tab and mode,
\* saves and reopenings: if the visual editor can show them and writes them
\* again as they are (it does not where a coefficient is written as zero), and
\* none of the events behind the exceptions has lost them.
THEOREM PriceSurvives ==
  ASSUME RulesOutermost
  PROVE  Spec => []PriceSurvivesEditor
<1>1. EditorInv /\ KeptInv => PriceSurvivesEditor
  <2> SUFFICES ASSUME EditorInv, KeptInv, settled, Tiered, ~ exempt
               PROVE  Submitted = intended
    BY DEF PriceSurvivesEditor, Tiered
  <2>1. PanelRight /\ intended \in Exprs
    BY RestRight, TypeParts DEF EditorInv
  <2> QED
    BY <2>1, SplitParts DEF PanelRight, Submitted, BaseOf, RuleOf
<1>2. Init => EditorInv /\ KeptInv
  <2>1. Init => KeptInv
    BY DEF Init, KeptInv, Tiered
  <2> QED
    BY <2>1, EditorStart
<1>3. EditorInv /\ KeptInv /\ [Next]_vars => EditorInv' /\ KeptInv'
  BY EditorStep, KeptStep
<1> QED
  BY <1>1, <1>2, <1>3, PTL DEF Spec

=============================================================================
