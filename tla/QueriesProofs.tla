---------------------------- MODULE QueriesProofs ----------------------------
EXTENDS Queries, FiniteSetTheorems, SequenceTheorems, WellFoundedInduction, TLAPS

-----------------------------------------------------------------------------
(* Induction                                                                 *)

LessThan == {p \in Nat \X Nat : p[1] < p[2]}

\* A set that has every number whose smaller ones it has has them all: there is no least
\* one that it has not.
LEMMA Induction ==
    ASSUME NEW S, \A m \in Nat : (\A l \in 0..(m - 1) : l \in S) => m \in S
    PROVE  \A m \in Nat : m \in S
  <1> SUFFICES ASSUME Nat \ S # {} PROVE FALSE
    OBVIOUS
  <1> DEFINE left == Nat \ S
  <1>1. LessThan = OpToRel(<, Nat)
    BY DEF LessThan, OpToRel
  <1>2. IsWellFoundedOn(LessThan, Nat)
    BY <1>1, NatLessThanWellFounded
  <1>3. PICK m \in left : \A l \in left : <<l, m>> \notin LessThan
    <2>1. left \subseteq Nat /\ left # {}
      OBVIOUS
    <2> HIDE DEF left
    <2> QED BY <1>2, <2>1, WFMin
  <1>4. ASSUME NEW l \in 0..(m - 1) PROVE l \in S
    <2>1. l \in Nat /\ m \in Nat /\ l < m
      BY <1>4
    <2>2. <<l, m>> \in LessThan
      BY <2>1 DEF LessThan
    <2> QED BY <1>3, <2>1, <2>2
  <1> QED BY <1>3, <1>4

\* The same, one step at a time.
LEMMA StepInduction ==
    ASSUME NEW n \in Nat, NEW S, 0 \in S, \A m \in 1..n : m - 1 \in S => m \in S
    PROVE  \A m \in 0..n : m \in S
  <1> DEFINE T == {m \in Nat : m <= n => m \in S}
  <1>1. ASSUME NEW m \in Nat, \A l \in 0..(m - 1) : l \in T PROVE m \in T
    <2>1. CASE m = 0
      BY <2>1
    <2>2. CASE m # 0
      <3>1. m - 1 \in 0..(m - 1) /\ m - 1 \in Nat
        BY <2>2
      <3>2. m - 1 \in T
        BY <1>1, <3>1
      <3> QED BY <2>2, <3>2
    <2> QED BY <2>1, <2>2
  <1>2. \A m \in Nat : m \in T
    <2> HIDE DEF T
    <2> QED BY <1>1, Induction
  <1> QED BY <1>2

-----------------------------------------------------------------------------
(* The recursive functions are what their equations say                      *)

Bracket(t) == IF t = "(" THEN 1 ELSE IF t = ")" THEN -1 ELSE 0

LEMMA DepthIs ==
    ASSUME NEW tokens \in Seq(STRING)
    PROVE  /\ Depth(tokens) \in [0..Len(tokens) -> Int]
           /\ Depth(tokens)[0] = 0
           /\ \A i \in 1..Len(tokens) :
                 Depth(tokens)[i] = Depth(tokens)[i - 1] + Bracket(tokens[i])
  <1> DEFINE n == Len(tokens)
             At(f, i) == IF i = 0 THEN 0 ELSE f[i - 1] + Bracket(tokens[i])
             Body(f) == [i \in 0..n |-> CASE i = 0 -> 0
                                          [] i > 0 /\ tokens[i] = "(" -> f[i - 1] + 1
                                          [] i > 0 /\ tokens[i] = ")" -> f[i - 1] - 1
                                          [] OTHER -> f[i - 1]]
             Upto(f, m) == f \in [0..m -> Int] /\ \A i \in 0..m : f[i] = At(f, i)
             S == {m \in 0..n : \E f : Upto(f, m)}
             depth == CHOOSE f : f = Body(f)
  <1>1. n \in Nat
    OBVIOUS
  <1>2. 0 \in S
    <2> DEFINE f == [i \in 0..0 |-> 0]
    <2>1. Upto(f, 0)
      OBVIOUS
    <2> HIDE DEF f, Upto
    <2> QED BY <2>1, <1>1
  <1>3. ASSUME NEW m \in 1..n, m - 1 \in S PROVE m \in S
    <2>1. PICK f : Upto(f, m - 1)
      BY <1>3
    <2> DEFINE g == [i \in 0..m |-> IF i = m THEN f[m - 1] + Bracket(tokens[m]) ELSE f[i]]
    <2>2. g \in [0..m -> Int]
      BY <2>1 DEF Bracket
    <2>3. ASSUME NEW i \in 0..m PROVE g[i] = At(g, i)
      <3>1. CASE i = m
        BY <3>1
      <3>2. CASE i < m
        <4>1. i \in 0..(m - 1) /\ (i # 0 => i - 1 \in 0..(m - 1))
          BY <3>2
        <4>2. f[i] = At(f, i)
          BY <2>1, <4>1
        <4> QED BY <4>1, <4>2, <3>2
      <3> QED BY <3>1, <3>2
    <2>4. Upto(g, m)
      BY <2>2, <2>3
    <2> HIDE DEF g, Upto
    <2> QED BY <2>4, <1>3
  <1>4. n \in S
    <2> HIDE DEF S, n
    <2>1. \A m \in 0..n : m \in S
      BY <1>1, <1>2, <1>3, StepInduction
    <2> QED BY <2>1, <1>1
  <1>5. PICK f : Upto(f, n)
    BY <1>4
  <1>6. \A g : (\A i \in 1..n : g[i - 1] \in Int) => \A i \in 0..n : Body(g)[i] = At(g, i)
    BY DEF Bracket
  <1>7. f = Body(f)
    <2>1. \A i \in 1..n : i - 1 \in 0..n
      BY <1>1
    <2>2. \A i \in 1..n : f[i - 1] \in Int
      BY <1>5, <2>1
    <2>3. \A i \in 0..n : Body(f)[i] = f[i]
      BY <1>5, <1>6, <2>2
    <2>4. DOMAIN f = 0..n /\ f = [i \in 0..n |-> f[i]]
      BY <1>5
    <2> QED BY <2>3, <2>4
  <1>8. depth = Body(depth)
    BY <1>7
  <1>9. Depth(tokens) = depth
    BY DEF Depth
  <1> DEFINE T == {m \in 0..n : depth[m] = f[m]}
  <1> HIDE DEF depth
  <1>10. 0 \in T
    BY <1>1, <1>5, <1>8
  <1>11. ASSUME NEW m \in 1..n, m - 1 \in T PROVE m \in T
    <2>1. f[m] = Body(f)[m] /\ depth[m] = Body(depth)[m]
      BY <1>7, <1>8
    <2> QED BY <1>11, <2>1
  <1>12. \A m \in 0..n : m \in T
    <2> HIDE DEF T, n
    <2> QED BY <1>1, <1>10, <1>11, StepInduction
  <1>13. depth = f
    BY <1>8, <1>7, <1>12
  <1> QED BY <1>5, <1>9, <1>13
\* What the rules read from i depends on what they read from later places.
IsParsing(P, tokens) ==
    /\ DOMAIN P = 1..(Len(tokens) + 1)
    /\ \A i \in 1..(Len(tokens) + 1) :
          P[i] = RulesAt(tokens, i, [j \in (i + 1)..(Len(tokens) + 1) |-> P[j]])

LEMMA ParsingIs ==
    ASSUME NEW tokens \in Seq(STRING)
    PROVE  IsParsing(Parsing(tokens), tokens)
  <1> DEFINE n == Len(tokens)
             Extend(i, later) ==
                [j \in i..(n + 1) |-> IF j = i THEN RulesAt(tokens, i, later) ELSE later[j]]
             Body(f) == [i \in 1..(n + 2) |-> IF i = n + 2 THEN <<>> ELSE Extend(i, f[i + 1])]
             Down(f, m) == f = [i \in (n + 2 - m)..(n + 2) |->
                                    IF i = n + 2 THEN <<>> ELSE Extend(i, f[i + 1])]
             S == {m \in 0..(n + 1) : \E f : Down(f, m)}
             from == CHOOSE f : f = Body(f)
  <1>1. n \in Nat
    OBVIOUS
  <1>2. 0 \in S
    <2> DEFINE f == [i \in (n + 2)..(n + 2) |-> <<>>]
    <2>1. Down(f, 0)
      <3> HIDE DEF Extend
      <3> QED OBVIOUS
    <2> HIDE DEF f, Down
    <2> QED BY <2>1, <1>1
  <1>3. ASSUME NEW m \in 1..(n + 1), m - 1 \in S PROVE m \in S
    <2>1. PICK f : Down(f, m - 1)
      BY <1>3
    <2> DEFINE p == n + 2 - m
               g == [i \in p..(n + 2) |-> IF i = p THEN Extend(p, f[p + 1]) ELSE f[i]]
    <2> HIDE DEF Extend
    <2>2. p \in 1..(n + 1) /\ n + 2 - (m - 1) = p + 1
      OBVIOUS
    <2>3. ASSUME NEW i \in p..(n + 2)
          PROVE  g[i] = IF i = n + 2 THEN <<>> ELSE Extend(i, g[i + 1])
      <3>1. CASE i = p
        <4>1. p + 1 \in p..(n + 2) /\ p + 1 # p /\ p # n + 2
          BY <2>2
        <4>2. g[p + 1] = f[p + 1]
          BY <4>1
        <4> QED BY <3>1, <4>1, <4>2
      <3>2. CASE i # p
        <4>1. i \in (p + 1)..(n + 2)
          BY <2>2, <3>2
        <4>2. f[i] = IF i = n + 2 THEN <<>> ELSE Extend(i, f[i + 1])
          BY <2>1, <2>2, <4>1
        <4>3. i # n + 2 => i + 1 \in p..(n + 2) /\ i + 1 # p
          BY <2>2, <4>1
        <4>4. i # n + 2 => g[i + 1] = f[i + 1]
          BY <4>3
        <4> QED BY <3>2, <4>2, <4>4
      <3> QED BY <3>1, <3>2
    <2>4. Down(g, m)
      <3>1. g = [i \in p..(n + 2) |-> g[i]]
        OBVIOUS
      <3> HIDE DEF g
      <3> QED BY <2>3, <3>1
    <2> HIDE DEF g, Down
    <2> QED BY <2>4, <1>3
  <1>4. n + 1 \in S
    <2> HIDE DEF S
    <2>1. n + 1 \in Nat /\ n + 1 \in 0..(n + 1)
      BY <1>1
    <2>2. \A m \in 0..(n + 1) : m \in S
      <3> HIDE DEF n
      <3> QED BY <2>1, <1>2, <1>3, StepInduction
    <2> QED BY <2>1, <2>2
  <1>5. PICK f : Down(f, n + 1)
    BY <1>4
  <1>6. f = Body(f)
    <2> HIDE DEF Extend
    <2>1. n + 2 - (n + 1) = 1
      BY <1>1
    <2> QED BY <1>5, <2>1
  <1>7. from = Body(from)
    <2> HIDE DEF Body
    <2> QED BY <1>6
  <1>8. Parsing(tokens) = from[1]
    BY DEF Parsing
  <1> HIDE DEF from
  <1>9. ASSUME NEW i \in 1..(n + 1) PROVE from[i] = Extend(i, from[i + 1])
    <2>1. i \in 1..(n + 2) /\ i # n + 2
      BY <1>1
    <2> HIDE DEF Extend
    <2> QED BY <1>7, <2>1
  <1> DEFINE P == from[1]
             T == {m \in 0..n : from[m + 1] = [j \in (m + 1)..(n + 1) |-> P[j]]}
  <1>10. 0 \in T
    <2>1. from[1] = Extend(1, from[2])
      BY <1>1, <1>9
    <2> QED BY <1>1, <2>1
  <1>11. ASSUME NEW m \in 1..n, m - 1 \in T PROVE m \in T
    <2>1. from[m] = [j \in m..(n + 1) |-> P[j]]
      BY <1>11
    <2>2. from[m] = Extend(m, from[m + 1]) /\ from[m + 1] = Extend(m + 1, from[m + 2])
      <3>1. m \in 1..(n + 1) /\ m + 1 \in 1..(n + 1) /\ (m + 1) + 1 = m + 2
        BY <1>1
      <3> HIDE DEF Extend
      <3> QED BY <1>9, <3>1
    <2>3. ASSUME NEW j \in (m + 1)..(n + 1) PROVE from[m + 1][j] = P[j]
      <3>1. j \in m..(n + 1) /\ j # m
        BY <1>1
      <3>2. from[m][j] = P[j]
        BY <2>1, <3>1
      <3>3. from[m][j] = from[m + 1][j]
        BY <2>2, <3>1
      <3> QED BY <3>2, <3>3
    <2>4. from[m + 1] = [j \in (m + 1)..(n + 1) |-> from[m + 1][j]]
      <3>1. DOMAIN Extend(m + 1, from[m + 2]) = (m + 1)..(n + 1)
        OBVIOUS
      <3>2. Extend(m + 1, from[m + 2]) = [j \in (m + 1)..(n + 1) |-> Extend(m + 1, from[m + 2])[j]]
        OBVIOUS
      <3> HIDE DEF Extend
      <3> QED BY <2>2, <3>2
    <2>5. from[m + 1] = [j \in (m + 1)..(n + 1) |-> P[j]]
      BY <2>3, <2>4
    <2> QED BY <2>5, <1>1
  <1>12. \A m \in 0..n : m \in T
    <2> HIDE DEF T, n
    <2> QED BY <1>1, <1>10, <1>11, StepInduction
  <1>13. DOMAIN P = 1..(n + 1)
    <2>1. from[1] = Extend(1, from[2])
      BY <1>1, <1>9
    <2> QED BY <2>1
  <1>14. ASSUME NEW i \in 1..(n + 1)
         PROVE  P[i] = RulesAt(tokens, i, [j \in (i + 1)..(n + 1) |-> P[j]])
    <2>1. from[i] = [j \in i..(n + 1) |-> P[j]]
      <3>1. i - 1 \in 0..n /\ (i - 1) + 1 = i
        BY <1>1
      <3> QED BY <1>12, <3>1
    <2>2. from[i + 1] = [j \in (i + 1)..(n + 1) |-> P[j]]
      <3>1. CASE i = n + 1
        <4>1. from[n + 2] = <<>>
          BY <1>1, <1>7
        <4>2. from[i + 1] = <<>>
          BY <4>1, <3>1, <1>1
        <4>3. (i + 1)..(n + 1) = {}
          BY <3>1, <1>1
        <4> QED BY <4>2, <4>3
      <3>2. CASE i # n + 1
        <4>1. i \in 0..n
          BY <3>2, <1>1
        <4> QED BY <1>12, <4>1
      <3> QED BY <3>1, <3>2
    <2>3. from[i] = Extend(i, from[i + 1])
      BY <1>9
    <2>4. i \in i..(n + 1)
      BY <1>1
    <2>5. from[i][i] = P[i]
      BY <2>1, <2>4
    <2>6. from[i][i] = RulesAt(tokens, i, from[i + 1])
      BY <2>3, <2>4
    <2> QED BY <2>2, <2>5, <2>6
  <1> QED BY <1>8, <1>13, <1>14 DEF IsParsing
LEMMA MinIsLeast ==
    ASSUME NEW S \in SUBSET Nat, S # {}
    PROVE  Min(S) \in S /\ \A y \in S : Min(S) <= y
  <1>1. LessThan = OpToRel(<, Nat)
    BY DEF LessThan, OpToRel
  <1>2. IsWellFoundedOn(LessThan, Nat)
    BY <1>1, NatLessThanWellFounded
  <1>3. PICK x \in S : \A y \in S : <<y, x>> \notin LessThan
    BY <1>2, WFMin
  <1>4. ASSUME NEW y \in S PROVE x <= y
    <2>1. x \in Nat /\ y \in Nat
      OBVIOUS
    <2>2. y < x => <<y, x>> \in LessThan
      BY <2>1 DEF LessThan
    <2> QED BY <1>3, <2>1, <2>2
  <1> QED BY <1>3, <1>4 DEF Min

LEMMA MaxIsGreatest ==
    ASSUME NEW i \in Int, NEW j \in Int, NEW S \in SUBSET (i..j), S # {}
    PROVE  Max(S) \in S /\ \A y \in S : y <= Max(S)
  <1> DEFINE T == {j - y : y \in S}
  <1>1. T \in SUBSET Nat /\ T # {}
    <2>1. ASSUME NEW y \in S PROVE j - y \in Nat
      <3>1. y \in i..j
        OBVIOUS
      <3> QED BY <3>1
    <2>2. PICK y \in S : TRUE
      OBVIOUS
    <2>3. j - y \in T
      OBVIOUS
    <2> QED BY <2>1, <2>3
  <1>2. Min(T) \in T /\ \A y \in T : Min(T) <= y
    <2> HIDE DEF T
    <2> QED BY <1>1, MinIsLeast
  <1>3. PICK x \in S : Min(T) = j - x
    BY <1>2
  <1>4. ASSUME NEW y \in S PROVE x >= y
    <2>1. j - y \in T /\ x \in Int /\ y \in Int
      OBVIOUS
    <2>2. j - x <= j - y
      BY <1>2, <1>3, <2>1
    <2> QED BY <2>1, <2>2
  <1>5. \E m \in S : \A y \in S : m >= y
    BY <1>4
  <1>6. Max(S) \in S /\ \A y \in S : Max(S) >= y
    BY <1>5 DEF Max
  <1>7. \A y \in S : y \in Int
    OBVIOUS
  <1> QED BY <1>6, <1>7

\* The operator at which an interval is split
Ops(tokens, i, j) ==
    IF Splits(tokens, Depth(tokens), i, j, {"+", "-"}) # {}
    THEN Splits(tokens, Depth(tokens), i, j, {"+", "-"})
    ELSE Splits(tokens, Depth(tokens), i, j, {"*", "/"})

LEMMA OpsInside ==
    ASSUME NEW tokens, NEW i \in Int, NEW j \in Int
    PROVE  /\ Ops(tokens, i, j) \subseteq i..j
           /\ Ops(tokens, i, j) # {} =>
                 /\ Max(Ops(tokens, i, j)) \in Ops(tokens, i, j)
                 /\ \A y \in Ops(tokens, i, j) : y <= Max(Ops(tokens, i, j))
  <1>1. Ops(tokens, i, j) \in SUBSET (i..j)
    BY DEF Ops, Splits
  <1> QED BY <1>1, MaxIsGreatest

LEMMA MeaningIsLocal ==
    ASSUME NEW tokens \in Seq(STRING), NEW f, NEW g,
           NEW i \in 1..(Len(tokens) + 1), NEW j \in 0..Len(tokens),
           \A a \in 1..(Len(tokens) + 1), b \in 0..Len(tokens) :
              b - a < j - i => f[<<a, b>>] = g[<<a, b>>]
    PROVE  MeaningOf(tokens, Depth(tokens), i, j, f) = MeaningOf(tokens, Depth(tokens), i, j, g)
  <1> DEFINE l == Max(Ops(tokens, i, j))
  <1>1. Len(tokens) \in Nat
    OBVIOUS
  <1>2. CASE i > j
    BY <1>2 DEF MeaningOf
  <1>3. CASE ~(i > j) /\ Ops(tokens, i, j) # {}
    <2>1. l \in i..j
      BY <1>1, <1>3, OpsInside
    <2>2. f[<<i, l - 1>>] = g[<<i, l - 1>>] /\ f[<<l + 1, j>>] = g[<<l + 1, j>>]
      <3> HIDE DEF l
      <3>1. l - 1 \in 0..Len(tokens) /\ l + 1 \in 1..(Len(tokens) + 1)
            /\ (l - 1) - i < j - i /\ j - (l + 1) < j - i
        BY <1>1, <2>1
      <3> QED BY <3>1
    <2>3. \A h : MeaningOf(tokens, Depth(tokens), i, j, h)
                    = Composed(tokens[l], h[<<i, l - 1>>], h[<<l + 1, j>>])
      BY <1>3 DEF MeaningOf, Ops
    <2> QED BY <2>2, <2>3
  <1>4. CASE ~(i > j) /\ Ops(tokens, i, j) = {}
    <2>1. i < j => f[<<i + 1, j - 1>>] = g[<<i + 1, j - 1>>]
      <3>1. i < j => i + 1 \in 1..(Len(tokens) + 1) /\ j - 1 \in 0..Len(tokens)
                       /\ (j - 1) - (i + 1) < j - i
        BY <1>1
      <3> QED BY <3>1
    <2>2. i = j \/ i < j
      BY <1>1, <1>4
    <2> QED BY <1>4, <2>1, <2>2 DEF MeaningOf, Ops
  <1> QED BY <1>2, <1>3, <1>4

\* What an interval means depends on the shorter ones.
IsMeaning(M, tokens) ==
    \A i \in 1..(Len(tokens) + 1), j \in 0..Len(tokens) :
        M[<<i, j>>] = MeaningOf(tokens, Depth(tokens), i, j, M)

LEMMA MeaningsIs ==
    ASSUME NEW tokens \in Seq(STRING)
    PROVE  IsMeaning(Meanings(tokens), tokens)
  <1> DEFINE n == Len(tokens)
             D == (1..(n + 1)) \X (0..n)
             Body(f) == [p \in D |-> MeaningOf(tokens, Depth(tokens), p[1], p[2], f)]
             Upto(f, m) == \A i \in 1..(n + 1), j \in 0..n :
                              j - i + n + 1 < m => f[<<i, j>>] = MeaningOf(tokens, Depth(tokens), i, j, f)
             S == {m \in 0..(2 * n + 1) : \E f : f = [p \in D |-> f[p]] /\ Upto(f, m)}
             meaning == CHOOSE f : f = Body(f)
  <1>1. n \in Nat
    OBVIOUS
  <1>2. 0 \in S
    <2> DEFINE f == [p \in D |-> Malformed]
    <2>1. Upto(f, 0) /\ f = [p \in D |-> f[p]]
      BY <1>1
    <2> HIDE DEF f, Upto
    <2> QED BY <2>1, <1>1
  <1>3. ASSUME NEW m \in 1..(2 * n + 1), m - 1 \in S PROVE m \in S
    <2>1. PICK f : f = [p \in D |-> f[p]] /\ Upto(f, m - 1)
      BY <1>3
    <2> DEFINE g == [p \in D |->
                        IF p[2] - p[1] + n + 1 < m - 1 THEN f[p]
                        ELSE MeaningOf(tokens, Depth(tokens), p[1], p[2], f)]
    <2>2. ASSUME NEW i \in 1..(n + 1), NEW j \in 0..n, j - i + n + 1 < m
          PROVE  g[<<i, j>>] = MeaningOf(tokens, Depth(tokens), i, j, g)
      <3>1. \A a \in 1..(n + 1), b \in 0..n : b - a < j - i => f[<<a, b>>] = g[<<a, b>>]
        <4>1. ASSUME NEW a \in 1..(n + 1), NEW b \in 0..n, b - a < j - i
              PROVE  b - a + n + 1 < m - 1
          BY <1>1, <2>2, <4>1
        <4>2. ASSUME NEW a \in 1..(n + 1), NEW b \in 0..n, b - a + n + 1 < m - 1
              PROVE  g[<<a, b>>] = f[<<a, b>>]
          BY <4>2
        <4> HIDE DEF g
        <4> QED BY <4>1, <4>2
      <3>2. MeaningOf(tokens, Depth(tokens), i, j, f) = MeaningOf(tokens, Depth(tokens), i, j, g)
        <4> HIDE DEF g
        <4> QED BY <3>1, MeaningIsLocal
      <3>3. g[<<i, j>>] = MeaningOf(tokens, Depth(tokens), i, j, f)
        BY <2>1
      <3> QED BY <3>2, <3>3
    <2>3. Upto(g, m) /\ g = [p \in D |-> g[p]]
      BY <2>2
    <2> HIDE DEF g, Upto
    <2> QED BY <2>3, <1>3
  <1>4. 2 * n + 1 \in S
    <2> HIDE DEF S
    <2>1. 2 * n + 1 \in Nat /\ 2 * n + 1 \in 0..(2 * n + 1)
      BY <1>1
    <2>2. \A m \in 0..(2 * n + 1) : m \in S
      <3> HIDE DEF n
      <3> QED BY <2>1, <1>2, <1>3, StepInduction
    <2> QED BY <2>1, <2>2
  <1>5. PICK f : f = [p \in D |-> f[p]] /\ Upto(f, 2 * n + 1)
    BY <1>4
  <1>6. \A i \in 1..(n + 1), j \in 0..n : j - i + n + 1 < 2 * n + 1
    BY <1>1
  <1>7. f = Body(f)
    <2>1. \A i \in 1..(n + 1), j \in 0..n : f[<<i, j>>] = MeaningOf(tokens, Depth(tokens), i, j, f)
      BY <1>5, <1>6
    <2>2. \A p \in D : f[p] = MeaningOf(tokens, Depth(tokens), p[1], p[2], f)
      <3>1. \A p \in D : p[1] \in 1..(n + 1) /\ p[2] \in 0..n /\ p = <<p[1], p[2]>>
        OBVIOUS
      <3> QED BY <2>1, <3>1
    <2> QED BY <1>5, <2>2
  <1>8. meaning = Body(meaning)
    <2> HIDE DEF Body
    <2> QED BY <1>7
  <1>9. Meanings(tokens) = meaning
    BY DEF Meanings
  <1> HIDE DEF meaning
  <1> QED BY <1>8, <1>9 DEF IsMeaning
-----------------------------------------------------------------------------
(* Operators are attached from left to right                                 *)

Attaching(f, first, steps) ==
    f = [i \in 0..Len(steps) |->
            IF i = 0 THEN first ELSE Binary(steps[i].op, f[i - 1], steps[i].tree)]

LEMMA AttachingExists ==
    ASSUME NEW V, NEW steps \in Seq(V), NEW first
    PROVE  \E f : Attaching(f, first, steps)
  <1> DEFINE n == Len(steps)
             Upto(f, m) == f = [i \in 0..m |->
                                   IF i = 0 THEN first
                                   ELSE Binary(steps[i].op, f[i - 1], steps[i].tree)]
             S == {m \in 0..n : \E f : Upto(f, m)}
  <1>1. n \in Nat
    OBVIOUS
  <1>2. 0 \in S
    <2> DEFINE f == [i \in 0..0 |-> first]
    <2>1. Upto(f, 0)
      OBVIOUS
    <2> HIDE DEF f, Upto
    <2> QED BY <2>1, <1>1
  <1>3. ASSUME NEW m \in 1..n, m - 1 \in S PROVE m \in S
    <2>1. PICK f : Upto(f, m - 1)
      BY <1>3
    <2> DEFINE g == [i \in 0..m |->
                        IF i = m THEN Binary(steps[m].op, f[m - 1], steps[m].tree) ELSE f[i]]
    <2>2. ASSUME NEW i \in 0..m
          PROVE  g[i] = IF i = 0 THEN first ELSE Binary(steps[i].op, g[i - 1], steps[i].tree)
      <3>1. CASE i = m
        <4>1. m - 1 \in 0..m /\ m - 1 # m /\ m # 0
          BY <1>1
        <4>2. g[m - 1] = f[m - 1]
          BY <4>1
        <4> QED BY <3>1, <4>1, <4>2
      <3>2. CASE i # m
        <4>1. i \in 0..(m - 1) /\ (i # 0 => i - 1 \in 0..m /\ i - 1 # m)
          BY <3>2
        <4>2. f[i] = IF i = 0 THEN first ELSE Binary(steps[i].op, f[i - 1], steps[i].tree)
          BY <2>1, <4>1
        <4>3. i # 0 => g[i - 1] = f[i - 1]
          BY <4>1
        <4>4. g[i] = f[i]
          BY <3>2
        <4> HIDE DEF g
        <4> QED BY <4>2, <4>3, <4>4
      <3> QED BY <3>1, <3>2
    <2>3. Upto(g, m)
      <3>1. g = [i \in 0..m |-> g[i]]
        OBVIOUS
      <3> HIDE DEF g
      <3> QED BY <2>2, <3>1
    <2> HIDE DEF g, Upto
    <2> QED BY <2>3, <1>3
  <1>4. n \in S
    <2> HIDE DEF S, n
    <2>1. \A m \in 0..n : m \in S
      BY <1>1, <1>2, <1>3, StepInduction
    <2> QED BY <2>1, <1>1
  <1> QED BY <1>4 DEF Attaching

\* There is one way to attach.
LEMMA AttachIs ==
    ASSUME NEW V, NEW steps \in Seq(V), NEW first, NEW f, Attaching(f, first, steps)
    PROVE  Attach(first, steps) = f[Len(steps)]
  <1> DEFINE n == Len(steps)
             Body(g) == [i \in 0..n |->
                            IF i = 0 THEN first
                            ELSE Binary(steps[i].op, g[i - 1], steps[i].tree)]
             left == CHOOSE g : g = Body(g)
             T == {m \in 0..n : left[m] = f[m]}
  <1>1. n \in Nat /\ f = Body(f)
    BY DEF Attaching
  <1>2. left = Body(left)
    BY <1>1
  <1>3. Attach(first, steps) = left[n]
    BY DEF Attach
  <1> HIDE DEF left
  <1>4. 0 \in T
    BY <1>1, <1>2
  <1>5. ASSUME NEW m \in 1..n, m - 1 \in T PROVE m \in T
    <2>1. f[m] = Body(f)[m] /\ left[m] = Body(left)[m]
      BY <1>1, <1>2
    <2> QED BY <1>5, <2>1
  <1>6. \A m \in 0..n : m \in T
    <2> HIDE DEF T, n
    <2> QED BY <1>1, <1>4, <1>5, StepInduction
  <1> QED BY <1>1, <1>3, <1>6

LEMMA AttachNone ==
    ASSUME NEW first
    PROVE  Attach(first, <<>>) = first
  <1>1. <<>> \in Seq({}) /\ Len(<<>>) = 0
    OBVIOUS
  <1>2. PICK f : Attaching(f, first, <<>>)
    BY <1>1, AttachingExists
  <1>3. f[0] = first
    BY <1>1, <1>2 DEF Attaching
  <1> QED BY <1>1, <1>2, <1>3, AttachIs

\* The first operator makes the left operand of the others.
LEMMA AttachFirst ==
    ASSUME NEW V, NEW rest \in Seq(V), NEW step \in V, NEW first
    PROVE  Attach(first, <<step>> \o rest) = Attach(Binary(step.op, first, step.tree), rest)
  <1> DEFINE steps == <<step>> \o rest
             n == Len(rest)
             next == Binary(step.op, first, step.tree)
  <1>1. /\ n \in Nat /\ steps \in Seq(V) /\ Len(steps) = n + 1 /\ steps[1] = step
        /\ \A i \in 1..n : steps[i + 1] = rest[i]
    OBVIOUS
  <1> HIDE DEF steps, n
  <1>2. PICK f : Attaching(f, first, steps)
    BY <1>1, AttachingExists
  <1> DEFINE g == [i \in 0..n |-> f[i + 1]]
  <1>3. \A i \in 0..(n + 1) : f[i] = IF i = 0 THEN first
                                     ELSE Binary(steps[i].op, f[i - 1], steps[i].tree)
    BY <1>1, <1>2 DEF Attaching
  <1>4. ASSUME NEW i \in 0..n
        PROVE  g[i] = IF i = 0 THEN next ELSE Binary(rest[i].op, g[i - 1], rest[i].tree)
    <2>1. i + 1 \in 0..(n + 1) /\ i + 1 # 0 /\ (i + 1) - 1 = i
      BY <1>1
    <2>2. f[i + 1] = Binary(steps[i + 1].op, f[i], steps[i + 1].tree)
      BY <1>3, <2>1
    <2>3. CASE i = 0
      <3>1. f[0] = first
        BY <1>1, <1>3
      <3> QED BY <1>1, <2>2, <2>3, <3>1
    <2>4. CASE i # 0
      <3>1. i \in 1..n /\ i - 1 \in 0..n /\ (i - 1) + 1 = i
        BY <1>1, <2>4
      <3>2. g[i - 1] = f[i] /\ steps[i + 1] = rest[i] /\ g[i] = f[i + 1]
        BY <1>1, <3>1
      <3> HIDE DEF g
      <3> QED BY <2>2, <2>4, <3>2
    <2> QED BY <2>3, <2>4
  <1>5. Attaching(g, next, rest)
    <2>1. g = [i \in 0..n |-> g[i]]
      OBVIOUS
    <2> HIDE DEF g, next
    <2> QED BY <1>4, <2>1 DEF Attaching, n
  <1>6. Attach(first, steps) = f[n + 1]
    BY <1>1, <1>2, AttachIs
  <1>7. Attach(next, rest) = g[n]
    <2> HIDE DEF g, next
    <2> QED BY <1>5, AttachIs DEF n
  <1>8. g[n] = f[n + 1]
    BY <1>1
  <1> QED BY <1>6, <1>7, <1>8 DEF steps
-----------------------------------------------------------------------------
(* What the rules of the parser can give                                     *)

NodesOf(tokens) ==
    [kind : {"number"}, value : Numbers]
      \cup [kind : {"column"}, name : Range(tokens)]
      \cup [kind : {"aggregation"}, fn : Aggregations \cap Range(tokens),
            distinct : BOOLEAN, column : Range(tokens) \cup {"none"}]
      \cup [kind : {"binary"}, op : Operators, right : Nat]
TreesOf(tokens) == Seq(NodesOf(tokens))
StepsOf(tokens) == [op : Operators, tree : TreesOf(tokens)]

Readings(tokens, i) ==
    [out : {"found"}, tree : TreesOf(tokens), at : i..(Len(tokens) + 1)]
      \cup {Refused, Overflow}
Loopings(tokens, i) ==
    [out : {"loop"}, steps : Seq(StepsOf(tokens)), at : i..(Len(tokens) + 1)]
      \cup {Refused, Overflow}
RulesTyped(tokens, i, rules) ==
    /\ rules.factor \in Readings(tokens, i)
    /\ rules.term \in Readings(tokens, i)
    /\ rules.expr \in Readings(tokens, i)
    /\ rules.products \in Loopings(tokens, i)
    /\ rules.sums \in Loopings(tokens, i)

LEMMA ReadingIs ==
    ASSUME NEW tokens, NEW i, NEW r \in Readings(tokens, i)
    PROVE  /\ r.out \in {"found", "refused", "overflow"}
           /\ r.out = "found" => /\ r.tree \in TreesOf(tokens) /\ r.at \in i..(Len(tokens) + 1)
                                 /\ r = Found(r.tree, r.at)
           /\ r.out # "found" => r \in {Refused, Overflow}
  BY DEF Readings, Refused, Overflow, Found

LEMMA LoopingIs ==
    ASSUME NEW tokens, NEW i, NEW r \in Loopings(tokens, i)
    PROVE  /\ r.out \in {"loop", "refused", "overflow"}
           /\ r.out = "loop" => /\ r.steps \in Seq(StepsOf(tokens))
                                /\ r.at \in i..(Len(tokens) + 1)
                                /\ r = Loop(r.steps, r.at)
           /\ r.out # "loop" => r \in {Refused, Overflow}
  BY DEF Loopings, Refused, Overflow, Loop

LEMMA FoundTyped ==
    ASSUME NEW tokens, NEW i, NEW tree \in TreesOf(tokens), NEW a \in i..(Len(tokens) + 1)
    PROVE  Found(tree, a) \in Readings(tokens, i)
  BY DEF Found, Readings

LEMMA LoopTyped ==
    ASSUME NEW tokens, NEW i, NEW steps \in Seq(StepsOf(tokens)), NEW a \in i..(Len(tokens) + 1)
    PROVE  Loop(steps, a) \in Loopings(tokens, i)
  BY DEF Loop, Loopings

LEMMA FailureTyped ==
    ASSUME NEW tokens, NEW i
    PROVE  {Refused, Overflow} \subseteq Readings(tokens, i) \cap Loopings(tokens, i)
  BY DEF Readings, Loopings

\* What is read from later on is read from later than i.
LEMMA ReadLater ==
    ASSUME NEW tokens, NEW i \in Int, NEW j \in Int, i <= j
    PROVE  Readings(tokens, j) \subseteq Readings(tokens, i)
  BY DEF Readings

LEMMA LeavesTyped ==
    ASSUME NEW tokens
    PROVE  /\ \A v \in Numbers : Number(v) \in TreesOf(tokens)
           /\ \A c \in Range(tokens) : Column(c) \in TreesOf(tokens)
           /\ \A fn \in Aggregations \cap Range(tokens), d \in BOOLEAN,
                 c \in Range(tokens) \cup {"none"} : Aggregation(fn, d, c) \in TreesOf(tokens)
  <1>1. \A node \in NodesOf(tokens) : <<node>> \in TreesOf(tokens)
    BY DEF TreesOf
  <1>2. \A v \in Numbers : [kind |-> "number", value |-> v] \in NodesOf(tokens)
    BY DEF NodesOf
  <1>3. \A c \in Range(tokens) : [kind |-> "column", name |-> c] \in NodesOf(tokens)
    BY DEF NodesOf
  <1>4. \A fn \in Aggregations \cap Range(tokens), d \in BOOLEAN,
           c \in Range(tokens) \cup {"none"} :
              [kind |-> "aggregation", fn |-> fn, distinct |-> d, column |-> c]
                 \in NodesOf(tokens)
    BY DEF NodesOf
  <1> QED BY <1>1, <1>2, <1>3, <1>4 DEF Number, Column, Aggregation

LEMMA BinaryTyped ==
    ASSUME NEW tokens, NEW op \in Operators, NEW l \in TreesOf(tokens), NEW r \in TreesOf(tokens)
    PROVE  Binary(op, l, r) \in TreesOf(tokens)
  <1>1. Len(l) + 1 \in Nat
    BY DEF TreesOf
  <1>2. [kind |-> "binary", op |-> op, right |-> Len(l) + 1] \in NodesOf(tokens)
    BY <1>1 DEF NodesOf
  <1> HIDE DEF NodesOf
  <1> QED BY <1>2 DEF TreesOf, Binary

LEMMA AttachTyped ==
    ASSUME NEW tokens, NEW first \in TreesOf(tokens), NEW steps \in Seq(StepsOf(tokens))
    PROVE  Attach(first, steps) \in TreesOf(tokens)
  <1>1. PICK f : Attaching(f, first, steps)
    BY AttachingExists
  <1> DEFINE T == {m \in 0..Len(steps) : f[m] \in TreesOf(tokens)}
  <1>2. Len(steps) \in Nat
    OBVIOUS
  <1>3. 0 \in T
    BY <1>1, <1>2 DEF Attaching
  <1>4. ASSUME NEW m \in 1..Len(steps), m - 1 \in T PROVE m \in T
    <2>1. f[m] = Binary(steps[m].op, f[m - 1], steps[m].tree)
      BY <1>1 DEF Attaching
    <2>2. steps[m].op \in Operators /\ steps[m].tree \in TreesOf(tokens)
      <3>1. steps[m] \in StepsOf(tokens)
        OBVIOUS
      <3> QED BY <3>1 DEF StepsOf
    <2>3. f[m] \in TreesOf(tokens)
      BY <1>4, <2>1, <2>2, BinaryTyped
    <2> QED BY <2>3
  <1>5. \A m \in 0..Len(steps) : m \in T
    <2> HIDE DEF T
    <2> QED BY <1>2, <1>3, <1>4, StepInduction
  <1> QED BY <1>1, <1>2, <1>5, AttachIs

LEMMA PeekIs ==
    ASSUME NEW tokens \in Seq(STRING), tokens # <<>>, NEW i \in 1..(Len(tokens) + 1)
    PROVE  /\ Peek(tokens, i) # "" => i \in 1..Len(tokens)
           /\ i <= Len(tokens) => Peek(tokens, i) = tokens[i] /\ Peek(tokens, i) \in Range(tokens)
           /\ Advance(tokens, i) \in Range(tokens)
           /\ After(tokens, i) \in i..(Len(tokens) + 1)
           /\ Len(tokens) \in Nat \ {0}
  <1> DEFINE n == Len(tokens)
  <1>1. n \in Nat \ {0} /\ DOMAIN tokens = 1..n
    BY EmptySeq, LenProperties
  <1>2. \A a \in 1..n : tokens[a] \in Range(tokens)
    BY <1>1 DEF Range
  <1>3. n \in 1..n
    BY <1>1
  <1>4. CASE i <= n
    <2>1. i \in 1..n /\ tokens[i] \in Range(tokens)
      BY <1>1, <1>2, <1>4
    <2>2. Advance(tokens, i) = tokens[i] /\ Peek(tokens, i) = tokens[i] /\ After(tokens, i) = i + 1
      BY <1>4 DEF Peek, Advance, After
    <2>3. i + 1 \in i..(n + 1)
      BY <1>1, <2>1
    <2> HIDE DEF n
    <2> QED BY <1>1, <2>1, <2>2, <2>3 DEF n
  <1>5. CASE ~(i <= n)
    <2>1. i = n + 1
      BY <1>1, <1>5
    <2>2. Advance(tokens, i) = tokens[n] /\ Peek(tokens, i) = "" /\ After(tokens, i) = i
      BY <1>5 DEF Peek, Advance, After
    <2>3. tokens[n] \in Range(tokens) /\ i \in i..(n + 1)
      BY <1>1, <1>2, <1>3, <2>1
    <2> QED BY <1>1, <1>5, <2>2, <2>3
  <1> QED BY <1>4, <1>5

LEMMA CloseTyped ==
    ASSUME NEW tokens \in Seq(STRING), tokens # <<>>, NEW i \in Nat \ {0},
           NEW a \in i..(Len(tokens) + 1), NEW tree \in TreesOf(tokens)
    PROVE  Close(tokens, tree, a) \in Readings(tokens, i)
  <1>1. CASE Peek(tokens, a) = ")"
    <2>1. a \in 1..Len(tokens)
      <3>1. a \in 1..(Len(tokens) + 1)
        OBVIOUS
      <3> QED BY <1>1, <3>1, PeekIs
    <2>2. a + 1 \in i..(Len(tokens) + 1)
      BY <2>1
    <2> QED BY <1>1, <2>2, FoundTyped DEF Close
  <1>2. CASE Peek(tokens, a) # ")"
    BY <1>2, FailureTyped DEF Close
  <1> QED BY <1>1, <1>2

LEMMA CallTyped ==
    ASSUME NEW tokens \in Seq(STRING), NEW i \in 1..Len(tokens), Peek(tokens, i) = "(",
           NEW fn \in Range(tokens)
    PROVE  Call(tokens, fn, i) \in Readings(tokens, i)
  <1> DEFINE distinct == Peek(tokens, i + 1) = "distinct"
             arg == IF distinct THEN i + 2 ELSE i + 1
             name == Advance(tokens, arg)
  <1>1. tokens # <<>> /\ Len(tokens) \in Nat
    OBVIOUS
  <1>2. i + 1 \in 1..(Len(tokens) + 1) /\ distinct \in BOOLEAN
    BY <1>1
  <1>3. arg \in i..(Len(tokens) + 1)
    <2>1. distinct => i + 1 \in 1..Len(tokens)
      BY <1>1, <1>2, PeekIs
    <2> QED BY <1>2, <2>1
  <1>4. arg \in 1..(Len(tokens) + 1)
    BY <1>3
  <1> HIDE DEF distinct
  <1>5. fn \in Aggregations => Aggregation(fn, distinct, "none") \in TreesOf(tokens)
    BY <1>2, LeavesTyped
  <1>6. fn \in Aggregations => Aggregation(fn, distinct, name) \in TreesOf(tokens)
    BY <1>1, <1>2, <1>4, PeekIs, LeavesTyped
  <1>7. Peek(tokens, arg) = "*" => arg + 1 \in i..(Len(tokens) + 1)
    <2>1. Peek(tokens, arg) = "*" => arg \in 1..Len(tokens)
      BY <1>1, <1>4, PeekIs
    <2> HIDE DEF arg
    <2> QED BY <1>3, <2>1
  <1>8. After(tokens, arg) \in i..(Len(tokens) + 1)
    <2>1. After(tokens, arg) \in arg..(Len(tokens) + 1)
      BY <1>1, <1>4, PeekIs
    <2> HIDE DEF arg
    <2> QED BY <1>3, <2>1
  <1> DEFINE closed == Close(tokens, Aggregation(fn, distinct, "none"), arg)
             starred == Close(tokens, Aggregation(fn, distinct, "none"), arg + 1)
             named == Close(tokens, Aggregation(fn, distinct, name), After(tokens, arg))
  <1>9. fn \in Aggregations => closed \in Readings(tokens, i)
    BY <1>1, <1>3, <1>5, CloseTyped
  <1>10. fn \in Aggregations /\ Peek(tokens, arg) = "*" => starred \in Readings(tokens, i)
    BY <1>1, <1>5, <1>7, CloseTyped
  <1>11. fn \in Aggregations => named \in Readings(tokens, i)
    BY <1>1, <1>6, <1>8, CloseTyped
  <1>12. Call(tokens, fn, i) \in {Refused, closed, starred, named}
         /\ (Call(tokens, fn, i) # Refused => fn \in Aggregations)
         /\ (Call(tokens, fn, i) \in {Refused, closed, named} \/ Peek(tokens, arg) = "*")
    BY DEF Call, distinct
  <1>13. Refused \in Readings(tokens, i)
    BY FailureTyped
  <1> HIDE DEF closed, starred, named
  <1> QED BY <1>9, <1>10, <1>11, <1>12, <1>13
\* The rest of the rules at i, from what is known of the later places
LEMMA FactorTyped ==
    ASSUME NEW tokens \in Seq(STRING), tokens # <<>>, NEW i \in 1..(Len(tokens) + 1), NEW later,
           \A j \in (i + 1)..(Len(tokens) + 1) : RulesTyped(tokens, j, later[j])
    PROVE  Factor(tokens, i, later) \in Readings(tokens, i)
  <1> DEFINE t == Advance(tokens, i)
             n == Len(tokens)
  <1>1. t \in Range(tokens) /\ After(tokens, i) \in i..(n + 1) /\ n \in Nat
    BY PeekIs
  <1>2. CASE t \in Numbers
    BY <1>1, <1>2, FoundTyped, LeavesTyped DEF Factor
  <1>3. CASE t = "(" /\ i > n
    BY <1>3, FailureTyped DEF Factor, Numbers
  <1>4. CASE t = "(" /\ ~(i > n)
    <2> DEFINE inner == later[i + 1].expr
    <2>1. i + 1 \in (i + 1)..(n + 1) /\ i <= i + 1 /\ i \in Nat \ {0}
      BY <1>1, <1>4
    <2>2. inner \in Readings(tokens, i)
      <3>1. inner \in Readings(tokens, i + 1)
        BY <2>1 DEF RulesTyped
      <3> QED BY <2>1, <3>1, ReadLater
    <2> HIDE DEF inner
    <2>3. CASE inner.out = "found"
      <3>1. Close(tokens, inner.tree, inner.at) \in Readings(tokens, i)
        BY <2>1, <2>2, <2>3, ReadingIs, CloseTyped
      <3> QED BY <1>4, <2>3, <3>1 DEF Factor, inner, Numbers
    <2>4. CASE inner.out # "found"
      BY <1>4, <2>2, <2>4 DEF Factor, inner, Numbers
    <2> QED BY <2>3, <2>4
  <1>5. CASE t # "(" /\ t \notin Numbers /\ ~IsName(t)
    BY <1>5, FailureTyped DEF Factor
  <1>6. CASE t # "(" /\ t \notin Numbers /\ IsName(t) /\ Peek(tokens, i + 1) = "("
    <2>1. i \in 1..n /\ i + 1 \in 1..n
      <3>1. CASE i = n + 1
        <4>1. ~(i + 1 <= Len(tokens))
          BY <1>1, <3>1
        <4>2. Peek(tokens, i + 1) = ""
          BY <4>1 DEF Peek
        <4> QED BY <1>6, <4>2
      <3>2. CASE i # n + 1
        <4>1. i + 1 \in 1..(n + 1) /\ i \in 1..n
          BY <1>1, <3>2
        <4> QED BY <1>6, <4>1, PeekIs
      <3> QED BY <3>1, <3>2
    <2>2. Call(tokens, t, i + 1) \in Readings(tokens, i + 1)
      BY <1>1, <1>6, <2>1, CallTyped
    <2>3. Call(tokens, t, i + 1) \in Readings(tokens, i)
      BY <2>2, ReadLater
    <2> QED BY <1>6, <2>3 DEF Factor
  <1>7. CASE t # "(" /\ t \notin Numbers /\ IsName(t) /\ Peek(tokens, i + 1) # "("
    BY <1>1, <1>7, FoundTyped, LeavesTyped DEF Factor
  <1> QED BY <1>2, <1>3, <1>4, <1>5, <1>6, <1>7

LEMMA StepsTyped ==
    ASSUME NEW tokens \in Seq(STRING), NEW i \in 1..Len(tokens), NEW op \in Operators,
           NEW right \in Readings(tokens, i + 1), NEW rest,
           \A j \in (i + 1)..(Len(tokens) + 1) : rest[j] \in Loopings(tokens, j)
    PROVE  Steps(right, rest, op) \in Loopings(tokens, i)
  <1>1. CASE right.out # "found"
    <2>1. right \in {Refused, Overflow}
      BY <1>1, ReadingIs
    <2> QED BY <1>1, <2>1, FailureTyped DEF Steps
  <1>2. CASE right.out = "found"
    <2> DEFINE loop == rest[right.at]
               step == [op |-> op, tree |-> right.tree]
    <2>1. right.tree \in TreesOf(tokens) /\ right.at \in (i + 1)..(Len(tokens) + 1)
      BY <1>2, ReadingIs
    <2>2. loop \in Loopings(tokens, right.at)
      BY <2>1
    <2> HIDE DEF loop
    <2>3. CASE loop.out # "loop"
      <3>1. loop \in {Refused, Overflow}
        BY <2>2, <2>3, LoopingIs
      <3> QED BY <1>2, <2>3, <3>1, FailureTyped DEF Steps, loop
    <2>4. CASE loop.out = "loop"
      <3>1. loop.steps \in Seq(StepsOf(tokens)) /\ loop.at \in right.at..(Len(tokens) + 1)
        BY <2>2, <2>4, LoopingIs
      <3>2. step \in StepsOf(tokens)
        BY <2>1 DEF StepsOf
      <3> HIDE DEF step
      <3>3. <<step>> \o loop.steps \in Seq(StepsOf(tokens))
        BY <3>1, <3>2
      <3>4. loop.at \in i..(Len(tokens) + 1)
        BY <2>1, <3>1
      <3>5. Loop(<<step>> \o loop.steps, loop.at) \in Loopings(tokens, i)
        BY <3>3, <3>4, LoopTyped
      <3> QED BY <1>2, <2>4, <3>5 DEF Steps, loop, step
    <2> QED BY <2>3, <2>4
  <1> QED BY <1>1, <1>2

LEMMA ChainTyped ==
    ASSUME NEW tokens, NEW i \in Nat, NEW j \in Nat, i <= j, NEW first \in Readings(tokens, i),
           first.out = "found", NEW loop \in Loopings(tokens, j)
    PROVE  Chain(first, loop) \in Readings(tokens, i)
  <1>1. CASE loop.out # "loop"
    BY <1>1, LoopingIs, FailureTyped DEF Chain
  <1>2. CASE loop.out = "loop"
    <2>1. loop.steps \in Seq(StepsOf(tokens)) /\ loop.at \in j..(Len(tokens) + 1)
      BY <1>2, LoopingIs
    <2>2. first.tree \in TreesOf(tokens)
      BY ReadingIs
    <2>3. loop.at \in i..(Len(tokens) + 1)
      BY <2>1
    <2> QED BY <1>2, <2>1, <2>2, <2>3, AttachTyped, FoundTyped DEF Chain
  <1> QED BY <1>1, <1>2

LEMMA RulesAtTyped ==
    ASSUME NEW tokens \in Seq(STRING), tokens # <<>>, NEW i \in 1..(Len(tokens) + 1), NEW later,
           DOMAIN later = (i + 1)..(Len(tokens) + 1),
           \A j \in (i + 1)..(Len(tokens) + 1) : RulesTyped(tokens, j, later[j])
    PROVE  RulesTyped(tokens, i, RulesAt(tokens, i, later))
  <1> DEFINE n == Len(tokens)
             factor == Factor(tokens, i, later)
             products == Products(tokens, i, later)
             sums == Sums(tokens, i, later)
             afterFactor == IF factor.at = i THEN products ELSE later[factor.at].products
             term == IF factor.out # "found" THEN factor ELSE Chain(factor, afterFactor)
             afterTerm == IF term.at = i THEN sums ELSE later[term.at].sums
             expr == IF term.out # "found" THEN term ELSE Chain(term, afterTerm)
  <1>1. n \in Nat /\ i \in Nat
    OBVIOUS
  <1>2. factor \in Readings(tokens, i)
    BY FactorTyped
  <1>3. products \in Loopings(tokens, i)
    <2>1. CASE Peek(tokens, i) \notin {"*", "/"}
      <3>1. <<>> \in Seq(StepsOf(tokens)) /\ i \in i..(n + 1)
        BY <1>1
      <3> QED BY <2>1, <3>1, LoopTyped DEF Products
    <2>2. CASE Peek(tokens, i) \in {"*", "/"}
      <3>1. i \in 1..n /\ tokens[i] \in Operators
        <4>1. Peek(tokens, i) # "" /\ Peek(tokens, i) \in Operators
          BY <2>2 DEF Operators
        <4>2. i \in 1..n
          BY <4>1, PeekIs
        <4>3. Peek(tokens, i) = tokens[i]
          BY <1>1, <4>2 DEF Peek
        <4> QED BY <4>1, <4>2, <4>3
      <3>2. i + 1 \in (i + 1)..(n + 1)
        BY <3>1
      <3>3. later[i + 1].factor \in Readings(tokens, i + 1)
        BY <3>2 DEF RulesTyped
      <3> DEFINE rest == [j \in DOMAIN later |-> later[j].products]
      <3>4. \A j \in (i + 1)..(n + 1) : rest[j] \in Loopings(tokens, j)
        BY DEF RulesTyped
      <3>5. products = Steps(later[i + 1].factor, rest, tokens[i])
        BY <2>2 DEF Products
      <3> HIDE DEF rest, products
      <3> QED BY <3>1, <3>3, <3>4, <3>5, StepsTyped
    <2> QED BY <2>1, <2>2
  <1>4. sums \in Loopings(tokens, i)
    <2>1. CASE Peek(tokens, i) \notin {"+", "-"}
      <3>1. <<>> \in Seq(StepsOf(tokens)) /\ i \in i..(n + 1)
        BY <1>1
      <3> QED BY <2>1, <3>1, LoopTyped DEF Sums
    <2>2. CASE Peek(tokens, i) \in {"+", "-"}
      <3>1. i \in 1..n /\ tokens[i] \in Operators
        <4>1. Peek(tokens, i) # "" /\ Peek(tokens, i) \in Operators
          BY <2>2 DEF Operators
        <4>2. i \in 1..n
          BY <4>1, PeekIs
        <4>3. Peek(tokens, i) = tokens[i]
          BY <1>1, <4>2 DEF Peek
        <4> QED BY <4>1, <4>2, <4>3
      <3>2. i + 1 \in (i + 1)..(n + 1)
        BY <3>1
      <3>3. later[i + 1].term \in Readings(tokens, i + 1)
        BY <3>2 DEF RulesTyped
      <3> DEFINE rest == [j \in DOMAIN later |-> later[j].sums]
      <3>4. \A j \in (i + 1)..(n + 1) : rest[j] \in Loopings(tokens, j)
        BY DEF RulesTyped
      <3>5. sums = Steps(later[i + 1].term, rest, tokens[i])
        BY <2>2 DEF Sums
      <3> HIDE DEF rest, sums
      <3> QED BY <3>1, <3>3, <3>4, <3>5, StepsTyped
    <2> QED BY <2>1, <2>2
  <1>5. RulesAt(tokens, i, later)
          = [factor |-> factor, products |-> products, term |-> term, sums |-> sums, expr |-> expr]
    BY DEF RulesAt, TermOf, ExprOf
  <1> HIDE DEF factor, products, sums
  <1>6. term \in Readings(tokens, i)
    <2>1. CASE factor.out = "found"
      <3>1. factor.at \in i..(n + 1)
        BY <1>2, <2>1, ReadingIs
      <3>2. afterFactor \in Loopings(tokens, factor.at) /\ factor.at \in Nat /\ i <= factor.at
        <4>1. CASE factor.at = i
          BY <1>1, <1>3, <4>1
        <4>2. CASE factor.at # i
          <5>1. factor.at \in (i + 1)..(n + 1)
            BY <1>1, <3>1, <4>2
          <5> QED BY <1>1, <4>2, <5>1 DEF RulesTyped
        <4> QED BY <4>1, <4>2
      <3> HIDE DEF afterFactor
      <3> QED BY <1>1, <1>2, <2>1, <3>2, ChainTyped
    <2>2. CASE factor.out # "found"
      BY <1>2, <2>2
    <2> QED BY <2>1, <2>2
  <1> HIDE DEF term
  <1>7. expr \in Readings(tokens, i)
    <2>1. CASE term.out = "found"
      <3>1. term.at \in i..(n + 1)
        BY <1>6, <2>1, ReadingIs
      <3>2. afterTerm \in Loopings(tokens, term.at) /\ term.at \in Nat /\ i <= term.at
        <4>1. CASE term.at = i
          BY <1>1, <1>4, <4>1
        <4>2. CASE term.at # i
          <5>1. term.at \in (i + 1)..(n + 1)
            BY <1>1, <3>1, <4>2
          <5> QED BY <1>1, <4>2, <5>1 DEF RulesTyped
        <4> QED BY <4>1, <4>2
      <3> HIDE DEF afterTerm
      <3> QED BY <1>1, <1>6, <2>1, <3>2, ChainTyped
    <2>2. CASE term.out # "found"
      BY <1>6, <2>2
    <2> QED BY <2>1, <2>2
  <1> HIDE DEF expr
  <1> QED BY <1>2, <1>3, <1>4, <1>5, <1>6, <1>7 DEF RulesTyped

\* Every rule, at every place, reads a tree up to a place not before its own, or fails.
LEMMA ParserTypes ==
    ASSUME NEW tokens \in Seq(STRING), tokens # <<>>
    PROVE  \A i \in 1..(Len(tokens) + 1) : RulesTyped(tokens, i, Parsing(tokens)[i])
  <1> DEFINE n == Len(tokens)
             P == Parsing(tokens)
             S == {m \in Nat : m <= n => RulesTyped(tokens, n + 1 - m, P[n + 1 - m])}
  <1>1. n \in Nat
    OBVIOUS
  <1>2. IsParsing(P, tokens)
    BY ParsingIs
  <1>3. ASSUME NEW m \in Nat, \A l \in 0..(m - 1) : l \in S PROVE m \in S
    <2>1. SUFFICES ASSUME m <= n PROVE RulesTyped(tokens, n + 1 - m, P[n + 1 - m])
      OBVIOUS
    <2> DEFINE i == n + 1 - m
               later == [j \in (i + 1)..(n + 1) |-> P[j]]
    <2>2. i \in 1..(n + 1)
      BY <1>1, <2>1
    <2>3. ASSUME NEW j \in (i + 1)..(n + 1) PROVE RulesTyped(tokens, j, later[j])
      <3>1. n + 1 - j \in 0..(m - 1) /\ n + 1 - (n + 1 - j) = j /\ n + 1 - j <= n
        BY <1>1, <2>1, <2>2
      <3>2. RulesTyped(tokens, j, P[j])
        BY <1>3, <3>1
      <3> QED BY <3>2
    <2>4. P[i] = RulesAt(tokens, i, later)
      BY <1>2, <2>2 DEF IsParsing
    <2>5. DOMAIN later = (i + 1)..(n + 1)
      OBVIOUS
    <2> HIDE DEF later, i
    <2>6. RulesTyped(tokens, i, P[i])
      BY <2>2, <2>3, <2>4, <2>5, RulesAtTyped
    <2> QED BY <2>6 DEF i
  <1>4. \A m \in Nat : m \in S
    <2> HIDE DEF S
    <2> QED BY <1>3, Induction
  <1>5. ASSUME NEW i \in 1..(n + 1) PROVE RulesTyped(tokens, i, P[i])
    <2>1. n + 1 - i \in Nat /\ n + 1 - i <= n /\ n + 1 - (n + 1 - i) = i
      BY <1>1
    <2> QED BY <1>4, <2>1
  <1> QED BY <1>5
-----------------------------------------------------------------------------
(* What has a meaning is balanced                                            *)

Balanced(tokens, i, j) ==
    /\ Depth(tokens)[j] = Depth(tokens)[i - 1]
    /\ \A p \in i..j : Depth(tokens)[p] >= Depth(tokens)[i - 1]

Good(tokens, i, j) ==
    /\ Balanced(tokens, i, j)
    /\ tokens[i] \notin Operators
    /\ tokens[j] \notin Operators

\* A call from i to j, and the node it stands for
IsCall(tokens, i, j, tree) ==
    \/ j = i + 2 /\ tree = Aggregation(tokens[i], FALSE, "none")
    \/ j = i + 3 /\ tokens[i + 2] = "*" /\ tree = Aggregation(tokens[i], FALSE, "none")
    \/ j = i + 3 /\ tokens[i + 2] = "distinct" /\ tree = Aggregation(tokens[i], TRUE, "none")
    \/ j = i + 3 /\ IsName(tokens[i + 2]) /\ tree = Aggregation(tokens[i], FALSE, tokens[i + 2])
    \/ /\ j = i + 4 /\ tokens[i + 2] = "distinct" /\ IsName(tokens[i + 3])
       /\ tree = Aggregation(tokens[i], TRUE, tokens[i + 3])

LEMMA ShortSequences ==
    ASSUME NEW s \in Seq(STRING)
    PROVE  /\ s = <<>> <=> Len(s) = 0
           /\ \A x : s = <<x>> <=> Len(s) = 1 /\ s[1] = x
  <1>1. s = <<>> <=> Len(s) = 0
    BY EmptySeq
  <1>2. ASSUME NEW x PROVE s = <<x>> <=> Len(s) = 1 /\ s[1] = x
    <2>1. ASSUME Len(s) = 1, s[1] = x PROVE s = <<x>>
      <3>1. s = [i \in 1..1 |-> s[i]]
        BY <2>1
      <3>2. <<x>> = [i \in 1..1 |-> x]
        OBVIOUS
      <3> QED BY <2>1, <3>1, <3>2
    <2> QED BY <2>1
  <1> QED BY <1>1, <1>2

LEMMA ArgumentIs ==
    ASSUME NEW tokens \in Seq(STRING), NEW i \in 1..Len(tokens), NEW j \in 1..Len(tokens),
           i + 2 <= j
    PROVE  LET tree == Argument(SubSeq(tokens, i + 2, j - 1), tokens[i])
           IN  /\ tree # Malformed => IsCall(tokens, i, j, tree)
               /\ \A t : IsCall(tokens, i, j, t) => tree = t /\ t # Malformed
  <1> DEFINE args == SubSeq(tokens, i + 2, j - 1)
             tree == Argument(args, tokens[i])
             m == j - i - 2
  <1>1. /\ args \in Seq(STRING) /\ Len(args) = m /\ m \in Nat
        /\ \A p \in 1..m : args[p] = tokens[i + 1 + p]
    <2>1. i + 2 \in 1..(Len(tokens) + 1) /\ j - 1 \in (i + 2) - 1..Len(tokens)
      OBVIOUS
    <2>2. i + 2 \in Int /\ j - 1 \in Int /\ \A p \in (i + 2)..(j - 1) : tokens[p] \in STRING
      OBVIOUS
    <2>3. /\ args \in Seq(STRING)
          /\ Len(args) = IF i + 2 <= j - 1 THEN (j - 1) - (i + 2) + 1 ELSE 0
          /\ \A p \in 1..((j - 1) - (i + 2) + 1) : args[p] = tokens[(i + 2) + p - 1]
      BY <2>2, SubSeqProperties
    <2>4. Len(args) = m /\ m \in Nat /\ (j - 1) - (i + 2) + 1 = m
      BY <2>1, <2>3
    <2>5. \A p \in 1..m : (i + 2) + p - 1 = i + 1 + p
      OBVIOUS
    <2> QED BY <2>3, <2>4, <2>5
  <1> HIDE DEF args
  <1>0. (m >= 1 => args[1] = tokens[i + 2]) /\ (m >= 2 => args[2] = tokens[i + 3])
    <2>1. m >= 1 => 1 \in 1..m /\ i + 1 + 1 = i + 2
      BY <1>1
    <2>2. m >= 2 => 2 \in 1..m /\ i + 1 + 2 = i + 3
      BY <1>1
    <2> QED BY <1>1, <2>1, <2>2
  <1> HIDE DEF m
  <1>2. args \in {<<>>, <<"*">>} <=> m = 0 \/ (m = 1 /\ tokens[i + 2] = "*")
    <2>1. args = <<>> <=> m = 0
      BY <1>1, ShortSequences
    <2>2. args = <<"*">> <=> m = 1 /\ args[1] = "*"
      BY <1>1, ShortSequences
    <2> QED BY <1>0, <1>1, <2>1, <2>2
  <1>3. args = <<"distinct">> <=> m = 1 /\ tokens[i + 2] = "distinct"
    <2>1. args = <<"distinct">> <=> m = 1 /\ args[1] = "distinct"
      BY <1>1, ShortSequences
    <2> QED BY <1>0, <1>1, <2>1
  <1>4. m = 1 => Last(args) = tokens[i + 2]
    BY <1>0, <1>1 DEF Last
  <1>5. m = 2 => Last(args) = tokens[i + 3] /\ args[1] = tokens[i + 2]
    BY <1>0, <1>1 DEF Last
  <1>6. ~IsName("*") /\ ~IsName("distinct")
    BY DEF IsName, Operators
  <1>7. \A fn, d, c : Aggregation(fn, d, c) # Malformed
    BY DEF Aggregation, Malformed
  <1> DEFINE star == m = 0 \/ (m = 1 /\ tokens[i + 2] = "*")
             bare == m = 1 /\ tokens[i + 2] = "distinct"
             one  == m = 1 /\ IsName(tokens[i + 2])
             two  == m = 2 /\ tokens[i + 2] = "distinct" /\ IsName(tokens[i + 3])
  <1>8. tree = IF star THEN Aggregation(tokens[i], FALSE, "none")
               ELSE IF bare THEN Aggregation(tokens[i], TRUE, "none")
               ELSE IF one THEN Aggregation(tokens[i], FALSE, tokens[i + 2])
               ELSE IF two THEN Aggregation(tokens[i], TRUE, tokens[i + 3])
               ELSE Malformed
    <2>1. Len(args) = 1 /\ IsName(Last(args)) <=> one
      BY <1>1, <1>4
    <2>2. Len(args) = 2 /\ args[1] = "distinct" /\ IsName(Last(args)) <=> two
      BY <1>1, <1>5
    <2>3. one => Last(args) = tokens[i + 2]
      BY <1>4
    <2>4. two => Last(args) = tokens[i + 3]
      BY <1>5
    <2>5. args \in {<<>>, <<"*">>} <=> star
      BY <1>2
    <2>6. args = <<"distinct">> <=> bare
      BY <1>3
    <2>7. /\ star => ~bare /\ ~one /\ ~two
          /\ bare => ~one /\ ~two
          /\ one => ~two
      BY <1>6
    <2> HIDE DEF star, bare, one, two
    <2>8. CASE star
      BY <2>1, <2>2, <2>5, <2>6, <2>7, <2>8 DEF Argument
    <2>9. CASE bare
      BY <2>1, <2>2, <2>5, <2>6, <2>7, <2>9 DEF Argument
    <2>10. CASE one
      BY <2>1, <2>2, <2>3, <2>5, <2>6, <2>7, <2>10 DEF Argument
    <2>11. CASE two
      BY <2>1, <2>2, <2>4, <2>5, <2>6, <2>7, <2>11 DEF Argument
    <2>12. CASE ~star /\ ~bare /\ ~one /\ ~two
      BY <2>1, <2>2, <2>5, <2>6, <2>12 DEF Argument
    <2> QED BY <2>8, <2>9, <2>10, <2>11, <2>12
  <1>9. (j = i + 2 <=> m = 0) /\ (j = i + 3 <=> m = 1) /\ (j = i + 4 <=> m = 2)
    BY DEF m
  <1> HIDE DEF tree
  <1>10. tree # Malformed => IsCall(tokens, i, j, tree)
    BY <1>8, <1>9 DEF IsCall
  <1>11. \A t : IsCall(tokens, i, j, t) => tree = t /\ t # Malformed
    <2>1. ASSUME NEW t, IsCall(tokens, i, j, t) PROVE tree = t /\ t # Malformed
      <3>1. CASE m = 0
        <4>0. m # 1 /\ m # 2
          BY <3>1
        <4>1. t = Aggregation(tokens[i], FALSE, "none")
          BY <1>9, <2>1, <3>1, <4>0 DEF IsCall
        <4>2. tree = Aggregation(tokens[i], FALSE, "none")
          BY <1>8, <3>1
        <4> QED BY <1>7, <4>1, <4>2
      <3>2. CASE m = 1
        <4>0. m # 0 /\ m # 2
          BY <3>2
        <4>1. CASE tokens[i + 2] = "*"
          <5>1. t = Aggregation(tokens[i], FALSE, "none")
            BY <1>6, <1>9, <2>1, <3>2, <4>0, <4>1 DEF IsCall
          <5>2. tree = Aggregation(tokens[i], FALSE, "none")
            BY <1>8, <3>2, <4>1
          <5> QED BY <1>7, <5>1, <5>2
        <4>2. CASE tokens[i + 2] = "distinct"
          <5>1. t = Aggregation(tokens[i], TRUE, "none")
            BY <1>6, <1>9, <2>1, <3>2, <4>0, <4>2 DEF IsCall
          <5>2. tree = Aggregation(tokens[i], TRUE, "none")
            BY <1>8, <3>2, <4>2
          <5> QED BY <1>7, <5>1, <5>2
        <4>3. CASE tokens[i + 2] # "*" /\ tokens[i + 2] # "distinct"
          <5>1. IsName(tokens[i + 2]) /\ t = Aggregation(tokens[i], FALSE, tokens[i + 2])
            BY <1>9, <2>1, <3>2, <4>0, <4>3 DEF IsCall
          <5>2. tree = Aggregation(tokens[i], FALSE, tokens[i + 2])
            BY <1>8, <3>2, <4>3, <5>1
          <5> QED BY <1>7, <5>1, <5>2
        <4> QED BY <4>1, <4>2, <4>3
      <3>3. CASE m = 2
        <4>0. m # 0 /\ m # 1
          BY <3>3
        <4>1. /\ tokens[i + 2] = "distinct" /\ IsName(tokens[i + 3])
              /\ t = Aggregation(tokens[i], TRUE, tokens[i + 3])
          BY <1>9, <2>1, <3>3, <4>0 DEF IsCall
        <4>2. tree = Aggregation(tokens[i], TRUE, tokens[i + 3])
          BY <1>8, <3>3, <4>1
        <4> QED BY <1>7, <4>1, <4>2
      <3>4. m \in {0, 1, 2}
        BY <1>9, <2>1 DEF IsCall
      <3> QED BY <3>1, <3>2, <3>3, <3>4
    <2> QED BY <2>1
  <1> QED BY <1>10, <1>11 DEF tree, args
\* The interval between positions i and j, and what lies before it
LEMMA DepthTypes ==
    ASSUME NEW tokens \in Seq(STRING)
    PROVE  /\ \A i \in 0..Len(tokens) : Depth(tokens)[i] \in Int
           /\ \A i \in 1..(Len(tokens) + 1) : Depth(tokens)[i - 1] \in Int
           /\ \A i \in 1..Len(tokens) :
                 Depth(tokens)[i] = Depth(tokens)[i - 1] + Bracket(tokens[i])
  <1>1. Len(tokens) \in Nat
    OBVIOUS
  <1>2. \A i \in 1..(Len(tokens) + 1) : i - 1 \in 0..Len(tokens)
    BY <1>1
  <1>3. \A i \in 0..Len(tokens) : Depth(tokens)[i] \in Int
    BY DepthIs
  <1> QED BY <1>2, <1>3, DepthIs

LEMMA NoBracket ==
    ASSUME NEW t, t \in Operators \cup Numbers \cup Aggregations \cup {"distinct"} \/ IsName(t)
    PROVE  Bracket(t) = 0
  BY DEF Bracket, Operators, Numbers, Aggregations, IsName

LEMMA GoodAround ==
    ASSUME NEW tokens \in Seq(STRING), NEW i \in 1..Len(tokens), NEW j \in 1..Len(tokens),
           NEW l \in i..j, i <= l - 1, l + 1 <= j, tokens[l] \in Operators,
           Good(tokens, i, l - 1), Good(tokens, l + 1, j)
    PROVE  Good(tokens, i, j)
  <1> DEFINE d == Depth(tokens)
  <1>1. Len(tokens) \in Nat /\ i \in Int /\ j \in Int /\ l \in Int
    OBVIOUS
  <1>2. \A p \in 0..Len(tokens) : d[p] \in Int
    BY DepthTypes
  <1>3. l \in 1..Len(tokens) /\ (l + 1) - 1 = l
    BY <1>1
  <1>4. d[l] = d[l - 1]
    <2>1. Bracket(tokens[l]) = 0
      BY NoBracket
    <2>2. d[l] = d[l - 1] + Bracket(tokens[l])
      BY <1>3, DepthTypes
    <2>3. l - 1 \in 0..Len(tokens)
      BY <1>3
    <2> HIDE DEF d
    <2> QED BY <1>2, <2>1, <2>2, <2>3
  <1> HIDE DEF d
  <1>5. /\ d[l - 1] = d[i - 1]
        /\ \A p \in i..(l - 1) : d[p] >= d[i - 1]
        /\ d[j] = d[l]
        /\ \A p \in (l + 1)..j : d[p] >= d[l]
    BY <1>3 DEF Good, Balanced, d
  <1>6. d[j] = d[i - 1]
    BY <1>4, <1>5
  <1>7. ASSUME NEW p \in i..j PROVE d[p] >= d[i - 1]
    <2>1. i - 1 \in 0..Len(tokens) /\ p \in 0..Len(tokens)
      BY <1>1
    <2>2. p \in i..(l - 1) \/ p = l \/ p \in (l + 1)..j
      BY <1>1
    <2> QED BY <1>2, <1>4, <1>5, <2>1, <2>2
  <1> QED BY <1>6, <1>7 DEF Good, Balanced, d

LEMMA GoodOne ==
    ASSUME NEW tokens \in Seq(STRING), NEW i \in 1..Len(tokens),
           tokens[i] \in Numbers \/ IsName(tokens[i])
    PROVE  Good(tokens, i, i)
  <1>1. Bracket(tokens[i]) = 0
    BY NoBracket
  <1>2. Depth(tokens)[i] = Depth(tokens)[i - 1] + Bracket(tokens[i])
        /\ Depth(tokens)[i - 1] \in Int
    BY DepthTypes
  <1>3. tokens[i] \notin Operators
    BY DEF Numbers, Operators, IsName
  <1>4. \A p \in i..i : p = i
    OBVIOUS
  <1> QED BY <1>1, <1>2, <1>3, <1>4 DEF Good, Balanced

\* Brackets around what is balanced, or around nothing, or around a few words
LEMMA GoodBrackets ==
    ASSUME NEW tokens \in Seq(STRING), NEW i \in 1..Len(tokens), NEW j \in 1..Len(tokens), i < j,
           tokens[i] = "(", tokens[j] = ")",
           j = i + 1 \/ Balanced(tokens, i + 1, j - 1)
    PROVE  Good(tokens, i, j) /\ \A p \in i..(j - 1) : Depth(tokens)[p] > Depth(tokens)[i - 1]
  <1> DEFINE d == Depth(tokens)
  <1>1. Len(tokens) \in Nat /\ i \in Int /\ j \in Int
    OBVIOUS
  <1>2. \A p \in 0..Len(tokens) : d[p] \in Int
    BY DepthTypes
  <1>3. d[i] = d[i - 1] + 1 /\ d[j] = d[j - 1] - 1
    <2>1. Bracket(tokens[i]) = 1 /\ Bracket(tokens[j]) = -1
      BY DEF Bracket
    <2>2. d[i] = d[i - 1] + Bracket(tokens[i]) /\ d[j] = d[j - 1] + Bracket(tokens[j])
      BY DepthTypes
    <2>3. i - 1 \in 0..Len(tokens) /\ j - 1 \in 0..Len(tokens)
      BY <1>1
    <2> HIDE DEF d
    <2> QED BY <1>2, <2>1, <2>2, <2>3
  <1>4. d[j - 1] = d[i] /\ \A p \in (i + 1)..(j - 1) : d[p] >= d[i]
    <2>1. CASE j = i + 1
      <3>1. j - 1 = i /\ (i + 1)..(j - 1) = {}
        BY <1>1, <2>1
      <3> QED BY <3>1
    <2>2. CASE Balanced(tokens, i + 1, j - 1)
      <3>1. (i + 1) - 1 = i
        BY <1>1
      <3> QED BY <2>2, <3>1 DEF Balanced
    <2> QED BY <2>1, <2>2
  <1> HIDE DEF d
  <1>5. i - 1 \in 0..Len(tokens) /\ i \in 0..Len(tokens) /\ j - 1 \in 0..Len(tokens)
    BY <1>1
  <1>6. d[j] = d[i - 1]
    BY <1>2, <1>3, <1>4, <1>5
  <1>7. ASSUME NEW p \in i..(j - 1) PROVE d[p] > d[i - 1]
    <2>1. p = i \/ p \in (i + 1)..(j - 1)
      BY <1>1
    <2>2. p \in 0..Len(tokens)
      BY <1>1
    <2> QED BY <1>2, <1>3, <1>4, <1>5, <2>1, <2>2
  <1>8. ASSUME NEW p \in i..j PROVE d[p] >= d[i - 1]
    <2>1. p \in i..(j - 1) \/ p = j
      BY <1>1
    <2>2. p \in 0..Len(tokens)
      BY <1>1
    <2> QED BY <1>2, <1>5, <1>6, <1>7, <2>1, <2>2
  <1>9. tokens[i] \notin Operators /\ tokens[j] \notin Operators
    BY DEF Operators
  <1> QED BY <1>6, <1>7, <1>8, <1>9 DEF Good, Balanced, d

LEMMA GoodCall ==
    ASSUME NEW tokens \in Seq(STRING), NEW i \in 1..Len(tokens), NEW j \in 1..Len(tokens),
           NEW tree, IsCall(tokens, i, j, tree),
           tokens[i] \in Aggregations, tokens[i + 1] = "(", tokens[j] = ")"
    PROVE  /\ Good(tokens, i, j)
           /\ \A p \in (i + 1)..(j - 1) : Depth(tokens)[p] > Depth(tokens)[i - 1]
  <1> DEFINE d == Depth(tokens)
  <1>1. Len(tokens) \in Nat /\ i \in Int /\ j \in Int
    OBVIOUS
  <1>2. j \in {i + 2, i + 3, i + 4} /\ i + 1 \in 1..Len(tokens)
    <2>1. j = i + 2 \/ j = i + 3 \/ j = i + 4
      BY DEF IsCall
    <2> QED BY <1>1, <2>1
  <1>3. \A p \in 0..Len(tokens) : d[p] \in Int
    BY DepthTypes
  <1>4. d[i] = d[i - 1]
    <2>1. Bracket(tokens[i]) = 0
      BY NoBracket
    <2>2. d[i] = d[i - 1] + Bracket(tokens[i]) /\ d[i - 1] \in Int
      BY DepthTypes
    <2> QED BY <2>1, <2>2
  <1>5. j = i + 2 \/ Balanced(tokens, i + 2, j - 1)
    <2>1. CASE j = i + 3
      <3>1. i + 2 \in 1..Len(tokens) /\ (i + 2) - 1 = i + 1 /\ j - 1 = i + 2
        BY <1>1, <2>1
      <3>2. tokens[i + 2] \in Operators \cup {"distinct"} \/ IsName(tokens[i + 2])
        <4>1. j # i + 2 /\ j # i + 4
          BY <1>1, <2>1
        <4>2. tokens[i + 2] \in {"*", "distinct"} \/ IsName(tokens[i + 2])
          BY <4>1 DEF IsCall
        <4> QED BY <4>2 DEF Operators
      <3>3. Bracket(tokens[i + 2]) = 0
        BY <3>2, NoBracket
      <3>4. d[i + 2] = d[i + 1] + Bracket(tokens[i + 2]) /\ d[i + 1] \in Int
        BY <3>1, DepthTypes
      <3>5. d[i + 2] = d[i + 1]
        BY <3>3, <3>4
      <3>6. \A p \in (i + 2)..(i + 2) : p = i + 2
        BY <1>1
      <3> QED BY <3>1, <3>4, <3>5, <3>6 DEF Balanced
    <2>2. CASE j = i + 4
      <3>1. /\ i + 2 \in 1..Len(tokens) /\ i + 3 \in 1..Len(tokens)
            /\ (i + 2) - 1 = i + 1 /\ (i + 3) - 1 = i + 2 /\ j - 1 = i + 3
        BY <1>1, <2>2
      <3>2. tokens[i + 2] = "distinct" /\ IsName(tokens[i + 3])
        <4>1. j # i + 2 /\ j # i + 3
          BY <1>1, <2>2
        <4> QED BY <4>1 DEF IsCall
      <3>3. Bracket(tokens[i + 2]) = 0 /\ Bracket(tokens[i + 3]) = 0
        BY <3>2, NoBracket
      <3>4. /\ d[i + 2] = d[i + 1] + Bracket(tokens[i + 2]) /\ d[i + 1] \in Int
            /\ d[i + 3] = d[i + 2] + Bracket(tokens[i + 3]) /\ d[i + 2] \in Int
        BY <3>1, DepthTypes
      <3>5. d[i + 2] = d[i + 1] /\ d[i + 3] = d[i + 1]
        BY <3>3, <3>4
      <3>6. \A p \in (i + 2)..(i + 3) : p = i + 2 \/ p = i + 3
        BY <1>1
      <3> QED BY <3>1, <3>4, <3>5, <3>6 DEF Balanced
    <2> QED BY <1>2, <2>1, <2>2
  <1>6. /\ Good(tokens, i + 1, j)
        /\ \A p \in (i + 1)..(j - 1) : d[p] > d[(i + 1) - 1]
    <2>1. i + 1 < j /\ (j = i + 2 <=> j = (i + 1) + 1) /\ (i + 1) + 1 = i + 2
      BY <1>1, <1>2
    <2> QED BY <1>2, <1>5, <2>1, GoodBrackets
  <1>7. (i + 1) - 1 = i
    BY <1>1
  <1> HIDE DEF d
  <1>8. d[j] = d[i - 1] /\ \A p \in (i + 1)..j : d[p] >= d[i - 1]
    BY <1>4, <1>6, <1>7 DEF Good, Balanced, d
  <1>9. ASSUME NEW p \in i..j PROVE d[p] >= d[i - 1]
    <2>1. p = i \/ p \in (i + 1)..j
      BY <1>1
    <2>2. i - 1 \in 0..Len(tokens)
      BY <1>1
    <2> QED BY <1>3, <1>4, <1>8, <2>1, <2>2
  <1>10. tokens[i] \notin Operators /\ tokens[j] \notin Operators
    BY DEF Operators, Aggregations
  <1> QED BY <1>4, <1>6, <1>7, <1>8, <1>9, <1>10 DEF Good, Balanced, d
\* The five ways to have a meaning
IsSplit(tokens, i, j, l) ==
    LET M == Meanings(tokens)
    IN  /\ l = Max(Ops(tokens, i, j))
        /\ l \in Ops(tokens, i, j)
        /\ \A p \in Ops(tokens, i, j) : p <= l
        /\ M[<<i, l - 1>>] # Malformed
        /\ M[<<l + 1, j>>] # Malformed
        /\ M[<<i, j>>] = Binary(tokens[l], M[<<i, l - 1>>], M[<<l + 1, j>>])
IsNumber(tokens, i, j) ==
    i = j /\ tokens[i] \in Numbers /\ Meanings(tokens)[<<i, j>>] = Number(tokens[i])
IsColumn(tokens, i, j) ==
    i = j /\ IsName(tokens[i]) /\ Meanings(tokens)[<<i, j>>] = Column(tokens[i])
IsBracketed(tokens, i, j) ==
    /\ i < j /\ tokens[i] = "(" /\ tokens[j] = ")"
    /\ Meanings(tokens)[<<i, j>>] = Meanings(tokens)[<<i + 1, j - 1>>]
IsApplied(tokens, i, j) ==
    /\ i < j /\ tokens[i] \in Aggregations /\ tokens[i + 1] = "(" /\ tokens[j] = ")"
    /\ IsCall(tokens, i, j, Meanings(tokens)[<<i, j>>])

LEMMA MeaningCases ==
    ASSUME NEW tokens \in Seq(STRING), NEW i \in 1..(Len(tokens) + 1), NEW j \in 0..Len(tokens),
           Meanings(tokens)[<<i, j>>] # Malformed
    PROVE  /\ i <= j
           /\ \/ Ops(tokens, i, j) # {} /\ IsSplit(tokens, i, j, Max(Ops(tokens, i, j)))
              \/ /\ Ops(tokens, i, j) = {}
                 /\ \/ IsNumber(tokens, i, j) \/ IsColumn(tokens, i, j)
                    \/ IsBracketed(tokens, i, j) \/ IsApplied(tokens, i, j)
  <1> DEFINE M == Meanings(tokens)
             O == Ops(tokens, i, j)
             l == Max(O)
  <1>1. Len(tokens) \in Nat /\ i \in Int /\ j \in Int
    OBVIOUS
  <1>2. M[<<i, j>>] = MeaningOf(tokens, Depth(tokens), i, j, M)
    BY MeaningsIs DEF IsMeaning
  <1> HIDE DEF M
  <1>3. i <= j
    BY <1>1, <1>2 DEF MeaningOf, M
  <1>4. CASE O # {}
    <2>1. M[<<i, j>>] = Composed(tokens[l], M[<<i, l - 1>>], M[<<l + 1, j>>])
      BY <1>1, <1>2, <1>3, <1>4 DEF MeaningOf, Ops
    <2>2. l \in O /\ \A p \in O : p <= l
      BY <1>1, <1>4, OpsInside
    <2>3. M[<<i, l - 1>>] # Malformed /\ M[<<l + 1, j>>] # Malformed
      BY <2>1 DEF Composed, M
    <2>4. M[<<i, j>>] = Binary(tokens[l], M[<<i, l - 1>>], M[<<l + 1, j>>])
      BY <2>1, <2>3 DEF Composed
    <2> HIDE DEF O, l
    <2>5. l = Max(O)
      BY DEF l
    <2>6. IsSplit(tokens, i, j, l)
      BY <2>2, <2>3, <2>4, <2>5 DEF IsSplit, M, O
    <2> QED BY <1>3, <1>4, <2>6 DEF O, l
  <1>5. CASE O = {}
    <2>1. CASE i = j
      <3>1. M[<<i, j>>] = IF tokens[i] \in Numbers THEN Number(tokens[i])
                          ELSE IF IsName(tokens[i]) THEN Column(tokens[i]) ELSE Malformed
        BY <1>1, <1>2, <1>5, <2>1 DEF MeaningOf, Ops
      <3>2. IsNumber(tokens, i, j) \/ IsColumn(tokens, i, j)
        BY <2>1, <3>1 DEF IsNumber, IsColumn, M
      <3> QED BY <1>3, <1>5, <3>2
    <2>2. CASE i # j
      <3>1. M[<<i, j>>] = IF tokens[j] # ")" THEN Malformed
                          ELSE IF tokens[i] = "(" THEN M[<<i + 1, j - 1>>]
                          ELSE IF tokens[i] \in Aggregations /\ tokens[i + 1] = "("
                          THEN Argument(SubSeq(tokens, i + 2, j - 1), tokens[i])
                          ELSE Malformed
        BY <1>1, <1>2, <1>3, <1>5, <2>2 DEF MeaningOf, Ops
      <3>2. i < j /\ tokens[j] = ")"
        BY <1>1, <1>3, <2>2, <3>1 DEF M
      <3>3. CASE tokens[i] = "("
        <4>1. IsBracketed(tokens, i, j)
          BY <3>1, <3>2, <3>3 DEF IsBracketed, M
        <4> QED BY <1>3, <1>5, <4>1
      <3>4. CASE tokens[i] # "("
        <4>1. /\ tokens[i] \in Aggregations /\ tokens[i + 1] = "("
              /\ M[<<i, j>>] = Argument(SubSeq(tokens, i + 2, j - 1), tokens[i])
          BY <3>1, <3>2, <3>4 DEF M
        <4>2. i + 1 # j
          BY <3>2, <4>1
        <4>3. i \in 1..Len(tokens) /\ j \in 1..Len(tokens) /\ i + 2 <= j
          BY <1>1, <3>2, <4>2
        <4>4. IsCall(tokens, i, j, M[<<i, j>>])
          BY <4>1, <4>3, ArgumentIs DEF M
        <4>5. IsApplied(tokens, i, j)
          BY <3>2, <4>1, <4>4 DEF IsApplied, M
        <4> QED BY <1>3, <1>5, <4>5
      <3> QED BY <3>3, <3>4
    <2> QED BY <2>1, <2>2
  <1> QED BY <1>4, <1>5

\* An operator outside of brackets is at the depth of what is before it.
LEMMA SplitIs ==
    ASSUME NEW tokens \in Seq(STRING), NEW i \in 1..Len(tokens), NEW j \in 1..Len(tokens),
           NEW l \in Ops(tokens, i, j)
    PROVE  /\ l \in i..j /\ l \in 1..Len(tokens) /\ tokens[l] \in Operators
           /\ Depth(tokens)[l] = Depth(tokens)[i - 1]
  <1>1. l \in i..j /\ tokens[l] \in Operators /\ Depth(tokens)[l] = Depth(tokens)[i - 1]
    BY DEF Ops, Splits, Operators
  <1> QED BY <1>1

LEMMA MeaningGood ==
    ASSUME NEW tokens \in Seq(STRING)
    PROVE  \A i \in 1..(Len(tokens) + 1), j \in 0..Len(tokens) :
              Meanings(tokens)[<<i, j>>] # Malformed => i <= j /\ Good(tokens, i, j)
  <1> DEFINE n == Len(tokens)
             M == Meanings(tokens)
             Claim(i, j) == M[<<i, j>>] # Malformed => i <= j /\ Good(tokens, i, j)
             S == {m \in Nat : \A i \in 1..(n + 1), j \in 0..n : j - i + n + 1 = m => Claim(i, j)}
  <1>1. n \in Nat
    OBVIOUS
  <1>2. ASSUME NEW m \in Nat, \A l \in 0..(m - 1) : l \in S PROVE m \in S
    <2> SUFFICES ASSUME NEW i \in 1..(n + 1), NEW j \in 0..n, j - i + n + 1 = m,
                        M[<<i, j>>] # Malformed
                 PROVE  i <= j /\ Good(tokens, i, j)
      OBVIOUS
    <2>1. ASSUME NEW a \in 1..(n + 1), NEW b \in 0..n, b - a < j - i PROVE Claim(a, b)
      <3>1. b - a + n + 1 \in 0..(m - 1)
        BY <1>1, <2>1
      <3>2. b - a + n + 1 \in S
        BY <1>2, <3>1
      <3> HIDE DEF Claim
      <3> QED BY <3>2
    <2>2. /\ i <= j
          /\ \/ Ops(tokens, i, j) # {} /\ IsSplit(tokens, i, j, Max(Ops(tokens, i, j)))
             \/ /\ Ops(tokens, i, j) = {}
                /\ \/ IsNumber(tokens, i, j) \/ IsColumn(tokens, i, j)
                   \/ IsBracketed(tokens, i, j) \/ IsApplied(tokens, i, j)
      BY MeaningCases
    <2>3. i \in 1..n /\ j \in 1..n
      BY <1>1, <2>2
    <2>4. ASSUME NEW l, IsSplit(tokens, i, j, l) PROVE Good(tokens, i, j)
      <3>1. /\ l \in Ops(tokens, i, j) /\ M[<<i, l - 1>>] # Malformed
            /\ M[<<l + 1, j>>] # Malformed
        BY <2>4 DEF IsSplit
      <3>2. l \in i..j /\ l \in 1..n /\ tokens[l] \in Operators
        BY <2>3, <3>1, SplitIs
      <3>3. /\ l - 1 \in 0..n /\ l + 1 \in 1..(n + 1)
            /\ (l - 1) - i < j - i /\ j - (l + 1) < j - i
        BY <1>1, <2>3, <3>2
      <3>4. Claim(i, l - 1) /\ Claim(l + 1, j)
        <4> HIDE DEF Claim
        <4> QED BY <2>1, <3>3
      <3>5. i <= l - 1 /\ Good(tokens, i, l - 1) /\ l + 1 <= j /\ Good(tokens, l + 1, j)
        BY <3>1, <3>4
      <3> QED BY <2>3, <3>2, <3>5, GoodAround
    <2>5. CASE IsNumber(tokens, i, j) \/ IsColumn(tokens, i, j)
      <3>1. i = j /\ (tokens[i] \in Numbers \/ IsName(tokens[i]))
        BY <2>5 DEF IsNumber, IsColumn
      <3> QED BY <2>2, <2>3, <3>1, GoodOne
    <2>6. CASE IsBracketed(tokens, i, j)
      <3>1. /\ i < j /\ tokens[i] = "(" /\ tokens[j] = ")"
            /\ M[<<i + 1, j - 1>>] # Malformed
        BY <2>6 DEF IsBracketed
      <3>2. i + 1 \in 1..(n + 1) /\ j - 1 \in 0..n /\ (j - 1) - (i + 1) < j - i
        BY <1>1, <2>3, <3>1
      <3>3. Claim(i + 1, j - 1)
        <4> HIDE DEF Claim
        <4> QED BY <2>1, <3>2
      <3>4. Balanced(tokens, i + 1, j - 1)
        BY <3>1, <3>3 DEF Good
      <3> QED BY <2>2, <2>3, <3>1, <3>4, GoodBrackets
    <2>7. CASE IsApplied(tokens, i, j)
      BY <2>2, <2>3, <2>7, GoodCall DEF IsApplied
    <2> QED BY <2>2, <2>4, <2>5, <2>6, <2>7
  <1>3. \A m \in Nat : m \in S
    <2> HIDE DEF S
    <2> QED BY <1>2, Induction
  <1>4. ASSUME NEW i \in 1..(n + 1), NEW j \in 0..n PROVE Claim(i, j)
    <2>1. j - i + n + 1 \in Nat
      BY <1>1
    <2>2. j - i + n + 1 \in S
      BY <1>3, <2>1, Zenon
    <2> HIDE DEF Claim
    <2> QED BY <2>2
  <1> QED BY <1>4
-----------------------------------------------------------------------------
(* What the rules read at each place                                         *)

\* What a loop that follows an operand makes of it
Resume(l, loop) ==
    IF loop.out # "loop" THEN loop ELSE Found(Attach(l, loop.steps), loop.at)

LEMMA RulesAre ==
    ASSUME NEW tokens \in Seq(STRING), tokens # <<>>, NEW i \in 1..(Len(tokens) + 1)
    PROVE  LET P == Parsing(tokens)
               later == [j \in (i + 1)..(Len(tokens) + 1) |-> P[j]]
           IN  /\ P[i].factor = Factor(tokens, i, later)
               /\ P[i].products = Products(tokens, i, later)
               /\ P[i].sums = Sums(tokens, i, later)
               /\ P[i].term = IF P[i].factor.out # "found" THEN P[i].factor
                              ELSE Resume(P[i].factor.tree, P[P[i].factor.at].products)
               /\ P[i].expr = IF P[i].term.out # "found" THEN P[i].term
                              ELSE Resume(P[i].term.tree, P[P[i].term.at].sums)
  <1> DEFINE P == Parsing(tokens)
             n == Len(tokens)
             later == [j \in (i + 1)..(n + 1) |-> P[j]]
             factor == P[i].factor
             term == P[i].term
  <1>1. n \in Nat /\ P[i] = RulesAt(tokens, i, later)
    BY ParsingIs DEF IsParsing
  <1>2. RulesTyped(tokens, i, P[i])
    BY ParserTypes
  <1>3. \A m \in i..(n + 1) : m # i => later[m] = P[m]
    BY <1>1
  <1> HIDE DEF later, P
  <1>4. /\ factor = Factor(tokens, i, later)
        /\ P[i].products = Products(tokens, i, later)
        /\ P[i].sums = Sums(tokens, i, later)
    BY <1>1 DEF RulesAt, TermOf, ExprOf
  <1>5. term = IF factor.out # "found" THEN factor
               ELSE Chain(factor, IF factor.at = i THEN P[i].products
                                  ELSE later[factor.at].products)
    BY <1>1 DEF RulesAt, TermOf, ExprOf
  <1>6. P[i].expr = IF term.out # "found" THEN term
                    ELSE Chain(term, IF term.at = i THEN P[i].sums ELSE later[term.at].sums)
    BY <1>1 DEF RulesAt, TermOf, ExprOf
  <1>7. \A first, loop : Chain(first, loop) = Resume(first.tree, loop)
    BY DEF Chain, Resume
  <1>8. factor \in Readings(tokens, i) /\ term \in Readings(tokens, i)
    BY <1>2 DEF RulesTyped
  <1>9. factor.out = "found" => factor.at \in i..(n + 1)
    BY <1>8, ReadingIs
  <1>10. term.out = "found" => term.at \in i..(n + 1)
    BY <1>8, ReadingIs
  <1> HIDE DEF factor, term, n
  <1>11. term = IF factor.out # "found" THEN factor
                ELSE Resume(factor.tree, P[factor.at].products)
    BY <1>3, <1>5, <1>7, <1>9
  <1>12. P[i].expr = IF term.out # "found" THEN term
                     ELSE Resume(term.tree, P[term.at].sums)
    BY <1>3, <1>6, <1>7, <1>10
  <1> QED BY <1>4, <1>11, <1>12, Zenon DEF P, factor, term, later, n

\* A loop that takes an operator: it fails with the operand, or goes on behind it.
LEMMA ProductsAre ==
    ASSUME NEW tokens \in Seq(STRING), tokens # <<>>, NEW i \in 1..(Len(tokens) + 1)
    PROVE  LET P == Parsing(tokens)
               right == P[i + 1].factor
           IN  /\ Peek(tokens, i) \notin {"*", "/"} => P[i].products = Loop(<<>>, i)
               /\ Peek(tokens, i) \in {"*", "/"} =>
                     /\ i \in 1..Len(tokens) /\ i + 1 \in 1..(Len(tokens) + 1)
                     /\ tokens[i] = Peek(tokens, i)
                     /\ right.out # "found" => P[i].products = right
                     /\ right.out = "found" =>
                           /\ right.at \in (i + 1)..(Len(tokens) + 1)
                           /\ \A l : Resume(l, P[i].products)
                                   = Resume(Binary(tokens[i], l, right.tree), P[right.at].products)
                           /\ P[i].products.out = P[right.at].products.out
                           /\ P[i].products.out = "loop" =>
                                 P[i].products.at = P[right.at].products.at
  <1> DEFINE P == Parsing(tokens)
             n == Len(tokens)
             later == [j \in (i + 1)..(n + 1) |-> P[j]]
             rest == [j \in DOMAIN later |-> later[j].products]
             right == P[i + 1].factor
             loop == P[right.at].products
             step == [op |-> tokens[i], tree |-> right.tree]
  <1>1. n \in Nat /\ i \in Int
    OBVIOUS
  <1>2. P[i].products = Products(tokens, i, later)
    BY RulesAre
  <1>3. CASE Peek(tokens, i) \notin {"*", "/"}
    <2> HIDE DEF later
    <2> QED BY <1>2, <1>3 DEF Products
  <1>4. CASE Peek(tokens, i) \in {"*", "/"}
    <2>1. Peek(tokens, i) # "" /\ Peek(tokens, i) \in Operators
      BY <1>4 DEF Operators
    <2>2. i \in 1..n /\ tokens[i] = Peek(tokens, i)
      BY <2>1, PeekIs DEF Peek
    <2>3. i + 1 \in 1..(n + 1) /\ i + 1 \in (i + 1)..(n + 1)
      BY <1>1, <2>2
    <2>4. P[i].products = Steps(right, rest, tokens[i])
      <3>1. later[i + 1] = P[i + 1]
        BY <2>3
      <3> HIDE DEF later, P
      <3> QED BY <1>2, <1>4, <3>1 DEF Products
    <2>5. right \in Readings(tokens, i + 1)
      BY <2>3, ParserTypes DEF RulesTyped
    <2>6. right.out = "found" => right.at \in (i + 1)..(n + 1) /\ right.tree \in TreesOf(tokens)
      BY <2>5, ReadingIs
    <2>7. right.out = "found" => rest[right.at] = loop
      BY <2>6
    <2>8. right.out = "found" => loop \in Loopings(tokens, right.at)
      <3>1. right.out = "found" => right.at \in 1..(n + 1)
        BY <1>1, <2>3, <2>6
      <3> HIDE DEF P
      <3> QED BY <3>1, ParserTypes DEF RulesTyped, P
    <2>9. right.out = "found" /\ loop.out = "loop" => loop.steps \in Seq(StepsOf(tokens))
      BY <2>8, LoopingIs
    <2>10. step \in StepsOf(tokens) \/ right.out # "found"
      BY <2>1, <2>2, <2>6 DEF StepsOf
    <2> HIDE DEF rest, right, loop, P
    <2>11. right.out # "found" => P[i].products = right
      BY <2>4 DEF Steps
    <2>12. right.out = "found" /\ loop.out # "loop" => P[i].products = loop
      BY <2>4, <2>7 DEF Steps
    <2>13. right.out = "found" /\ loop.out = "loop" =>
              P[i].products = Loop(<<step>> \o loop.steps, loop.at)
      BY <2>4, <2>7 DEF Steps
    <2>14. ASSUME right.out = "found", NEW l
           PROVE  Resume(l, P[i].products) = Resume(Binary(tokens[i], l, right.tree), loop)
      <3>1. CASE loop.out # "loop"
        BY <2>12, <2>14, <3>1 DEF Resume
      <3>2. CASE loop.out = "loop"
        <4> DEFINE steps == <<step>> \o loop.steps
        <4>1. Attach(l, steps) = Attach(Binary(step.op, l, step.tree), loop.steps)
          <5> HIDE DEF step
          <5> QED BY <2>9, <2>10, <2>14, <3>2, AttachFirst
        <4>2. step.op = tokens[i] /\ step.tree = right.tree
          OBVIOUS
        <4> HIDE DEF step, steps
        <4>5. P[i].products = Loop(steps, loop.at)
          BY <2>13, <2>14, <3>2 DEF steps
        <4>6. /\ P[i].products.out = "loop" /\ P[i].products.steps = steps
              /\ P[i].products.at = loop.at
          BY <4>5 DEF Loop
        <4>3. Resume(l, P[i].products) = Found(Attach(l, steps), loop.at)
          BY <4>6 DEF Resume
        <4>4. Resume(Binary(tokens[i], l, right.tree), loop)
                = Found(Attach(Binary(tokens[i], l, right.tree), loop.steps), loop.at)
          BY <3>2 DEF Resume
        <4> QED BY <4>1, <4>2, <4>3, <4>4
      <3> QED BY <3>1, <3>2
    <2>15. right.out = "found" =>
              /\ P[i].products.out = loop.out
              /\ P[i].products.out = "loop" => P[i].products.at = loop.at
      BY <2>12, <2>13 DEF Loop
    <2> QED BY <1>4, <2>2, <2>3, <2>6, <2>11, <2>14, <2>15 DEF right, loop, P, n
  <1> QED BY <1>3, <1>4

LEMMA SumsAre ==
    ASSUME NEW tokens \in Seq(STRING), tokens # <<>>, NEW i \in 1..(Len(tokens) + 1)
    PROVE  LET P == Parsing(tokens)
               right == P[i + 1].term
           IN  /\ Peek(tokens, i) \notin {"+", "-"} => P[i].sums = Loop(<<>>, i)
               /\ Peek(tokens, i) \in {"+", "-"} =>
                     /\ i \in 1..Len(tokens) /\ i + 1 \in 1..(Len(tokens) + 1)
                     /\ tokens[i] = Peek(tokens, i)
                     /\ right.out # "found" => P[i].sums = right
                     /\ right.out = "found" =>
                           /\ right.at \in (i + 1)..(Len(tokens) + 1)
                           /\ \A l : Resume(l, P[i].sums)
                                   = Resume(Binary(tokens[i], l, right.tree), P[right.at].sums)
                           /\ P[i].sums.out = P[right.at].sums.out
                           /\ P[i].sums.out = "loop" =>
                                 P[i].sums.at = P[right.at].sums.at
  <1> DEFINE P == Parsing(tokens)
             n == Len(tokens)
             later == [j \in (i + 1)..(n + 1) |-> P[j]]
             rest == [j \in DOMAIN later |-> later[j].sums]
             right == P[i + 1].term
             loop == P[right.at].sums
             step == [op |-> tokens[i], tree |-> right.tree]
  <1>1. n \in Nat /\ i \in Int
    OBVIOUS
  <1>2. P[i].sums = Sums(tokens, i, later)
    BY RulesAre
  <1>3. CASE Peek(tokens, i) \notin {"+", "-"}
    <2> HIDE DEF later
    <2> QED BY <1>2, <1>3 DEF Sums
  <1>4. CASE Peek(tokens, i) \in {"+", "-"}
    <2>1. Peek(tokens, i) # "" /\ Peek(tokens, i) \in Operators
      BY <1>4 DEF Operators
    <2>2. i \in 1..n /\ tokens[i] = Peek(tokens, i)
      BY <2>1, PeekIs DEF Peek
    <2>3. i + 1 \in 1..(n + 1) /\ i + 1 \in (i + 1)..(n + 1)
      BY <1>1, <2>2
    <2>4. P[i].sums = Steps(right, rest, tokens[i])
      <3>1. later[i + 1] = P[i + 1]
        BY <2>3
      <3> HIDE DEF later, P
      <3> QED BY <1>2, <1>4, <3>1 DEF Sums
    <2>5. right \in Readings(tokens, i + 1)
      BY <2>3, ParserTypes DEF RulesTyped
    <2>6. right.out = "found" => right.at \in (i + 1)..(n + 1) /\ right.tree \in TreesOf(tokens)
      BY <2>5, ReadingIs
    <2>7. right.out = "found" => rest[right.at] = loop
      BY <2>6
    <2>8. right.out = "found" => loop \in Loopings(tokens, right.at)
      <3>1. right.out = "found" => right.at \in 1..(n + 1)
        BY <1>1, <2>3, <2>6
      <3> HIDE DEF P
      <3> QED BY <3>1, ParserTypes DEF RulesTyped, P
    <2>9. right.out = "found" /\ loop.out = "loop" => loop.steps \in Seq(StepsOf(tokens))
      BY <2>8, LoopingIs
    <2>10. step \in StepsOf(tokens) \/ right.out # "found"
      BY <2>1, <2>2, <2>6 DEF StepsOf
    <2> HIDE DEF rest, right, loop, P
    <2>11. right.out # "found" => P[i].sums = right
      BY <2>4 DEF Steps
    <2>12. right.out = "found" /\ loop.out # "loop" => P[i].sums = loop
      BY <2>4, <2>7 DEF Steps
    <2>13. right.out = "found" /\ loop.out = "loop" =>
              P[i].sums = Loop(<<step>> \o loop.steps, loop.at)
      BY <2>4, <2>7 DEF Steps
    <2>14. ASSUME right.out = "found", NEW l
           PROVE  Resume(l, P[i].sums) = Resume(Binary(tokens[i], l, right.tree), loop)
      <3>1. CASE loop.out # "loop"
        BY <2>12, <2>14, <3>1 DEF Resume
      <3>2. CASE loop.out = "loop"
        <4> DEFINE steps == <<step>> \o loop.steps
        <4>1. Attach(l, steps) = Attach(Binary(step.op, l, step.tree), loop.steps)
          <5> HIDE DEF step
          <5> QED BY <2>9, <2>10, <2>14, <3>2, AttachFirst
        <4>2. step.op = tokens[i] /\ step.tree = right.tree
          OBVIOUS
        <4> HIDE DEF step, steps
        <4>5. P[i].sums = Loop(steps, loop.at)
          BY <2>13, <2>14, <3>2 DEF steps
        <4>6. /\ P[i].sums.out = "loop" /\ P[i].sums.steps = steps
              /\ P[i].sums.at = loop.at
          BY <4>5 DEF Loop
        <4>3. Resume(l, P[i].sums) = Found(Attach(l, steps), loop.at)
          BY <4>6 DEF Resume
        <4>4. Resume(Binary(tokens[i], l, right.tree), loop)
                = Found(Attach(Binary(tokens[i], l, right.tree), loop.steps), loop.at)
          BY <3>2 DEF Resume
        <4> QED BY <4>1, <4>2, <4>3, <4>4
      <3> QED BY <3>1, <3>2
    <2>15. right.out = "found" =>
              /\ P[i].sums.out = loop.out
              /\ P[i].sums.out = "loop" => P[i].sums.at = loop.at
      BY <2>12, <2>13 DEF Loop
    <2> QED BY <1>4, <2>2, <2>3, <2>6, <2>11, <2>14, <2>15 DEF right, loop, P, n
  <1> QED BY <1>3, <1>4
-----------------------------------------------------------------------------
(* What has a meaning is read                                                *)

SumSplits(tokens, i, j)     == Splits(tokens, Depth(tokens), i, j, {"+", "-"})
ProductSplits(tokens, i, j) == Splits(tokens, Depth(tokens), i, j, {"*", "/"})

FactorReads(tokens, i, j) ==
    Ops(tokens, i, j) = {} /\ Peek(tokens, j + 1) # "(" =>
        Parsing(tokens)[i].factor = Found(Meanings(tokens)[<<i, j>>], j + 1)
TermReads(tokens, i, j) ==
    SumSplits(tokens, i, j) = {} /\ Peek(tokens, j + 1) # "(" =>
        Parsing(tokens)[i].term
            = Resume(Meanings(tokens)[<<i, j>>], Parsing(tokens)[j + 1].products)
ExprReads(tokens, i, j) ==
    Peek(tokens, j + 1) \notin {"*", "/", "("} =>
        Parsing(tokens)[i].expr
            = Resume(Meanings(tokens)[<<i, j>>], Parsing(tokens)[j + 1].sums)
IsReadAt(tokens, i, j) ==
    Meanings(tokens)[<<i, j>>] # Malformed =>
        FactorReads(tokens, i, j) /\ TermReads(tokens, i, j) /\ ExprReads(tokens, i, j)

LEMMA ResumeEnd ==
    ASSUME NEW l, NEW i
    PROVE  Resume(l, Loop(<<>>, i)) = Found(l, i)
  BY AttachNone DEF Resume, Loop

\* The part behind the last operator has no operator of that kind, or of a lower one.
LEMMA BehindLast ==
    ASSUME NEW tokens \in Seq(STRING), NEW i \in 1..Len(tokens), NEW j \in 1..Len(tokens),
           NEW l, IsSplit(tokens, i, j, l)
    PROVE  /\ SumSplits(tokens, l + 1, j) = {}
           /\ SumSplits(tokens, i, j) = {} =>
                 /\ tokens[l] \in {"*", "/"}
                 /\ SumSplits(tokens, i, l - 1) = {}
                 /\ Ops(tokens, l + 1, j) = {}
           /\ SumSplits(tokens, i, j) # {} => tokens[l] \in {"+", "-"}
  <1>1. /\ l \in Ops(tokens, i, j) /\ \A p \in Ops(tokens, i, j) : p <= l
    BY DEF IsSplit
  <1>2. l \in i..j /\ l \in 1..Len(tokens) /\ Depth(tokens)[l] = Depth(tokens)[i - 1]
    BY <1>1, SplitIs
  <1>3. (l + 1) - 1 = l /\ l \in Int /\ i \in Int /\ j \in Int
    BY <1>2
  <1> DEFINE d == Depth(tokens)
  <1>4. \A a, b, p, ops : p \in Splits(tokens, d, a, b, ops)
                             <=> p \in a..b /\ tokens[p] \in ops /\ d[p] = d[a - 1]
    BY DEF Splits
  <1> HIDE DEF d
  <1>5. \A p \in (l + 1)..j : p \in i..j /\ ~(p <= l)
    BY <1>2, <1>3
  <1>6. \A ops : Splits(tokens, d, l + 1, j, ops)
                    \subseteq {p \in Splits(tokens, d, i, j, ops) : p \notin Ops(tokens, i, j)}
    BY <1>1, <1>2, <1>3, <1>4, <1>5 DEF d
  <1>7. CASE SumSplits(tokens, i, j) # {}
    <2>1. Ops(tokens, i, j) = SumSplits(tokens, i, j)
      BY <1>7 DEF Ops, SumSplits
    <2>2. SumSplits(tokens, l + 1, j) = {}
      BY <1>6, <2>1 DEF SumSplits, d
    <2>3. tokens[l] \in {"+", "-"}
      BY <1>1, <1>4, <2>1 DEF SumSplits, d
    <2> QED BY <1>7, <2>2, <2>3
  <1>8. CASE SumSplits(tokens, i, j) = {}
    <2>1. Ops(tokens, i, j) = ProductSplits(tokens, i, j)
      BY <1>8 DEF Ops, SumSplits, ProductSplits
    <2>2. SumSplits(tokens, l + 1, j) = {}
      BY <1>6, <1>8 DEF SumSplits, d
    <2>3. ProductSplits(tokens, l + 1, j) = {}
      BY <1>6, <2>1 DEF ProductSplits, d
    <2>4. tokens[l] \in {"*", "/"}
      BY <1>1, <1>4, <2>1 DEF ProductSplits, d
    <2>5. SumSplits(tokens, i, l - 1) = {}
      <3>1. \A p \in i..(l - 1) : p \in i..j
        BY <1>2, <1>3
      <3> QED BY <1>4, <1>8, <3>1 DEF SumSplits, d
    <2>6. Ops(tokens, l + 1, j) = {}
      BY <2>2, <2>3 DEF Ops, SumSplits, ProductSplits
    <2> QED BY <1>8, <2>2, <2>4, <2>5, <2>6
  <1> QED BY <1>7, <1>8

\* The call of an aggregation
LEMMA CallReads ==
    ASSUME NEW tokens \in Seq(STRING), NEW i \in 1..Len(tokens), NEW j \in 1..Len(tokens),
           tokens[i] \in Aggregations, tokens[i + 1] = "(", tokens[j] = ")",
           NEW tree, IsCall(tokens, i, j, tree)
    PROVE  Call(tokens, tokens[i], i + 1) = Found(tree, j + 1)
  <1> DEFINE n == Len(tokens)
             fn == tokens[i]
             distinct == Peek(tokens, i + 2) = "distinct"
             arg == IF distinct THEN i + 3 ELSE i + 2
  <1>1. n \in Nat /\ i \in Int /\ j \in Int /\ j <= n
    OBVIOUS
  <1>2. (i + 1) + 1 = i + 2 /\ (i + 1) + 2 = i + 3 /\ (i + 2) + 1 = i + 3 /\ (i + 3) + 1 = i + 4
        /\ (j + 1) - 1 = j
    BY <1>1
  <1>3. \A p : p <= n => Peek(tokens, p) = tokens[p] /\ Advance(tokens, p) = tokens[p]
                         /\ After(tokens, p) = p + 1
    BY DEF Peek, Advance, After
  <1>4. \A t : Close(tokens, t, j) = Found(t, j + 1)
    BY <1>1, <1>3 DEF Close
  <1>5. ~IsName("*") /\ ~IsName("distinct") /\ ~IsName(")")
    BY DEF IsName, Operators
  <1>6. Call(tokens, fn, i + 1)
          = IF distinct /\ Peek(tokens, arg) = "*" THEN Refused
            ELSE IF Peek(tokens, arg) = ")"
            THEN Close(tokens, Aggregation(fn, distinct, "none"), arg)
            ELSE IF Peek(tokens, arg) = "*"
            THEN Close(tokens, Aggregation(fn, distinct, "none"), arg + 1)
            ELSE IF IsName(Advance(tokens, arg))
            THEN Close(tokens, Aggregation(fn, distinct, Advance(tokens, arg)),
                       After(tokens, arg))
            ELSE Refused
    BY <1>2 DEF Call
  <1>7. CASE j = i + 2 /\ tree = Aggregation(fn, FALSE, "none")
    <2>1. Peek(tokens, i + 2) = ")"
      BY <1>1, <1>3, <1>7
    <2>2. distinct = FALSE /\ arg = i + 2
      BY <2>1
    <2> HIDE DEF distinct, arg, fn
    <2> QED BY <1>4, <1>6, <1>7, <2>1, <2>2 DEF fn
  <1>8. CASE j = i + 3 /\ tokens[i + 2] = "*" /\ tree = Aggregation(fn, FALSE, "none")
    <2>1. Peek(tokens, i + 2) = "*"
      BY <1>1, <1>3, <1>8
    <2>2. distinct = FALSE /\ arg = i + 2 /\ arg + 1 = j
      BY <1>2, <1>8, <2>1
    <2> HIDE DEF distinct, arg, fn
    <2> QED BY <1>4, <1>6, <1>8, <2>1, <2>2 DEF fn
  <1>9. CASE j = i + 3 /\ tokens[i + 2] = "distinct" /\ tree = Aggregation(fn, TRUE, "none")
    <2>1. Peek(tokens, i + 2) = "distinct" /\ Peek(tokens, i + 3) = ")"
      BY <1>1, <1>3, <1>9
    <2>2. distinct = TRUE /\ arg = i + 3
      BY <2>1
    <2> HIDE DEF distinct, arg, fn
    <2> QED BY <1>4, <1>6, <1>9, <2>1, <2>2 DEF fn
  <1>10. CASE /\ j = i + 3 /\ IsName(tokens[i + 2])
              /\ tree = Aggregation(fn, FALSE, tokens[i + 2])
    <2>1. /\ Peek(tokens, i + 2) = tokens[i + 2] /\ Advance(tokens, i + 2) = tokens[i + 2]
          /\ After(tokens, i + 2) = j
      BY <1>1, <1>2, <1>3, <1>10
    <2>2. distinct = FALSE /\ arg = i + 2
      BY <1>5, <1>10, <2>1
    <2>3. Peek(tokens, i + 2) # "*" /\ Peek(tokens, i + 2) # ")"
      BY <1>5, <1>10, <2>1
    <2> HIDE DEF distinct, arg, fn
    <2> QED BY <1>4, <1>6, <1>10, <2>1, <2>2, <2>3 DEF fn
  <1>11. CASE /\ j = i + 4 /\ tokens[i + 2] = "distinct" /\ IsName(tokens[i + 3])
              /\ tree = Aggregation(fn, TRUE, tokens[i + 3])
    <2>1. /\ Peek(tokens, i + 2) = "distinct" /\ Peek(tokens, i + 3) = tokens[i + 3]
          /\ Advance(tokens, i + 3) = tokens[i + 3] /\ After(tokens, i + 3) = j
      BY <1>1, <1>2, <1>3, <1>11
    <2>2. distinct = TRUE /\ arg = i + 3
      BY <2>1
    <2>3. Peek(tokens, i + 3) # "*" /\ Peek(tokens, i + 3) # ")"
      BY <1>5, <1>11, <2>1
    <2> HIDE DEF distinct, arg, fn
    <2> QED BY <1>4, <1>6, <1>11, <2>1, <2>2, <2>3 DEF fn
  <1> QED BY <1>7, <1>8, <1>9, <1>10, <1>11 DEF IsCall
\* An interval without an operator of its own is read by parseFactor.
LEMMA FactorReadsIt ==
    ASSUME NEW tokens \in Seq(STRING), NEW i \in 1..Len(tokens), NEW j \in 1..Len(tokens), i <= j,
           Ops(tokens, i, j) = {}, Peek(tokens, j + 1) # "(",
           \/ IsNumber(tokens, i, j) \/ IsColumn(tokens, i, j)
           \/ IsBracketed(tokens, i, j) \/ IsApplied(tokens, i, j),
           IsBracketed(tokens, i, j) => ExprReads(tokens, i + 1, j - 1)
    PROVE  Parsing(tokens)[i].factor = Found(Meanings(tokens)[<<i, j>>], j + 1)
  <1> DEFINE P == Parsing(tokens)
             M == Meanings(tokens)
             n == Len(tokens)
             later == [p \in (i + 1)..(n + 1) |-> P[p]]
             t == tokens[i]
             inner == later[i + 1].expr
  <1>1. n \in Nat \ {0} /\ i <= n /\ tokens # <<>> /\ i \in 1..(n + 1) /\ i \in Int /\ j \in Int
    OBVIOUS
  <1>2. P[i].factor = Factor(tokens, i, later)
    BY <1>1, RulesAre
  <1>3. Advance(tokens, i) = t /\ After(tokens, i) = i + 1
    BY <1>1 DEF Advance, After
  <1>4. /\ t \in Numbers => ~IsName(t) /\ t # "("
        /\ IsName(t) => t # "(" /\ t \notin Numbers
        /\ t \in Aggregations => IsName(t)
        /\ "(" \notin Numbers
    BY DEF IsName, Numbers, Aggregations, Operators
  <1> HIDE DEF later, P, M, t
  <1>5. CASE IsNumber(tokens, i, j)
    <2>1. i = j /\ t \in Numbers /\ M[<<i, j>>] = Number(t)
      BY <1>5 DEF IsNumber, M, t
    <2> QED BY <1>2, <1>3, <2>1 DEF Factor, P, M
  <1>6. CASE IsColumn(tokens, i, j)
    <2>1. i = j /\ IsName(t) /\ M[<<i, j>>] = Column(t)
      BY <1>6 DEF IsColumn, M, t
    <2> QED BY <1>2, <1>3, <1>4, <2>1 DEF Factor, P, M
  <1>7. CASE IsBracketed(tokens, i, j)
    <2>1. i < j /\ t = "(" /\ tokens[j] = ")" /\ M[<<i, j>>] = M[<<i + 1, j - 1>>]
      BY <1>7 DEF IsBracketed, M, t
    <2>2. i + 1 \in (i + 1)..(n + 1) /\ (j - 1) + 1 = j /\ j \in 1..(n + 1) /\ j <= n
      BY <1>1
    <2>3. Peek(tokens, j) = ")"
      BY <2>1, <2>2 DEF Peek
    <2>4. P[i + 1].expr = Found(M[<<i, j>>], j)
      <3>1. P[i + 1].expr = Resume(M[<<i, j>>], P[j].sums)
        BY <1>7, <2>1, <2>2, <2>3 DEF ExprReads, P, M
      <3>2. P[j].sums = Loop(<<>>, j)
        BY <1>1, <2>2, <2>3, SumsAre DEF P
      <3> QED BY <3>1, <3>2, ResumeEnd
    <2>5. inner = Found(M[<<i, j>>], j)
      BY <2>2, <2>4 DEF later
    <2>6. Factor(tokens, i, later) = IF inner.out # "found" THEN inner
                                     ELSE Close(tokens, inner.tree, inner.at)
      BY <1>1, <1>3, <1>4, <2>1 DEF Factor
    <2>7. inner.out = "found" /\ inner.tree = M[<<i, j>>] /\ inner.at = j
      BY <2>5 DEF Found
    <2> HIDE DEF inner
    <2> QED BY <1>2, <2>3, <2>6, <2>7 DEF Close, P, M
  <1>8. CASE IsApplied(tokens, i, j)
    <2>1. /\ i < j /\ t \in Aggregations /\ tokens[i + 1] = "(" /\ tokens[j] = ")"
          /\ IsCall(tokens, i, j, M[<<i, j>>])
      BY <1>8 DEF IsApplied, M, t
    <2>2. Peek(tokens, i + 1) = "("
      <3>1. i + 1 <= n
        BY <1>1, <2>1
      <3> QED BY <2>1, <3>1 DEF Peek
    <2>3. Factor(tokens, i, later) = Call(tokens, t, i + 1)
      BY <1>3, <1>4, <2>1, <2>2 DEF Factor
    <2>4. Call(tokens, t, i + 1) = Found(M[<<i, j>>], j + 1)
      BY <2>1, CallReads DEF t
    <2> QED BY <1>2, <2>3, <2>4 DEF P, M
  <1> QED BY <1>5, <1>6, <1>7, <1>8

LEMMA MeaningIsReadAt ==
    ASSUME NEW tokens \in Seq(STRING)
    PROVE  \A i \in 1..(Len(tokens) + 1), j \in 0..Len(tokens) : IsReadAt(tokens, i, j)
  <1> DEFINE n == Len(tokens)
             P == Parsing(tokens)
             M == Meanings(tokens)
             S == {m \in Nat : \A i \in 1..(n + 1), j \in 0..n :
                                  j - i + n + 1 = m => IsReadAt(tokens, i, j)}
  <1>1. n \in Nat
    OBVIOUS
  <1>2. ASSUME NEW m \in Nat, \A l \in 0..(m - 1) : l \in S PROVE m \in S
    <2> SUFFICES ASSUME NEW i \in 1..(n + 1), NEW j \in 0..n, j - i + n + 1 = m,
                        M[<<i, j>>] # Malformed
                 PROVE  /\ FactorReads(tokens, i, j)
                        /\ TermReads(tokens, i, j)
                        /\ ExprReads(tokens, i, j)
      BY DEF IsReadAt
    <2>1. ASSUME NEW a \in 1..(n + 1), NEW b \in 0..n, b - a < j - i PROVE IsReadAt(tokens, a, b)
      <3>1. b - a + n + 1 \in 0..(m - 1)
        BY <1>1, <2>1
      <3>2. b - a + n + 1 \in S
        BY <1>2, <3>1
      <3> QED BY <3>2
    <2>2. /\ i <= j
          /\ \/ Ops(tokens, i, j) # {} /\ IsSplit(tokens, i, j, Max(Ops(tokens, i, j)))
             \/ /\ Ops(tokens, i, j) = {}
                /\ \/ IsNumber(tokens, i, j) \/ IsColumn(tokens, i, j)
                   \/ IsBracketed(tokens, i, j) \/ IsApplied(tokens, i, j)
      BY MeaningCases
    <2>3. i \in 1..n /\ j \in 1..n /\ tokens # <<>> /\ j + 1 \in 1..(n + 1)
      BY <1>1, <2>2
    <2>4. FactorReads(tokens, i, j)
      <3> SUFFICES ASSUME Ops(tokens, i, j) = {}, Peek(tokens, j + 1) # "("
                   PROVE  P[i].factor = Found(M[<<i, j>>], j + 1)
        BY DEF FactorReads
      <3>1. IsBracketed(tokens, i, j) => ExprReads(tokens, i + 1, j - 1)
        <4>1. /\ i + 1 \in 1..(n + 1) /\ j - 1 \in 0..n /\ (j - 1) - (i + 1) < j - i
          <5>1. n \in Nat /\ i \in 1..n /\ j \in 1..n
            BY <1>1, <2>3
          <5> HIDE DEF n, P, M, S
          <5> QED BY <5>1
        <4>2. IsBracketed(tokens, i, j) => M[<<i + 1, j - 1>>] # Malformed
          BY DEF IsBracketed
        <4> QED BY <2>1, <4>1, <4>2 DEF IsReadAt
      <3> HIDE DEF P, M
      <3> QED BY <2>2, <2>3, <3>1, FactorReadsIt DEF P, M
    <2> DEFINE l == Max(Ops(tokens, i, j))
    <2>5. ASSUME Ops(tokens, i, j) # {}
          PROVE  /\ IsSplit(tokens, i, j, l) /\ l \in 1..n /\ l + 1 \in 1..n
                 /\ IsReadAt(tokens, i, l - 1) /\ IsReadAt(tokens, l + 1, j)
                 /\ M[<<i, l - 1>>] # Malformed /\ M[<<l + 1, j>>] # Malformed
                 /\ M[<<i, j>>] = Binary(tokens[l], M[<<i, l - 1>>], M[<<l + 1, j>>])
                 /\ (l - 1) + 1 = l /\ Peek(tokens, l) = tokens[l]
      <3>1. IsSplit(tokens, i, j, l)
        BY <2>2, <2>5
      <3>2. /\ l \in Ops(tokens, i, j)
            /\ M[<<i, l - 1>>] # Malformed /\ M[<<l + 1, j>>] # Malformed
            /\ M[<<i, j>>] = Binary(tokens[l], M[<<i, l - 1>>], M[<<l + 1, j>>])
        BY <3>1 DEF IsSplit
      <3> HIDE DEF l
      <3>3. l \in i..j /\ l \in 1..n
        BY <2>3, <3>2, SplitIs
      <3>4. /\ l - 1 \in 0..n /\ l + 1 \in 1..(n + 1)
            /\ (l - 1) - i < j - i /\ j - (l + 1) < j - i /\ (l - 1) + 1 = l /\ l <= n
        BY <1>1, <2>3, <3>3
      <3>5. IsReadAt(tokens, i, l - 1) /\ IsReadAt(tokens, l + 1, j)
        BY <2>1, <3>4
      <3>6. l + 1 <= j
        BY <3>2, <3>4, MeaningCases
      <3>7. l + 1 \in 1..n
        BY <2>3, <3>4, <3>6
      <3>8. Peek(tokens, l) = tokens[l]
        BY <3>4 DEF Peek
      <3> QED BY <3>1, <3>2, <3>3, <3>4, <3>5, <3>7, <3>8
    <2> HIDE DEF l, M, P
    <2>6. TermReads(tokens, i, j)
      <3> SUFFICES ASSUME SumSplits(tokens, i, j) = {}, Peek(tokens, j + 1) # "("
                   PROVE  P[i].term = Resume(M[<<i, j>>], P[j + 1].products)
        BY DEF TermReads, P, M
      <3>1. CASE Ops(tokens, i, j) = {}
        <4>1. P[i].factor = Found(M[<<i, j>>], j + 1)
          BY <2>4, <3>1 DEF FactorReads, P, M
        <4>2. /\ P[i].factor.out = "found" /\ P[i].factor.tree = M[<<i, j>>]
              /\ P[i].factor.at = j + 1
          BY <4>1 DEF Found
        <4> QED BY <2>3, <4>2, RulesAre DEF P
      <3>2. CASE Ops(tokens, i, j) # {}
        <4>1. /\ tokens[l] \in {"*", "/"} /\ SumSplits(tokens, i, l - 1) = {}
              /\ Ops(tokens, l + 1, j) = {}
          BY <2>3, <2>5, <3>2, BehindLast
        <4>2. P[i].term = Resume(M[<<i, l - 1>>], P[l].products)
          BY <2>5, <3>2, <4>1 DEF IsReadAt, TermReads, P, M
        <4>3. P[l + 1].factor = Found(M[<<l + 1, j>>], j + 1)
          BY <2>5, <3>2, <4>1 DEF IsReadAt, FactorReads, P, M
        <4>4. /\ P[l + 1].factor.out = "found" /\ P[l + 1].factor.tree = M[<<l + 1, j>>]
              /\ P[l + 1].factor.at = j + 1
          BY <4>3 DEF Found
        <4>5. \A x : Resume(x, P[l].products)
                        = Resume(Binary(tokens[l], x, M[<<l + 1, j>>]), P[j + 1].products)
          <5>2. l \in 1..n /\ Peek(tokens, l) = tokens[l]
            BY <2>5, <3>2
          <5>3. l \in 1..(n + 1)
            BY <1>1, <5>2
          <5>1. l \in 1..(n + 1) /\ Peek(tokens, l) \in {"*", "/"}
            BY <4>1, <5>2, <5>3
          <5>4. P[l + 1].factor.out = "found" =>
                  \A x : Resume(x, P[l].products)
                            = Resume(Binary(tokens[l], x, P[l + 1].factor.tree),
                                     P[P[l + 1].factor.at].products)
            BY <2>3, <5>1, ProductsAre DEF P
          <5> QED BY <4>4, <5>4
        <4> QED BY <2>5, <3>2, <4>2, <4>5
      <3> QED BY <3>1, <3>2
    <2>7. ExprReads(tokens, i, j)
      <3> SUFFICES ASSUME Peek(tokens, j + 1) \notin {"*", "/", "("}
                   PROVE  P[i].expr = Resume(M[<<i, j>>], P[j + 1].sums)
        BY DEF ExprReads, P, M
      <3>0. P[j + 1].products = Loop(<<>>, j + 1)
        BY <2>3, ProductsAre DEF P
      <3>1. CASE SumSplits(tokens, i, j) = {}
        <4>1. P[i].term = Found(M[<<i, j>>], j + 1)
          BY <2>6, <3>0, <3>1, ResumeEnd DEF TermReads, P, M
        <4>2. /\ P[i].term.out = "found" /\ P[i].term.tree = M[<<i, j>>]
              /\ P[i].term.at = j + 1
          BY <4>1 DEF Found
        <4> QED BY <2>3, <4>2, RulesAre DEF P
      <3>2. CASE SumSplits(tokens, i, j) # {}
        <4>0. Ops(tokens, i, j) # {}
          BY <3>2 DEF Ops, SumSplits
        <4>1. tokens[l] \in {"+", "-"} /\ SumSplits(tokens, l + 1, j) = {}
          BY <2>3, <2>5, <3>2, <4>0, BehindLast
        <4>2. P[i].expr = Resume(M[<<i, l - 1>>], P[l].sums)
          BY <2>5, <4>0, <4>1 DEF IsReadAt, ExprReads, P, M
        <4>3. P[l + 1].term = Found(M[<<l + 1, j>>], j + 1)
          BY <2>5, <3>0, <4>0, <4>1, ResumeEnd DEF IsReadAt, TermReads, P, M
        <4>4. /\ P[l + 1].term.out = "found" /\ P[l + 1].term.tree = M[<<l + 1, j>>]
              /\ P[l + 1].term.at = j + 1
          BY <4>3 DEF Found
        <4>5. \A x : Resume(x, P[l].sums)
                        = Resume(Binary(tokens[l], x, M[<<l + 1, j>>]), P[j + 1].sums)
          <5>2. l \in 1..n /\ Peek(tokens, l) = tokens[l]
            BY <2>5, <4>0
          <5>3. l \in 1..(n + 1)
            BY <1>1, <5>2
          <5>1. l \in 1..(n + 1) /\ Peek(tokens, l) \in {"+", "-"}
            BY <4>1, <5>2, <5>3
          <5>4. P[l + 1].term.out = "found" =>
                  \A x : Resume(x, P[l].sums)
                            = Resume(Binary(tokens[l], x, P[l + 1].term.tree),
                                     P[P[l + 1].term.at].sums)
            BY <2>3, <5>1, SumsAre DEF P
          <5> QED BY <4>4, <5>4
        <4> QED BY <2>5, <4>0, <4>2, <4>5
      <3> QED BY <3>1, <3>2
    <2> QED BY <2>4, <2>6, <2>7
  <1>3. \A m \in Nat : m \in S
    <2> HIDE DEF S
    <2> QED BY <1>2, Induction
  <1>4. ASSUME NEW i \in 1..(n + 1), NEW j \in 0..n PROVE IsReadAt(tokens, i, j)
    <2>1. j - i + n + 1 \in Nat
      BY <1>1
    <2>2. j - i + n + 1 \in S
      BY <1>3, <2>1
    <2> QED BY <2>2
  <1> QED BY <1>4

\* A formula that means something is read as what it means.
LEMMA MeaningIsRead ==
    ASSUME NEW tokens \in Seq(STRING), Meaning(tokens) # Malformed
    PROVE  Parse(tokens) = Found(Meaning(tokens), Len(tokens) + 1)
  <1> DEFINE n == Len(tokens)
             P == Parsing(tokens)
             M == Meanings(tokens)
  <1>1. n \in Nat /\ 1 \in 1..(n + 1) /\ n \in 0..n /\ n + 1 \in 1..(n + 1)
    OBVIOUS
  <1>2. Meaning(tokens) = M[<<1, n>>]
    BY DEF Meaning
  <1>3. 1 <= n /\ IsReadAt(tokens, 1, n)
    BY <1>1, <1>2, MeaningCases, MeaningIsReadAt
  <1>4. tokens # <<>>
    BY <1>3
  <1>5. Peek(tokens, n + 1) = ""
    <2>1. ~(n + 1 <= n)
      BY <1>1
    <2> QED BY <2>1 DEF Peek
  <1>6. P[n + 1].sums = Loop(<<>>, n + 1)
    BY <1>1, <1>4, <1>5, SumsAre
  <1> HIDE DEF P, M
  <1>7. P[1].expr = Found(M[<<1, n>>], n + 1)
    BY <1>2, <1>3, <1>5, <1>6, ResumeEnd DEF IsReadAt, ExprReads, P, M
  <1>8. ~(P[1].expr.out = "found" /\ P[1].expr.at <= n)
    BY <1>1, <1>7 DEF Found
  <1> QED BY <1>2, <1>4, <1>7, <1>8 DEF Parse, Whole, P
-----------------------------------------------------------------------------
(* What is read has a meaning                                                *)

IsTerm(tokens, i, j) ==
    Meanings(tokens)[<<i, j>>] # Malformed /\ SumSplits(tokens, i, j) = {}
IsFactor(tokens, i, j) ==
    Meanings(tokens)[<<i, j>>] # Malformed /\ Ops(tokens, i, j) = {}

LEMMA FactorIsTerm ==
    ASSUME NEW tokens, NEW i, NEW j, IsFactor(tokens, i, j)
    PROVE  IsTerm(tokens, i, j)
  BY DEF IsFactor, IsTerm, Ops, SumSplits

LEMMA ComposedHas ==
    ASSUME NEW op, NEW V, NEW l \in Seq(V), NEW r \in Seq(V), l # Malformed, r # Malformed
    PROVE  Composed(op, l, r) # Malformed
  <1>1. Composed(op, l, r) = Binary(op, l, r)
    BY DEF Composed
  <1> DEFINE node == [kind |-> "binary", op |-> op, right |-> Len(l) + 1]
             W == V \cup {node}
  <1>2. <<node>> \in Seq(W) /\ l \in Seq(W) /\ r \in Seq(W)
    OBVIOUS
  <1> HIDE DEF node, W
  <1>3. Len(<<node>> \o l \o r) = 1 + Len(l) + Len(r) /\ Len(l) \in Nat /\ Len(r) \in Nat
    BY <1>2
  <1>4. Len(Malformed) = 0
    BY DEF Malformed
  <1> QED BY <1>1, <1>3, <1>4 DEF Binary, node

\* Two parts with an operator between them
LEMMA JoinedHas ==
    ASSUME NEW tokens \in Seq(STRING), NEW g \in 1..Len(tokens), NEW l \in 1..Len(tokens),
           NEW h \in 1..Len(tokens), g <= l - 1, l + 1 <= h,
           Meanings(tokens)[<<g, l - 1>>] # Malformed,
           Meanings(tokens)[<<l + 1, h>>] # Malformed
    PROVE  /\ tokens[l] \in {"+", "-"} /\ SumSplits(tokens, l + 1, h) = {} =>
                 Meanings(tokens)[<<g, h>>]
                    = Composed(tokens[l], Meanings(tokens)[<<g, l - 1>>],
                                          Meanings(tokens)[<<l + 1, h>>])
           /\ /\ tokens[l] \in {"*", "/"} /\ SumSplits(tokens, g, l - 1) = {}
              /\ Ops(tokens, l + 1, h) = {}
              => /\ SumSplits(tokens, g, h) = {}
                 /\ Meanings(tokens)[<<g, h>>]
                       = Composed(tokens[l], Meanings(tokens)[<<g, l - 1>>],
                                             Meanings(tokens)[<<l + 1, h>>])
  <1> DEFINE n == Len(tokens)
             d == Depth(tokens)
             M == Meanings(tokens)
             O == Ops(tokens, g, h)
  <1>1. n \in Nat /\ g \in Int /\ l \in Int /\ h \in Int /\ (l + 1) - 1 = l
    OBVIOUS
  <1>2. l - 1 \in 0..n /\ l + 1 \in 1..(n + 1) /\ g \in 1..(n + 1) /\ h \in 0..n /\ l \in g..h
    BY <1>1
  <1>3. d[l - 1] = d[g - 1]
    <2>1. Good(tokens, g, l - 1)
      BY <1>2, MeaningGood
    <2> QED BY <2>1 DEF Good, Balanced
  <1>4. tokens[l] \in Operators => d[l] = d[g - 1]
    <2>1. tokens[l] \in Operators => Bracket(tokens[l]) = 0
      BY NoBracket
    <2>2. d[l] = d[l - 1] + Bracket(tokens[l]) /\ d[l - 1] \in Int
      BY DepthTypes, <1>2
    <2> HIDE DEF d
    <2> QED BY <1>3, <2>1, <2>2
  <1>5. M[<<g, h>>] = MeaningOf(tokens, d, g, h, M)
    BY <1>2, MeaningsIs DEF IsMeaning
  <1>6. \A a, b, p, ops : p \in Splits(tokens, d, a, b, ops)
                             <=> p \in a..b /\ tokens[p] \in ops /\ d[p] = d[a - 1]
    BY DEF Splits
  <1> HIDE DEF d, M
  <1>7. \A p \in g..h : p \in g..(l - 1) \/ p = l \/ p \in (l + 1)..h
    BY <1>1
  <1>8. ASSUME tokens[l] \in Operators, NEW ops
        PROVE  /\ Splits(tokens, d, g, h, ops)
                    \subseteq Splits(tokens, d, g, l - 1, ops) \cup {l}
                              \cup Splits(tokens, d, l + 1, h, ops)
               /\ l \in Splits(tokens, d, g, h, ops) <=> tokens[l] \in ops
    BY <1>1, <1>2, <1>4, <1>6, <1>7, <1>8
  <1>9. ASSUME O # {}, Max(O) = l
        PROVE  M[<<g, h>>] = Composed(tokens[l], M[<<g, l - 1>>], M[<<l + 1, h>>])
    <2>1. ~(g > h)
      BY <1>1, <1>2
    <2> QED BY <1>5, <1>9, <2>1 DEF MeaningOf, Ops, d
  <1>10. ASSUME l \in O, \A p \in O : p \in g..(l - 1) \/ p = l
         PROVE  M[<<g, h>>] = Composed(tokens[l], M[<<g, l - 1>>], M[<<l + 1, h>>])
    <2>1. Max(O) \in O /\ l <= Max(O)
      BY <1>1, <1>10, OpsInside
    <2> HIDE DEF O
    <2>3. Max(O) \in g..(l - 1) \/ Max(O) = l
      BY <1>10, <2>1
    <2>2. Max(O) = l
      BY <1>1, <2>1, <2>3
    <2> QED BY <1>9, <1>10, <2>2
  <1>11. \A a, b : SumSplits(tokens, a, b) = Splits(tokens, d, a, b, {"+", "-"})
    BY DEF SumSplits, d
  <1>12. ASSUME tokens[l] \in {"+", "-"}, SumSplits(tokens, l + 1, h) = {}
         PROVE  M[<<g, h>>] = Composed(tokens[l], M[<<g, l - 1>>], M[<<l + 1, h>>])
    <2>1. tokens[l] \in Operators
      BY <1>12 DEF Operators
    <2>2. l \in SumSplits(tokens, g, h)
      BY <1>8, <1>11, <1>12, <2>1
    <2>3. SumSplits(tokens, g, h) \subseteq SumSplits(tokens, g, l - 1) \cup {l}
      BY <1>8, <1>11, <1>12, <2>1
    <2>4. SumSplits(tokens, g, l - 1) \subseteq g..(l - 1)
      BY <1>6, <1>11
    <2>5. O = SumSplits(tokens, g, h)
      BY <2>2 DEF Ops, SumSplits
    <2> HIDE DEF O
    <2> QED BY <1>10, <2>2, <2>3, <2>4, <2>5
  <1>13. ASSUME tokens[l] \in {"*", "/"}, SumSplits(tokens, g, l - 1) = {},
                Ops(tokens, l + 1, h) = {}
         PROVE  /\ SumSplits(tokens, g, h) = {}
                /\ M[<<g, h>>] = Composed(tokens[l], M[<<g, l - 1>>], M[<<l + 1, h>>])
    <2>1. tokens[l] \in Operators /\ tokens[l] \notin {"+", "-"}
      BY <1>13 DEF Operators
    <2>2. SumSplits(tokens, l + 1, h) = {} /\ Splits(tokens, d, l + 1, h, {"*", "/"}) = {}
      BY <1>13 DEF Ops, SumSplits, d
    <2>3. SumSplits(tokens, g, h) = {}
      BY <1>8, <1>11, <1>13, <2>1, <2>2
    <2>4. O = Splits(tokens, d, g, h, {"*", "/"})
      BY <2>3 DEF Ops, SumSplits, d
    <2>5. l \in O /\ O \subseteq Splits(tokens, d, g, l - 1, {"*", "/"}) \cup {l}
      BY <1>8, <1>13, <2>1, <2>2, <2>4
    <2>6. Splits(tokens, d, g, l - 1, {"*", "/"}) \subseteq g..(l - 1)
      BY <1>6
    <2> HIDE DEF O
    <2> QED BY <1>10, <2>3, <2>5, <2>6
  <1> QED BY <1>12, <1>13 DEF M

\* Whatever is inside brackets, its operators do not split what is around them.
LEMMA NoOps ==
    ASSUME NEW tokens \in Seq(STRING), NEW i \in 1..Len(tokens), NEW j \in 1..Len(tokens),
           tokens[i] \notin Operators, tokens[j] \notin Operators,
           \A p \in (i + 1)..(j - 1) : Depth(tokens)[p] > Depth(tokens)[i - 1]
    PROVE  Ops(tokens, i, j) = {}
  <1> SUFFICES ASSUME NEW p \in Ops(tokens, i, j) PROVE FALSE
    OBVIOUS
  <1>1. p \in i..j /\ tokens[p] \in Operators /\ Depth(tokens)[p] = Depth(tokens)[i - 1]
    BY SplitIs
  <1>2. p = i \/ p = j \/ p \in (i + 1)..(j - 1)
    BY <1>1
  <1>3. Depth(tokens)[i - 1] \in Int
    BY DepthTypes
  <1> QED BY <1>1, <1>2, <1>3

LEMMA LeafIsFactor ==
    ASSUME NEW tokens \in Seq(STRING), NEW i \in 1..Len(tokens)
    PROVE  tokens[i] \in Numbers \/ IsName(tokens[i]) => IsFactor(tokens, i, i)
  <1> SUFFICES ASSUME tokens[i] \in Numbers \/ IsName(tokens[i]) PROVE IsFactor(tokens, i, i)
    OBVIOUS
  <1>1. Len(tokens) \in Nat /\ i \in 1..(Len(tokens) + 1) /\ i \in 0..Len(tokens) /\ ~(i > i)
    OBVIOUS
  <1>2. tokens[i] \notin Operators
    BY DEF Numbers, Operators, IsName
  <1>3. Ops(tokens, i, i) = {}
    BY <1>1, <1>2 DEF Ops, Splits, Operators
  <1>4. Meanings(tokens)[<<i, i>>] = MeaningOf(tokens, Depth(tokens), i, i, Meanings(tokens))
    BY <1>1, MeaningsIs DEF IsMeaning
  <1>6. SumSplits(tokens, i, i) = {} /\ ProductSplits(tokens, i, i) = {}
    BY <1>3 DEF Ops, SumSplits, ProductSplits
  <1>5. Meanings(tokens)[<<i, i>>] \in {Number(tokens[i]), Column(tokens[i])}
    BY <1>1, <1>4, <1>6 DEF MeaningOf, SumSplits, ProductSplits
  <1>7. Number(tokens[i]) # Malformed /\ Column(tokens[i]) # Malformed
    BY DEF Number, Column, Malformed
  <1> QED BY <1>3, <1>5, <1>7 DEF IsFactor

LEMMA BracketedIsFactor ==
    ASSUME NEW tokens \in Seq(STRING), NEW i \in 1..Len(tokens), NEW j \in 1..Len(tokens), i < j,
           tokens[i] = "(", tokens[j] = ")", Meanings(tokens)[<<i + 1, j - 1>>] # Malformed
    PROVE  IsFactor(tokens, i, j)
  <1> DEFINE n == Len(tokens)
             d == Depth(tokens)
             M == Meanings(tokens)
  <1>1. /\ n \in Nat /\ i \in Int /\ j \in Int /\ ~(i > j) /\ i # j
        /\ i + 1 \in 1..(n + 1) /\ j - 1 \in 0..n /\ i \in 1..(n + 1) /\ j \in 0..n
    OBVIOUS
  <1>2. Balanced(tokens, i + 1, j - 1)
    BY <1>1, MeaningGood DEF Good
  <1>3. \A p \in i..(j - 1) : d[p] > d[i - 1]
    BY <1>2, GoodBrackets
  <1>4. \A p \in (i + 1)..(j - 1) : p \in i..(j - 1)
    BY <1>1
  <1>5. Ops(tokens, i, j) = {}
    <2>1. tokens[i] \notin Operators /\ tokens[j] \notin Operators
      BY DEF Operators
    <2> HIDE DEF d
    <2> QED BY <1>3, <1>4, <2>1, NoOps DEF d
  <1>6. M[<<i, j>>] = MeaningOf(tokens, d, i, j, M)
    BY <1>1, MeaningsIs DEF IsMeaning
  <1> HIDE DEF M, d
  <1>7. M[<<i, j>>] = M[<<i + 1, j - 1>>]
    BY <1>1, <1>5, <1>6 DEF MeaningOf, Ops, d
  <1> QED BY <1>5, <1>7 DEF IsFactor, M

LEMMA CallIsFactor ==
    ASSUME NEW tokens \in Seq(STRING), NEW i \in 1..Len(tokens), NEW j \in 1..Len(tokens),
           tokens[i] \in Aggregations, tokens[i + 1] = "(", tokens[j] = ")",
           NEW tree, IsCall(tokens, i, j, tree)
    PROVE  IsFactor(tokens, i, j)
  <1> DEFINE n == Len(tokens)
             d == Depth(tokens)
             M == Meanings(tokens)
  <1>0. j = i + 2 \/ j = i + 3 \/ j = i + 4
    BY DEF IsCall
  <1>1. /\ n \in Nat /\ i \in Int /\ j \in Int /\ ~(i > j) /\ i # j /\ i + 2 <= j
        /\ i \in 1..(n + 1) /\ j \in 0..n
    BY <1>0
  <1>2. \A p \in (i + 1)..(j - 1) : d[p] > d[i - 1]
    BY GoodCall
  <1>3. tokens[i] \notin Operators /\ tokens[j] \notin Operators /\ tokens[i] # "("
    BY DEF Operators, Aggregations
  <1>4. Ops(tokens, i, j) = {}
    BY <1>2, <1>3, NoOps
  <1>5. M[<<i, j>>] = MeaningOf(tokens, d, i, j, M)
    BY <1>1, MeaningsIs DEF IsMeaning
  <1> HIDE DEF M, d
  <1>6. M[<<i, j>>] = Argument(SubSeq(tokens, i + 2, j - 1), tokens[i])
    BY <1>1, <1>3, <1>4, <1>5 DEF MeaningOf, Ops, d
  <1>7. M[<<i, j>>] # Malformed
    BY <1>1, <1>6, ArgumentIs
  <1> QED BY <1>4, <1>7 DEF IsFactor, M
LEMMA MeaningTyped ==
    ASSUME NEW tokens \in Seq(STRING)
    PROVE  \A i \in 1..(Len(tokens) + 1), j \in 0..Len(tokens) :
              Meanings(tokens)[<<i, j>>] # Malformed =>
                 Meanings(tokens)[<<i, j>>] \in TreesOf(tokens)
  <1> DEFINE n == Len(tokens)
             M == Meanings(tokens)
             Claim(i, j) == M[<<i, j>>] # Malformed => M[<<i, j>>] \in TreesOf(tokens)
             S == {m \in Nat : \A i \in 1..(n + 1), j \in 0..n : j - i + n + 1 = m => Claim(i, j)}
  <1>1. n \in Nat
    OBVIOUS
  <1>0. \A p \in 1..n : tokens[p] \in Range(tokens)
    BY DEF Range
  <1>2. ASSUME NEW m \in Nat, \A l \in 0..(m - 1) : l \in S PROVE m \in S
    <2> SUFFICES ASSUME NEW i \in 1..(n + 1), NEW j \in 0..n, j - i + n + 1 = m,
                        M[<<i, j>>] # Malformed
                 PROVE  M[<<i, j>>] \in TreesOf(tokens)
      OBVIOUS
    <2>1. ASSUME NEW a \in 1..(n + 1), NEW b \in 0..n, b - a < j - i PROVE Claim(a, b)
      <3>1. b - a + n + 1 \in 0..(m - 1)
        BY <1>1, <2>1
      <3>2. b - a + n + 1 \in S
        BY <1>2, <3>1
      <3> HIDE DEF Claim
      <3> QED BY <3>2
    <2>2. /\ i <= j
          /\ \/ Ops(tokens, i, j) # {} /\ IsSplit(tokens, i, j, Max(Ops(tokens, i, j)))
             \/ /\ Ops(tokens, i, j) = {}
                /\ \/ IsNumber(tokens, i, j) \/ IsColumn(tokens, i, j)
                   \/ IsBracketed(tokens, i, j) \/ IsApplied(tokens, i, j)
      BY MeaningCases
    <2>3. i \in 1..n /\ j \in 1..n
      BY <1>1, <2>2
    <2>4. ASSUME NEW l, IsSplit(tokens, i, j, l) PROVE M[<<i, j>>] \in TreesOf(tokens)
      <3>1. /\ l \in Ops(tokens, i, j) /\ M[<<i, l - 1>>] # Malformed
            /\ M[<<l + 1, j>>] # Malformed
            /\ M[<<i, j>>] = Binary(tokens[l], M[<<i, l - 1>>], M[<<l + 1, j>>])
        BY <2>4 DEF IsSplit
      <3>2. l \in i..j /\ l \in 1..n /\ tokens[l] \in Operators
        BY <2>3, <3>1, SplitIs
      <3>3. /\ l - 1 \in 0..n /\ l + 1 \in 1..(n + 1)
            /\ (l - 1) - i < j - i /\ j - (l + 1) < j - i
        BY <1>1, <2>3, <3>2
      <3>4. Claim(i, l - 1) /\ Claim(l + 1, j)
        <4> HIDE DEF Claim
        <4> QED BY <2>1, <3>3
      <3> HIDE DEF M
      <3> QED BY <3>1, <3>2, <3>4, BinaryTyped
    <2>5. CASE IsNumber(tokens, i, j) \/ IsColumn(tokens, i, j)
      BY <1>0, <2>3, <2>5, LeavesTyped DEF IsNumber, IsColumn
    <2>6. CASE IsBracketed(tokens, i, j)
      <3>1. i < j /\ M[<<i, j>>] = M[<<i + 1, j - 1>>]
        BY <2>6 DEF IsBracketed
      <3>2. i + 1 \in 1..(n + 1) /\ j - 1 \in 0..n /\ (j - 1) - (i + 1) < j - i
        BY <1>1, <2>3, <3>1
      <3>3. Claim(i + 1, j - 1)
        <4> HIDE DEF Claim
        <4> QED BY <2>1, <3>2
      <3> QED BY <3>1, <3>3
    <2>7. CASE IsApplied(tokens, i, j)
      <3>1. tokens[i] \in Aggregations /\ IsCall(tokens, i, j, M[<<i, j>>])
        BY <2>7 DEF IsApplied
      <3>2. tokens[i] \in Aggregations \cap Range(tokens)
        BY <1>0, <2>3, <3>1
      <3>3. ASSUME NEW p \in {i + 2, i + 3}, p < j PROVE tokens[p] \in Range(tokens)
        <4>1. p \in 1..n
          BY <1>1, <2>3, <3>3
        <4> QED BY <1>0, <4>1
      <3>4. /\ j = i + 3 => i + 2 < j
            /\ j = i + 4 => i + 3 < j
        BY <1>1, <2>3
      <3>5. /\ j = i + 3 => tokens[i + 2] \in Range(tokens)
            /\ j = i + 4 => tokens[i + 3] \in Range(tokens)
        BY <3>3, <3>4
      <3> DEFINE tree == M[<<i, j>>]
      <3>6. \E dist \in BOOLEAN, c \in Range(tokens) \cup {"none"} :
               tree = Aggregation(tokens[i], dist, c)
        <4> HIDE DEF tree
        <4>0. IsCall(tokens, i, j, tree)
          BY <3>1 DEF tree
        <4>1. CASE tree = Aggregation(tokens[i], FALSE, "none")
          BY <4>1
        <4>2. CASE tree = Aggregation(tokens[i], TRUE, "none")
          BY <4>2
        <4>3. CASE j = i + 3 /\ tree = Aggregation(tokens[i], FALSE, tokens[i + 2])
          BY <3>5, <4>3
        <4>4. CASE j = i + 4 /\ tree = Aggregation(tokens[i], TRUE, tokens[i + 3])
          BY <3>5, <4>4
        <4> QED BY <4>0, <4>1, <4>2, <4>3, <4>4 DEF IsCall
      <3> HIDE DEF M
      <3> QED BY <3>2, <3>6, LeavesTyped
    <2> QED BY <2>2, <2>4, <2>5, <2>6, <2>7
  <1>3. \A m \in Nat : m \in S
    <2> HIDE DEF S
    <2> QED BY <1>2, Induction
  <1>4. ASSUME NEW i \in 1..(n + 1), NEW j \in 0..n PROVE Claim(i, j)
    <2>1. j - i + n + 1 \in Nat
      BY <1>1
    <2>2. j - i + n + 1 \in S
      BY <1>3, <2>1
    <2> HIDE DEF Claim
    <2> QED BY <2>2
  <1> QED BY <1>4

\* A part, an operator and another part have a meaning.
LEMMA JoinedMeans ==
    ASSUME NEW tokens \in Seq(STRING), NEW g \in 1..Len(tokens), NEW l \in 1..Len(tokens),
           NEW h \in 0..Len(tokens), g <= l - 1,
           Meanings(tokens)[<<g, l - 1>>] # Malformed,
           Meanings(tokens)[<<l + 1, h>>] # Malformed
    PROVE  /\ tokens[l] \in {"+", "-"} /\ IsTerm(tokens, l + 1, h) =>
                 Meanings(tokens)[<<g, h>>] # Malformed
           /\ tokens[l] \in {"*", "/"} /\ IsTerm(tokens, g, l - 1) /\ IsFactor(tokens, l + 1, h) =>
                 IsTerm(tokens, g, h)
  <1> DEFINE n == Len(tokens)
             M == Meanings(tokens)
  <1>1. /\ n \in Nat /\ l - 1 \in 0..n /\ l + 1 \in 1..(n + 1) /\ h \in 0..n
        /\ g \in 1..(n + 1)
    OBVIOUS
  <1>2. l + 1 <= h
    BY <1>1, MeaningCases
  <1>3. h \in 1..n
    BY <1>1, <1>2
  <1>4. M[<<g, l - 1>>] \in TreesOf(tokens) /\ M[<<l + 1, h>>] \in TreesOf(tokens)
    BY <1>1, MeaningTyped
  <1>5. Composed(tokens[l], M[<<g, l - 1>>], M[<<l + 1, h>>]) # Malformed
    <2> HIDE DEF M
    <2>1. M[<<g, l - 1>>] # Malformed /\ M[<<l + 1, h>>] # Malformed
      BY DEF M
    <2>2. M[<<g, l - 1>>] \in Seq(NodesOf(tokens)) /\ M[<<l + 1, h>>] \in Seq(NodesOf(tokens))
      BY <1>4 DEF TreesOf
    <2> QED BY <2>1, <2>2, ComposedHas
  <1>6. /\ tokens[l] \in {"+", "-"} /\ SumSplits(tokens, l + 1, h) = {} =>
              M[<<g, h>>] = Composed(tokens[l], M[<<g, l - 1>>], M[<<l + 1, h>>])
        /\ /\ tokens[l] \in {"*", "/"} /\ SumSplits(tokens, g, l - 1) = {}
           /\ Ops(tokens, l + 1, h) = {}
           => /\ SumSplits(tokens, g, h) = {}
              /\ M[<<g, h>>] = Composed(tokens[l], M[<<g, l - 1>>], M[<<l + 1, h>>])
    BY <1>2, <1>3, JoinedHas
  <1> QED BY <1>5, <1>6 DEF IsTerm, IsFactor

\* What parseAggregation takes is a call.
LEMMA CallFound ==
    ASSUME NEW tokens \in Seq(STRING), NEW i \in 1..Len(tokens), i + 1 \in 1..Len(tokens),
           Peek(tokens, i + 1) = "(",
           Call(tokens, tokens[i], i + 1).out = "found"
    PROVE  LET read == Call(tokens, tokens[i], i + 1)
           IN  /\ tokens[i] \in Aggregations /\ tokens[i + 1] = "("
               /\ read.at - 1 \in 1..Len(tokens) /\ read.at > i
               /\ tokens[read.at - 1] = ")"
               /\ IsCall(tokens, i, read.at - 1, read.tree)
  <1> DEFINE n == Len(tokens)
             fn == tokens[i]
             read == Call(tokens, fn, i + 1)
             distinct == Peek(tokens, i + 2) = "distinct"
             arg == IF distinct THEN i + 3 ELSE i + 2
             name == Advance(tokens, arg)
  <1>1. n \in Nat \ {0} /\ i \in Int /\ tokens # <<>> /\ i + 1 <= n
    OBVIOUS
  <1>2. (i + 1) + 1 = i + 2 /\ (i + 1) + 2 = i + 3 /\ (i + 2) + 1 = i + 3 /\ (i + 3) + 1 = i + 4
    BY <1>1
  <1>3. \A p : p <= n => Peek(tokens, p) = tokens[p] /\ Advance(tokens, p) = tokens[p]
                         /\ After(tokens, p) = p + 1
    BY DEF Peek, Advance, After
  <1>4. \A p : ~(p <= n) => Peek(tokens, p) = "" /\ Advance(tokens, p) = tokens[n]
    BY DEF Peek, Advance
  <1>5. tokens[i + 1] = "("
    BY <1>1, <1>3
  <1>6. distinct => i + 2 <= n
    BY <1>4
  <1>7. read = IF fn \notin Aggregations \/ (distinct /\ Peek(tokens, arg) = "*") THEN Refused
               ELSE IF Peek(tokens, arg) = ")"
               THEN Close(tokens, Aggregation(fn, distinct, "none"), arg)
               ELSE IF Peek(tokens, arg) = "*"
               THEN Close(tokens, Aggregation(fn, distinct, "none"), arg + 1)
               ELSE IF IsName(name)
               THEN Close(tokens, Aggregation(fn, distinct, name), After(tokens, arg))
               ELSE Refused
    BY <1>2 DEF Call
  <1>8. Refused.out # "found"
    BY DEF Refused
  <1>9. ASSUME NEW t, NEW p \in Int, p > i, read = Close(tokens, t, p)
        PROVE  /\ read.at = p + 1 /\ read.tree = t /\ p \in 1..n
               /\ tokens[p] = ")" /\ (p + 1) - 1 = p
    <2>1. Peek(tokens, p) = ")" /\ read = Found(t, p + 1)
      BY <1>8, <1>9 DEF Close
    <2>2. p <= n
      BY <1>4, <2>1
    <2>3. tokens[p] = ")"
      BY <1>3, <2>1, <2>2
    <2>4. p \in 1..n
      BY <1>1, <1>9, <2>2
    <2> HIDE DEF read
    <2> QED BY <1>9, <2>1, <2>3, <2>4 DEF Found
  <1>10. fn \in Aggregations
    BY <1>7, <1>8
  <1>11. arg \in Int /\ arg > i /\ distinct \in BOOLEAN /\ (distinct => arg = i + 3)
         /\ (~distinct => arg = i + 2)
    BY <1>1
  <1>12. ~IsName("(") /\ ~IsName("distinct")
    BY DEF IsName
  <1>13. CASE Peek(tokens, arg) = ")"
    <2>1. read = Close(tokens, Aggregation(fn, distinct, "none"), arg)
      <3> HIDE DEF read, distinct, arg, fn, name
      <3> QED BY <1>7, <1>8, <1>10, <1>13 DEF fn, read
    <2>2. /\ read.at = arg + 1 /\ read.tree = Aggregation(fn, distinct, "none")
          /\ arg \in 1..n /\ tokens[arg] = ")" /\ (arg + 1) - 1 = arg
      <3> HIDE DEF read, distinct, arg
      <3> QED BY <1>9, <1>11, <2>1
    <2>3. distinct => tokens[i + 2] = "distinct"
      BY <1>3, <1>6
    <2> HIDE DEF read, distinct, arg, name
    <2>4. IsCall(tokens, i, arg, read.tree)
      <3>1. CASE distinct
        BY <1>11, <2>2, <2>3, <3>1 DEF IsCall
      <3>2. CASE ~distinct
        BY <1>11, <2>2, <3>2 DEF IsCall
      <3> QED BY <3>1, <3>2
    <2> QED BY <1>5, <1>10, <1>11, <2>2, <2>4 DEF read
  <1>14. CASE Peek(tokens, arg) = "*"
    <2>1. ~distinct /\ read = Close(tokens, Aggregation(fn, distinct, "none"), arg + 1)
      <3> HIDE DEF read, distinct, arg, fn, name
      <3> QED BY <1>7, <1>8, <1>10, <1>14 DEF fn, read
    <2>2. /\ read.at = arg + 2 /\ read.tree = Aggregation(fn, distinct, "none")
          /\ arg + 1 \in 1..n /\ tokens[arg + 1] = ")" /\ (arg + 2) - 1 = arg + 1
          /\ arg + 1 > i /\ arg <= n
      <3> HIDE DEF read, distinct, arg
      <3>1. arg + 1 \in Int /\ arg + 1 > i /\ (arg + 1) + 1 = arg + 2
        BY <1>1, <1>11
      <3>2. /\ read.at = (arg + 1) + 1 /\ read.tree = Aggregation(fn, distinct, "none")
            /\ arg + 1 \in 1..n /\ tokens[arg + 1] = ")" /\ ((arg + 1) + 1) - 1 = arg + 1
        BY <1>9, <2>1, <3>1
      <3>3. arg <= n
        BY <1>1, <1>11, <3>2
      <3> QED BY <3>1, <3>2, <3>3
    <2>3. arg = i + 2 /\ arg + 1 = i + 3 /\ tokens[i + 2] = "*"
      BY <1>2, <1>3, <1>14, <2>1, <2>2
    <2> HIDE DEF read, distinct, arg, name
    <2>4. IsCall(tokens, i, i + 3, read.tree)
      BY <1>11, <2>1, <2>2, <2>3 DEF IsCall
    <2>5. read.at > i
      BY <1>1, <1>11, <2>2
    <2> QED BY <1>5, <1>10, <2>2, <2>3, <2>4, <2>5 DEF read
  <1>15. CASE Peek(tokens, arg) # "*" /\ Peek(tokens, arg) # ")"
    <2>1. IsName(name) /\ read = Close(tokens, Aggregation(fn, distinct, name), After(tokens, arg))
      <3> HIDE DEF read, distinct, arg, fn, name
      <3> QED BY <1>7, <1>8, <1>10, <1>15 DEF fn, read
    <2>2. arg <= n
      <3>1. SUFFICES ASSUME ~(arg <= n) PROVE FALSE
        OBVIOUS
      <3>2. name = tokens[n]
        <4> HIDE DEF arg
        <4> QED BY <1>4, <3>1
      <3>3. CASE distinct
        <4>1. i + 2 = n
          BY <1>1, <1>6, <1>11, <3>1, <3>3
        <4>2. tokens[n] = "distinct"
          BY <1>3, <1>6, <3>3, <4>1
        <4> HIDE DEF name, distinct, arg
        <4> QED BY <1>12, <2>1, <3>2, <4>2
      <3>4. CASE ~distinct
        <4>1. i + 1 = n
          BY <1>1, <1>11, <3>1, <3>4
        <4>2. tokens[n] = "("
          BY <1>5, <4>1
        <4> HIDE DEF name, distinct, arg
        <4> QED BY <1>12, <2>1, <3>2, <4>2
      <3> QED BY <3>3, <3>4
    <2>3. name = tokens[arg] /\ After(tokens, arg) = arg + 1
      BY <1>3, <2>2
    <2>4. /\ read.at = arg + 2 /\ read.tree = Aggregation(fn, distinct, name)
          /\ arg + 1 \in 1..n /\ tokens[arg + 1] = ")" /\ (arg + 2) - 1 = arg + 1
          /\ arg + 1 > i
      <3> HIDE DEF read, distinct, arg, name
      <3>1. arg + 1 \in Int /\ arg + 1 > i /\ (arg + 1) + 1 = arg + 2
        BY <1>1, <1>11
      <3>2. /\ read.at = (arg + 1) + 1 /\ read.tree = Aggregation(fn, distinct, name)
            /\ arg + 1 \in 1..n /\ tokens[arg + 1] = ")" /\ ((arg + 1) + 1) - 1 = arg + 1
        BY <1>9, <2>1, <2>3, <3>1
      <3> QED BY <3>1, <3>2
    <2>5. distinct => tokens[i + 2] = "distinct"
      BY <1>3, <1>6
    <2> HIDE DEF read, distinct, arg, name
    <2>6. IsCall(tokens, i, arg + 1, read.tree)
      <3>1. CASE distinct
        <4>1. arg = i + 3 /\ arg + 1 = i + 4
          BY <1>1, <1>11, <3>1
        <4>2. IsCall(tokens, i, i + 4, read.tree)
          BY <2>1, <2>3, <2>4, <2>5, <3>1, <4>1 DEF IsCall
        <4> QED BY <4>1, <4>2
      <3>2. CASE ~distinct
        <4>1. arg = i + 2 /\ arg + 1 = i + 3
          BY <1>1, <1>11, <3>2
        <4>2. IsCall(tokens, i, i + 3, read.tree)
          BY <1>11, <2>1, <2>3, <2>4, <3>2, <4>1 DEF IsCall
        <4> QED BY <4>1, <4>2
      <3> QED BY <3>1, <3>2
    <2>7. read.at > i
      BY <1>1, <1>11, <2>4
    <2> QED BY <1>5, <1>10, <2>4, <2>6, <2>7 DEF read
  <1> QED BY <1>13, <1>14, <1>15
\* What each rule has read from i on has a meaning; what a loop has read from i on goes
\* on with whatever was read before it.
FactorSound(tokens, i) ==
    LET read == Parsing(tokens)[i].factor
    IN  read.out = "found" => read.at > i /\ IsFactor(tokens, i, read.at - 1)
TermSound(tokens, i) ==
    LET read == Parsing(tokens)[i].term
    IN  read.out = "found" => read.at > i /\ IsTerm(tokens, i, read.at - 1)
ExprSound(tokens, i) ==
    LET read == Parsing(tokens)[i].expr
    IN  read.out = "found" =>
            read.at > i /\ Meanings(tokens)[<<i, read.at - 1>>] # Malformed
ProductsSound(tokens, i) ==
    LET loop == Parsing(tokens)[i].products
    IN  \A g \in 1..(i - 1) :
            loop.out = "loop" /\ IsTerm(tokens, g, i - 1) => IsTerm(tokens, g, loop.at - 1)
SumsSound(tokens, i) ==
    LET loop == Parsing(tokens)[i].sums
    IN  \A g \in 1..(i - 1) :
            loop.out = "loop" /\ Meanings(tokens)[<<g, i - 1>>] # Malformed
                => Meanings(tokens)[<<g, loop.at - 1>>] # Malformed
RulesSound(tokens, i) ==
    /\ i <= Len(tokens) => FactorSound(tokens, i) /\ TermSound(tokens, i) /\ ExprSound(tokens, i)
    /\ ProductsSound(tokens, i)
    /\ SumsSound(tokens, i)

\* At the end, behind an operator or a bracket, nothing is found.
LEMMA NothingAtEnd ==
    ASSUME NEW tokens \in Seq(STRING), tokens # <<>>,
           tokens[Len(tokens)] \in Operators \cup {"("}
    PROVE  LET end == Parsing(tokens)[Len(tokens) + 1]
           IN  end.factor.out # "found" /\ end.term.out # "found" /\ end.expr.out # "found"
  <1> DEFINE n == Len(tokens)
             end == Parsing(tokens)[n + 1]
             later == [j \in (n + 1 + 1)..(n + 1) |-> Parsing(tokens)[j]]
  <1>1. n \in Nat /\ n + 1 \in 1..(n + 1) /\ ~(n + 1 <= n) /\ n + 1 > n
    OBVIOUS
  <1>2. Advance(tokens, n + 1) = tokens[n]
    BY <1>1 DEF Advance
  <1>3. /\ tokens[n] \notin Numbers
        /\ tokens[n] # "(" => ~IsName(tokens[n])
    BY DEF IsName, Numbers, Operators
  <1>4. end.factor = Factor(tokens, n + 1, later)
    BY <1>1, RulesAre
  <1>5. end.factor \in {Refused, Overflow}
    <2> HIDE DEF later, end
    <2> QED BY <1>1, <1>2, <1>3, <1>4 DEF Factor
  <1>6. end.factor.out # "found"
    BY <1>5 DEF Refused, Overflow
  <1>7. end.term = end.factor /\ (end.term.out # "found" => end.expr = end.term)
    BY <1>1, <1>6, RulesAre
  <1> HIDE DEF end
  <1> QED BY <1>6, <1>7 DEF end, n

LEMMA ResumeFound ==
    ASSUME NEW l, NEW tokens, NEW i, NEW loop \in Loopings(tokens, i),
           Resume(l, loop).out = "found"
    PROVE  loop.out = "loop" /\ Resume(l, loop).at = loop.at /\ loop.at \in i..(Len(tokens) + 1)
  <1>1. loop.out = "loop"
    <2>1. SUFFICES ASSUME loop.out # "loop" PROVE FALSE
      OBVIOUS
    <2>2. Resume(l, loop) = loop /\ loop \in {Refused, Overflow}
      BY <2>1, LoopingIs DEF Resume
    <2> QED BY <2>2 DEF Refused, Overflow
  <1>2. Resume(l, loop) = Found(Attach(l, loop.steps), loop.at)
    BY <1>1 DEF Resume
  <1>3. loop.at \in i..(Len(tokens) + 1)
    BY <1>1, LoopingIs
  <1> QED BY <1>1, <1>2, <1>3 DEF Found

LEMMA FactorIsSound ==
    ASSUME NEW tokens \in Seq(STRING), NEW i \in 1..Len(tokens),
           i + 1 <= Len(tokens) => ExprSound(tokens, i + 1)
    PROVE  FactorSound(tokens, i)
  <1> DEFINE P == Parsing(tokens)
             n == Len(tokens)
             later == [p \in (i + 1)..(n + 1) |-> P[p]]
             t == tokens[i]
             inner == later[i + 1].expr
             read == P[i].factor
  <1> SUFFICES ASSUME read.out = "found"
               PROVE  read.at > i /\ IsFactor(tokens, i, read.at - 1)
    BY DEF FactorSound
  <1>1. /\ n \in Nat \ {0} /\ i <= n /\ ~(i > n) /\ tokens # <<>> /\ i \in 1..(n + 1) /\ i \in Int
        /\ (i + 1) - 1 = i /\ i + 1 > i /\ i + 1 \in 1..(n + 1) /\ i + 1 \in (i + 1)..(n + 1)
    OBVIOUS
  <1>2. read = Factor(tokens, i, later)
    BY <1>1, RulesAre
  <1>3. Advance(tokens, i) = t /\ After(tokens, i) = i + 1
    BY <1>1 DEF Advance, After
  <1>4. t \in Numbers => t # "("
    BY DEF Numbers
  <1>5. Refused.out # "found"
    BY DEF Refused
  <1>6. inner = P[i + 1].expr
    BY <1>1
  <1> HIDE DEF later, P, read, inner
  <1>7. CASE t \in Numbers
    <2>1. read = Found(Number(t), i + 1)
      BY <1>2, <1>3, <1>7 DEF Factor
    <2> QED BY <1>1, <1>7, <2>1, LeafIsFactor DEF Found
  <1>8. CASE t = "("
    <2>1. read = IF inner.out # "found" THEN inner ELSE Close(tokens, inner.tree, inner.at)
      BY <1>1, <1>2, <1>3, <1>4, <1>8 DEF Factor, inner
    <2>2. inner.out = "found"
      BY <2>1
    <2>3. i + 1 <= n
      <3>1. SUFFICES ASSUME ~(i + 1 <= n) PROVE FALSE
        OBVIOUS
      <3>2. i = n
        BY <1>1, <3>1
      <3> QED BY <1>1, <1>6, <1>8, <2>2, <3>2, NothingAtEnd DEF P
    <2>4. inner.at > i + 1 /\ Meanings(tokens)[<<i + 1, inner.at - 1>>] # Malformed
      BY <1>6, <2>2, <2>3 DEF ExprSound, P
    <2>5. inner.at \in (i + 1)..(n + 1)
      <3>1. inner \in Readings(tokens, i + 1)
        BY <1>1, <1>6, ParserTypes DEF RulesTyped, P
      <3> QED BY <2>2, <3>1, ReadingIs
    <2>6. Peek(tokens, inner.at) = ")" /\ read = Found(inner.tree, inner.at + 1)
      BY <1>5, <2>1, <2>2 DEF Close
    <2>7. inner.at \in 1..n /\ tokens[inner.at] = ")" /\ i < inner.at
          /\ (inner.at + 1) - 1 = inner.at /\ inner.at + 1 > i
      <3>1. inner.at <= n
        BY <2>6 DEF Peek
      <3>2. inner.at \in 1..n /\ i < inner.at /\ (inner.at + 1) - 1 = inner.at /\ inner.at + 1 > i
        BY <1>1, <2>5, <3>1
      <3> QED BY <2>6, <3>1, <3>2 DEF Peek
    <2>8. IsFactor(tokens, i, inner.at)
      BY <1>8, <2>4, <2>7, BracketedIsFactor
    <2> QED BY <2>6, <2>7, <2>8 DEF Found
  <1>9. CASE t \notin Numbers /\ t # "("
    <2>1. IsName(t)
      BY <1>2, <1>3, <1>5, <1>9 DEF Factor
    <2>2. CASE Peek(tokens, i + 1) = "("
      <3>1. read = Call(tokens, t, i + 1)
        BY <1>2, <1>3, <1>9, <2>1, <2>2 DEF Factor
      <3>2. i + 1 \in 1..n
        BY <1>1, <2>2 DEF Peek
      <3>3. /\ t \in Aggregations /\ tokens[i + 1] = "("
            /\ read.at - 1 \in 1..n /\ read.at > i /\ tokens[read.at - 1] = ")"
            /\ IsCall(tokens, i, read.at - 1, read.tree)
        BY <2>2, <3>1, <3>2, CallFound
      <3> QED BY <3>3, CallIsFactor
    <2>3. CASE Peek(tokens, i + 1) # "("
      <3>1. read = Found(Column(t), i + 1)
        BY <1>2, <1>3, <1>9, <2>1, <2>3 DEF Factor
      <3> QED BY <1>1, <2>1, <3>1, LeafIsFactor DEF Found
    <2> QED BY <2>2, <2>3
  <1> QED BY <1>7, <1>8, <1>9

\* A loop, from what is known of later places
LEMMA ProductsIsSound ==
    ASSUME NEW tokens \in Seq(STRING), tokens # <<>>, NEW i \in 1..(Len(tokens) + 1),
           \A q \in (i + 1)..(Len(tokens) + 1) : RulesSound(tokens, q)
    PROVE  ProductsSound(tokens, i)
  <1> DEFINE P == Parsing(tokens)
             n == Len(tokens)
             loop == P[i].products
             right == P[i + 1].factor
             next == P[right.at].products
  <1> SUFFICES ASSUME NEW g \in 1..(i - 1), loop.out = "loop", IsTerm(tokens, g, i - 1)
               PROVE  IsTerm(tokens, g, loop.at - 1)
    BY DEF ProductsSound
  <1>1. n \in Nat \ {0} /\ i \in Int /\ g \in Int
    OBVIOUS
  <1> HIDE DEF P
  <1>2. CASE Peek(tokens, i) \notin {"*", "/"}
    <2>1. loop = Loop(<<>>, i)
      BY <1>2, ProductsAre DEF P
    <2> QED BY <2>1 DEF Loop
  <1>3. CASE Peek(tokens, i) \in {"*", "/"}
    <2>1. /\ i \in 1..n /\ i + 1 \in 1..(n + 1) /\ tokens[i] \in {"*", "/"}
          /\ right.out # "found" => loop = right
          /\ right.out = "found" =>
                /\ right.at \in (i + 1)..(n + 1)
                /\ loop.out = next.out
                /\ loop.out = "loop" => loop.at = next.at
      BY <1>3, ProductsAre DEF P
    <2>2. right \in Readings(tokens, i + 1)
      BY <2>1, ParserTypes DEF RulesTyped, P
    <2>3. right.out = "found"
      <3>1. SUFFICES ASSUME right.out # "found" PROVE FALSE
        OBVIOUS
      <3>2. loop \in {Refused, Overflow}
        BY <2>1, <2>2, <3>1, ReadingIs
      <3> QED BY <3>2 DEF Refused, Overflow
    <2>4. i + 1 <= n
      <3>1. SUFFICES ASSUME ~(i + 1 <= n) PROVE FALSE
        OBVIOUS
      <3>2. i = n /\ tokens[n] \in Operators \cup {"("}
        BY <1>1, <2>1, <3>1 DEF Operators
      <3> QED BY <2>3, <3>2, NothingAtEnd DEF P
    <2>5. right.at > i + 1 /\ IsFactor(tokens, i + 1, right.at - 1)
      <3>1. RulesSound(tokens, i + 1)
        BY <1>1, <2>4
      <3> QED BY <2>3, <2>4, <3>1 DEF RulesSound, FactorSound, P
    <2>6. /\ right.at - 1 \in 0..n /\ g \in 1..n /\ g <= i - 1 /\ g \in 1..(right.at - 1)
          /\ right.at \in (i + 1)..(n + 1)
      <3>1. i \in 1..n /\ right.at \in (i + 1)..(n + 1)
        BY <2>1, <2>3
      <3> DEFINE r == right.at
      <3>2. r \in (i + 1)..(n + 1)
        BY <3>1
      <3> HIDE DEF r, n
      <3>3. /\ r - 1 \in 0..n /\ g \in 1..n /\ g <= i - 1 /\ g \in 1..(r - 1)
            /\ r \in (i + 1)..(n + 1)
        BY <1>1, <3>1, <3>2
      <3> QED BY <3>3 DEF r
    <2>7. IsTerm(tokens, g, right.at - 1)
      BY <2>1, <2>5, <2>6, JoinedMeans DEF IsTerm, IsFactor
    <2>8. ProductsSound(tokens, right.at)
      BY <2>6 DEF RulesSound
    <2> QED BY <2>1, <2>3, <2>6, <2>7, <2>8 DEF ProductsSound, P
  <1> QED BY <1>2, <1>3

LEMMA SumsIsSound ==
    ASSUME NEW tokens \in Seq(STRING), tokens # <<>>, NEW i \in 1..(Len(tokens) + 1),
           \A q \in (i + 1)..(Len(tokens) + 1) : RulesSound(tokens, q)
    PROVE  SumsSound(tokens, i)
  <1> DEFINE P == Parsing(tokens)
             M == Meanings(tokens)
             n == Len(tokens)
             loop == P[i].sums
             right == P[i + 1].term
             next == P[right.at].sums
  <1> SUFFICES ASSUME NEW g \in 1..(i - 1), loop.out = "loop", M[<<g, i - 1>>] # Malformed
               PROVE  M[<<g, loop.at - 1>>] # Malformed
    BY DEF SumsSound
  <1>1. n \in Nat \ {0} /\ i \in Int /\ g \in Int
    OBVIOUS
  <1> HIDE DEF P, M
  <1>2. CASE Peek(tokens, i) \notin {"+", "-"}
    <2>1. loop = Loop(<<>>, i)
      BY <1>2, SumsAre DEF P
    <2> QED BY <2>1 DEF Loop
  <1>3. CASE Peek(tokens, i) \in {"+", "-"}
    <2>1. /\ i \in 1..n /\ i + 1 \in 1..(n + 1) /\ tokens[i] \in {"+", "-"}
          /\ right.out # "found" => loop = right
          /\ right.out = "found" =>
                /\ right.at \in (i + 1)..(n + 1)
                /\ loop.out = next.out
                /\ loop.out = "loop" => loop.at = next.at
      BY <1>3, SumsAre DEF P
    <2>2. right \in Readings(tokens, i + 1)
      BY <2>1, ParserTypes DEF RulesTyped, P
    <2>3. right.out = "found"
      <3>1. SUFFICES ASSUME right.out # "found" PROVE FALSE
        OBVIOUS
      <3>2. loop \in {Refused, Overflow}
        BY <2>1, <2>2, <3>1, ReadingIs
      <3> QED BY <3>2 DEF Refused, Overflow
    <2>4. i + 1 <= n
      <3>1. SUFFICES ASSUME ~(i + 1 <= n) PROVE FALSE
        OBVIOUS
      <3>2. i = n /\ tokens[n] \in Operators \cup {"("}
        BY <1>1, <2>1, <3>1 DEF Operators
      <3> QED BY <2>3, <3>2, NothingAtEnd DEF P
    <2>5. right.at > i + 1 /\ IsTerm(tokens, i + 1, right.at - 1)
      <3>1. RulesSound(tokens, i + 1)
        BY <1>1, <2>4
      <3> QED BY <2>3, <2>4, <3>1 DEF RulesSound, TermSound, P
    <2>6. /\ right.at - 1 \in 0..n /\ g \in 1..n /\ g <= i - 1 /\ g \in 1..(right.at - 1)
          /\ right.at \in (i + 1)..(n + 1)
      <3>1. i \in 1..n /\ right.at \in (i + 1)..(n + 1)
        BY <2>1, <2>3
      <3> DEFINE r == right.at
      <3>2. r \in (i + 1)..(n + 1)
        BY <3>1
      <3> HIDE DEF r, n
      <3>3. /\ r - 1 \in 0..n /\ g \in 1..n /\ g <= i - 1 /\ g \in 1..(r - 1)
            /\ r \in (i + 1)..(n + 1)
        BY <1>1, <3>1, <3>2
      <3> QED BY <3>3 DEF r
    <2>7. M[<<g, right.at - 1>>] # Malformed
      BY <2>1, <2>5, <2>6, JoinedMeans DEF IsTerm, M
    <2>8. SumsSound(tokens, right.at)
      BY <2>6 DEF RulesSound
    <2> QED BY <2>1, <2>3, <2>6, <2>7, <2>8, Zenon DEF SumsSound, P, M
  <1> QED BY <1>2, <1>3

LEMMA RulesAreSound ==
    ASSUME NEW tokens \in Seq(STRING), tokens # <<>>
    PROVE  \A i \in 1..(Len(tokens) + 1) : RulesSound(tokens, i)
  <1> DEFINE n == Len(tokens)
             P == Parsing(tokens)
             S == {m \in Nat : m <= n => RulesSound(tokens, n + 1 - m)}
  <1>1. n \in Nat
    OBVIOUS
  <1>2. ASSUME NEW m \in Nat, \A l \in 0..(m - 1) : l \in S PROVE m \in S
    <2>1. SUFFICES ASSUME m <= n PROVE RulesSound(tokens, n + 1 - m)
      OBVIOUS
    <2> DEFINE i == n + 1 - m
    <2>2. i \in 1..(n + 1)
      BY <1>1, <2>1
    <2>3. ASSUME NEW q \in (i + 1)..(n + 1) PROVE RulesSound(tokens, q)
      <3>1. n + 1 - q \in 0..(m - 1) /\ n + 1 - (n + 1 - q) = q /\ n + 1 - q <= n
        BY <1>1, <2>1, <2>2
      <3> QED BY <1>2, <3>1
    <2> HIDE DEF i, P
    <2>4. ProductsSound(tokens, i) /\ SumsSound(tokens, i)
      BY <2>2, <2>3, ProductsIsSound, SumsIsSound
    <2>5. ASSUME i <= n
          PROVE  FactorSound(tokens, i) /\ TermSound(tokens, i) /\ ExprSound(tokens, i)
      <3>1. i \in 1..n /\ (i + 1 <= n => i + 1 \in (i + 1)..(n + 1))
        BY <1>1, <2>2, <2>5
      <3>2. FactorSound(tokens, i)
        BY <2>3, <3>1, FactorIsSound DEF RulesSound
      <3>0. RulesTyped(tokens, i, P[i])
        BY <2>2, ParserTypes DEF P
      <3>3. TermSound(tokens, i)
        <4> DEFINE factor == P[i].factor
                   loop == P[factor.at].products
        <4> SUFFICES ASSUME P[i].term.out = "found"
                     PROVE  P[i].term.at > i /\ IsTerm(tokens, i, P[i].term.at - 1)
          BY DEF TermSound, P
        <4>1. P[i].term = IF factor.out # "found" THEN factor ELSE Resume(factor.tree, loop)
          BY <2>2, RulesAre DEF P
        <4>2. factor.out = "found" /\ P[i].term = Resume(factor.tree, loop)
          BY <4>1
        <4>3. factor.at > i /\ IsTerm(tokens, i, factor.at - 1)
          BY <3>2, <4>2, FactorIsTerm DEF FactorSound, P
        <4>4. factor.at \in i..(n + 1)
          BY <3>0, <4>2, ReadingIs DEF RulesTyped
        <4>5. /\ factor.at \in 1..(n + 1) /\ factor.at \in (i + 1)..(n + 1)
              /\ i \in 1..(factor.at - 1)
          BY <1>1, <2>2, <4>3, <4>4
        <4>6. loop \in Loopings(tokens, factor.at)
          BY <4>5, ParserTypes DEF RulesTyped, P
        <4>7. /\ loop.out = "loop" /\ P[i].term.at = loop.at
              /\ loop.at \in factor.at..(n + 1)
          <5> HIDE DEF loop, factor
          <5>1. Resume(factor.tree, loop).out = "found"
            BY <4>2
          <5>2. /\ loop.out = "loop" /\ Resume(factor.tree, loop).at = loop.at
                /\ loop.at \in factor.at..(Len(tokens) + 1)
            BY <4>6, <5>1, ResumeFound
          <5> QED BY <4>2, <5>2 DEF n
        <4>8. ProductsSound(tokens, factor.at)
          BY <2>3, <4>5 DEF RulesSound
        <4>9. IsTerm(tokens, i, loop.at - 1)
          BY <4>3, <4>5, <4>7, <4>8 DEF ProductsSound, P
        <4>10. loop.at > i
          BY <2>2, <4>5, <4>7
        <4> QED BY <4>7, <4>9, <4>10
      <3>4. ExprSound(tokens, i)
        <4> DEFINE term == P[i].term
                   loop == P[term.at].sums
                   M == Meanings(tokens)
        <4> SUFFICES ASSUME P[i].expr.out = "found"
                     PROVE  P[i].expr.at > i /\ M[<<i, P[i].expr.at - 1>>] # Malformed
          BY DEF ExprSound, P
        <4>1. P[i].expr = IF term.out # "found" THEN term ELSE Resume(term.tree, loop)
          BY <2>2, RulesAre DEF P
        <4>2. term.out = "found" /\ P[i].expr = Resume(term.tree, loop)
          BY <4>1
        <4>3. term.at > i /\ M[<<i, term.at - 1>>] # Malformed
          BY <3>3, <4>2 DEF TermSound, IsTerm, P
        <4>4. term.at \in i..(n + 1)
          BY <3>0, <4>2, ReadingIs DEF RulesTyped
        <4>5. /\ term.at \in 1..(n + 1) /\ term.at \in (i + 1)..(n + 1)
              /\ i \in 1..(term.at - 1)
          BY <1>1, <2>2, <4>3, <4>4
        <4>6. loop \in Loopings(tokens, term.at)
          BY <4>5, ParserTypes DEF RulesTyped, P
        <4>7. /\ loop.out = "loop" /\ P[i].expr.at = loop.at
              /\ loop.at \in term.at..(n + 1)
          <5> HIDE DEF loop, term
          <5>1. Resume(term.tree, loop).out = "found"
            BY <4>2
          <5>2. /\ loop.out = "loop" /\ Resume(term.tree, loop).at = loop.at
                /\ loop.at \in term.at..(Len(tokens) + 1)
            BY <4>6, <5>1, ResumeFound
          <5> QED BY <4>2, <5>2 DEF n
        <4>8. SumsSound(tokens, term.at)
          BY <2>3, <4>5 DEF RulesSound
        <4>9. M[<<i, loop.at - 1>>] # Malformed
          BY <4>3, <4>5, <4>7, <4>8, Zenon DEF SumsSound, P
        <4>10. loop.at > i
          BY <2>2, <4>5, <4>7
        <4> QED BY <4>7, <4>9, <4>10
      <3> QED BY <3>2, <3>3, <3>4
    <2>6. RulesSound(tokens, i)
      BY <2>4, <2>5 DEF RulesSound
    <2> QED BY <2>6 DEF i
  <1>3. \A m \in Nat : m \in S
    <2> HIDE DEF S
    <2> QED BY <1>2, Induction
  <1>4. ASSUME NEW i \in 1..(n + 1) PROVE RulesSound(tokens, i)
    <2>1. n + 1 - i \in Nat /\ n + 1 - i <= n /\ n + 1 - (n + 1 - i) = i
      BY <1>1
    <2> QED BY <1>3, <2>1
  <1> QED BY <1>4
-----------------------------------------------------------------------------
(* The parser and the meaning of a formula                                   *)

\* The recursive descent parser of the source reads exactly the formulas that mean
\* something - those that can be split at the operator that binds least and comes last,
\* and so on inside - and its tree is what they mean (parse, parseExpr, parseTerm,
\* parseFactor, parseAggregation); for formulas of any length.
THEOREM ParserReadsMeaning ==
    ASSUME NEW tokens \in Seq(STRING)
    PROVE  /\ Parse(tokens).out = "found" <=> Meaning(tokens) # Malformed
           /\ Parse(tokens).out = "found" => Parse(tokens).tree = Meaning(tokens)
           /\ Parse(tokens).out \in {"found", "refused", "overflow"}
           /\ Meaning(tokens) # Malformed => Meaning(tokens) \in TreesOf(tokens)
  <1> DEFINE n == Len(tokens)
             read == Parsing(tokens)[1].expr
  <1>1. ASSUME Meaning(tokens) # Malformed
        PROVE  Parse(tokens).out = "found" /\ Parse(tokens).tree = Meaning(tokens)
    BY <1>1, MeaningIsRead DEF Found
  <1>2. ASSUME Parse(tokens).out = "found" PROVE Meaning(tokens) # Malformed
    <2>1. tokens # <<>>
      BY <1>2 DEF Parse, Whole, Refused
    <2>2. Parse(tokens) = IF read.out = "found" /\ read.at <= n THEN Refused ELSE read
      BY <2>1 DEF Parse, Whole
    <2>3. n \in Nat \ {0} /\ 1 \in 1..(n + 1) /\ 1 <= n
      BY <2>1
    <2>4. read \in Readings(tokens, 1)
      BY <2>1, <2>3, ParserTypes DEF RulesTyped
    <2>5. read.out = "found" /\ ~(read.at <= n)
      BY <1>2, <2>2 DEF Refused
    <2>6. read.at = n + 1 /\ read.at - 1 = n
      <3>1. read.at \in 1..(n + 1)
        BY <2>4, <2>5, ReadingIs
      <3> QED BY <2>3, <2>5, <3>1
    <2>7. ExprSound(tokens, 1)
      BY <2>1, <2>3, RulesAreSound DEF RulesSound
    <2> QED BY <2>5, <2>6, <2>7 DEF ExprSound, Meaning
  <1>3. Parse(tokens).out \in {"found", "refused", "overflow"}
    <2>1. CASE tokens = <<>>
      BY <2>1 DEF Parse, Whole, Refused
    <2>2. CASE tokens # <<>>
      <3>1. 1 \in 1..(n + 1)
        OBVIOUS
      <3>2. read \in Readings(tokens, 1)
        BY <2>2, <3>1, ParserTypes DEF RulesTyped
      <3>3. Parse(tokens) \in {Refused, read}
        BY <2>2 DEF Parse, Whole
      <3> QED BY <3>2, <3>3, ReadingIs DEF Refused
    <2> QED BY <2>1, <2>2
  <1>4. Meaning(tokens) # Malformed => Meaning(tokens) \in TreesOf(tokens)
    <2>1. 1 \in 1..(n + 1) /\ n \in 0..n
      OBVIOUS
    <2> QED BY <2>1, MeaningTyped DEF Meaning
  <1> QED BY <1>1, <1>2, <1>3, <1>4

\* Without count_distinct the statement has the tree as it is.
LEMMA ToSqlKeeps ==
    ASSUME NEW tokens, NEW tree \in TreesOf(tokens), "count_distinct" \notin Range(tokens)
    PROVE  ToSql(tree) = tree
  <1>1. ASSUME NEW i \in DOMAIN tree, tree[i].kind = "aggregation"
        PROVE  [tree[i] EXCEPT !.fn = SqlFunction(@)] = tree[i]
    <2> DEFINE node == tree[i]
    <2>1. node \in NodesOf(tokens)
      BY DEF TreesOf
    <2>2. node \in [kind : {"aggregation"}, fn : Aggregations \cap Range(tokens),
                    distinct : BOOLEAN, column : Range(tokens) \cup {"none"}]
      <3> HIDE DEF node
      <3>1. node.kind = "aggregation"
        BY <1>1 DEF node
      <3> QED BY <2>1, <3>1 DEF NodesOf
    <2> HIDE DEF node
    <2>3. node.fn # "count_distinct" /\ SqlFunction(node.fn) = node.fn
      BY <2>2 DEF SqlFunction
    <2> QED BY <2>2, <2>3 DEF node
  <1>2. tree = [i \in DOMAIN tree |-> tree[i]]
    BY DEF TreesOf
  <1>3. ToSql(tree) = [i \in DOMAIN tree |-> tree[i]]
    BY <1>1 DEF ToSql
  <1> QED BY <1>2, <1>3
-----------------------------------------------------------------------------
(* Lists                                                                     *)

LEMMA IsList ==
    ASSUME NEW V, NEW s \in Seq(V)
    PROVE  /\ s \in Seq(Range(s)) /\ Len(s) \in Nat /\ DOMAIN s = 1..Len(s)
           /\ \A i \in DOMAIN s : s[i] \in Range(s)
  <1>1. s = [i \in 1..Len(s) |-> s[i]] /\ Len(s) \in Nat /\ DOMAIN s = 1..Len(s)
    OBVIOUS
  <1>2. \A i \in DOMAIN s : s[i] \in Range(s)
    BY DEF Range
  <1>3. \A i \in 1..Len(s) : s[i] \in Range(s)
    BY <1>1, <1>2
  <1>4. [i \in 1..Len(s) |-> s[i]] \in Seq(Range(s))
    BY <1>1, <1>3
  <1> QED BY <1>1, <1>2, <1>4

LEMMA ListOf ==
    ASSUME NEW n \in Nat, NEW f, DOMAIN f = 1..n, f = [i \in DOMAIN f |-> f[i]]
    PROVE  f \in Seq(Range(f)) /\ Len(f) = n
  <1>1. \A i \in 1..n : f[i] \in Range(f)
    BY DEF Range
  <1>2. [i \in 1..n |-> f[i]] \in Seq(Range(f)) /\ Len([i \in 1..n |-> f[i]]) = n
    BY <1>1
  <1> QED BY <1>2

\* What two lists have together
LEMMA RangeOfBoth ==
    ASSUME NEW V, NEW s \in Seq(V), NEW W, NEW t \in Seq(W)
    PROVE  Range(s \o t) = Range(s) \cup Range(t) /\ s \o t \in Seq(Range(s \o t))
  <1> DEFINE both == s \o t
             m == Len(s)
             n == Len(t)
  <1>1. m \in Nat /\ n \in Nat /\ DOMAIN s = 1..m /\ DOMAIN t = 1..n
    OBVIOUS
  <1>2. s \in Seq(V \cup W) /\ t \in Seq(V \cup W)
    OBVIOUS
  <1>3. both \in Seq(V \cup W) /\ Len(both) = m + n /\ DOMAIN both = 1..(m + n)
    BY <1>2
  <1>4. \A i \in 1..m : both[i] = s[i]
    BY <1>2
  <1>5. \A i \in 1..n : both[m + i] = t[i]
    BY <1>2
  <1> HIDE DEF both, m, n
  <1>6. ASSUME NEW i \in 1..m PROVE s[i] \in Range(both)
    <2>1. i \in 1..(m + n)
      BY <1>1
    <2> QED BY <1>3, <1>4, <2>1 DEF Range
  <1>7. ASSUME NEW i \in 1..n PROVE t[i] \in Range(both)
    <2>1. m + i \in 1..(m + n)
      BY <1>1
    <2> QED BY <1>3, <1>5, <2>1 DEF Range
  <1>8. ASSUME NEW i \in 1..(m + n) PROVE both[i] \in Range(s) \cup Range(t)
    <2>1. CASE i <= m
      <3>1. i \in 1..m
        BY <1>1, <2>1
      <3> QED BY <1>1, <1>4, <3>1 DEF Range
    <2>2. CASE ~(i <= m)
      <3>1. i - m \in 1..n /\ m + (i - m) = i
        BY <1>1, <2>2
      <3> QED BY <1>1, <1>5, <3>1 DEF Range
    <2> QED BY <2>1, <2>2
  <1>9. Range(both) = Range(s) \cup Range(t)
    <2>1. Range(s) \subseteq Range(both)
      BY <1>1, <1>6 DEF Range
    <2>2. Range(t) \subseteq Range(both)
      BY <1>1, <1>7 DEF Range
    <2>3. Range(both) \subseteq Range(s) \cup Range(t)
      BY <1>3, <1>8 DEF Range
    <2> QED BY <2>1, <2>2, <2>3
  <1> QED BY <1>3, <1>9, IsList DEF both

LEMMA ListsJoined ==
    ASSUME NEW s, s \in Seq(Range(s)), NEW t, t \in Seq(Range(t))
    PROVE  s \o t \in Seq(Range(s \o t)) /\ Range(s \o t) = Range(s) \cup Range(t)
  BY RangeOfBoth

\* The places of a list that are picked
LEMMA PickedIs ==
    ASSUME NEW V, NEW list \in Seq(V), NEW places
    PROVE  /\ Picked(list, places) \in Seq(Range(Picked(list, places)))
           /\ Range(Picked(list, places)) = {list[i] : i \in places \cap DOMAIN list}
  <1> DEFINE n == Len(list)
             Body(f) == [i \in 0..n |-> CASE i = 0 -> <<>>
                                          [] i > 0 /\ i \in places -> Append(f[i - 1], list[i])
                                          [] OTHER -> f[i - 1]]
             At(f, i) == IF i = 0 THEN <<>>
                         ELSE IF i \in places THEN Append(f[i - 1], list[i]) ELSE f[i - 1]
             Upto(f, m) == f = [i \in 0..m |-> At(f, i)]
             S == {m \in 0..n : \E f : Upto(f, m)}
             upTo == CHOOSE f : f = Body(f)
  <1>1. n \in Nat /\ DOMAIN list = 1..n
    OBVIOUS
  <1>2. 0 \in S
    <2> DEFINE f == [i \in 0..0 |-> <<>>]
    <2>1. Upto(f, 0)
      OBVIOUS
    <2> HIDE DEF f, Upto
    <2> QED BY <2>1, <1>1
  <1>3. ASSUME NEW m \in 1..n, m - 1 \in S PROVE m \in S
    <2>1. PICK f : Upto(f, m - 1)
      BY <1>3
    <2> DEFINE g == [i \in 0..m |-> IF i = m THEN At(f, m) ELSE f[i]]
    <2>2. ASSUME NEW i \in 0..m PROVE g[i] = At(g, i)
      <3>1. CASE i = m
        <4>1. m - 1 \in 0..m /\ m - 1 # m /\ m # 0
          BY <1>1
        <4>2. g[m - 1] = f[m - 1]
          BY <4>1
        <4>3. g[m] = At(f, m)
          BY <4>1
        <4> HIDE DEF g
        <4> QED BY <3>1, <4>1, <4>2, <4>3
      <3>2. CASE i # m
        <4>1. i \in 0..(m - 1) /\ (i # 0 => i - 1 \in 0..m /\ i - 1 # m)
          BY <3>2
        <4>2. f[i] = At(f, i)
          BY <2>1, <4>1
        <4>3. i # 0 => g[i - 1] = f[i - 1]
          BY <4>1
        <4>4. g[i] = f[i]
          BY <3>2
        <4> HIDE DEF g
        <4> QED BY <4>2, <4>3, <4>4
      <3> QED BY <3>1, <3>2
    <2>3. Upto(g, m)
      <3>1. g = [i \in 0..m |-> g[i]]
        OBVIOUS
      <3> HIDE DEF g, At
      <3> QED BY <2>2, <3>1
    <2> HIDE DEF g, Upto
    <2> QED BY <2>3, <1>3
  <1>4. n \in S
    <2> HIDE DEF S, n
    <2>1. \A m \in 0..n : m \in S
      BY <1>1, <1>2, <1>3, StepInduction
    <2> QED BY <2>1, <1>1
  <1>5. PICK f : Upto(f, n)
    BY <1>4
  <1>6. \A g : \A i \in 0..n : Body(g)[i] = At(g, i)
    OBVIOUS
  <1>7. f = Body(f)
    <2>1. f = [i \in 0..n |-> At(f, i)]
      BY <1>5
    <2>2. Body(f) = [i \in 0..n |-> Body(f)[i]]
      OBVIOUS
    <2> HIDE DEF Body, At
    <2> QED BY <1>6, <2>1, <2>2
  <1>8. upTo = Body(upTo)
    <2> HIDE DEF Body
    <2> QED BY <1>7
  <1>9. Picked(list, places) = upTo[n]
    BY DEF Picked
  <1> HIDE DEF upTo
  <1>10. \A i \in 0..n : upTo[i] = At(upTo, i)
    <2> HIDE DEF Body, At
    <2> QED BY <1>6, <1>8
  <1> DEFINE T == {m \in 0..n : /\ upTo[m] \in Seq(V)
                                /\ Range(upTo[m]) = {list[i] : i \in places \cap (1..m)}}
  <1>11. 0 \in T
    <2>1. 0 \in 0..n
      BY <1>1
    <2>2. upTo[0] = <<>>
      BY <1>10, <2>1
    <2>3. <<>> \in Seq(V) /\ Range(<<>>) = {} /\ places \cap (1..0) = {}
      BY DEF Range
    <2>4. {list[i] : i \in places \cap (1..0)} = {}
      BY <2>3
    <2> HIDE DEF n
    <2> QED BY <2>1, <2>2, <2>3, <2>4
  <1>12. ASSUME NEW m \in 1..n, m - 1 \in T PROVE m \in T
    <2>1. m # 0 /\ m \in 0..n /\ m \in Nat
      BY <1>1
    <2> DEFINE s == upTo[m - 1]
    <2>2. s \in Seq(V) /\ Range(s) = {list[i] : i \in places \cap (1..(m - 1))}
      BY <1>12
    <2>3. upTo[m] = IF m \in places THEN Append(s, list[m]) ELSE s
      BY <1>10, <2>1
    <2>4. 1..m = (1..(m - 1)) \cup {m}
      BY <2>1
    <2> HIDE DEF s
    <2>5. CASE m \in places
      <3>1. Append(s, list[m]) = s \o <<list[m]>> /\ <<list[m]>> \in Seq(V)
        BY <2>2
      <3>2. Range(<<list[m]>>) = {list[m]}
        BY DEF Range
      <3>3. Range(upTo[m]) = Range(s) \cup {list[m]}
        <4> DEFINE t == <<list[m]>>
        <4>1. t \in Seq(V) /\ Range(t) = {list[m]} /\ upTo[m] = s \o t
          BY <2>3, <2>5, <3>1, <3>2
        <4> HIDE DEF t
        <4>2. Range(s \o t) = Range(s) \cup Range(t)
          BY <2>2, <4>1, RangeOfBoth
        <4> QED BY <4>1, <4>2
      <3>4. upTo[m] \in Seq(V)
        BY <2>2, <2>3, <2>5
      <3>5. {list[i] : i \in places \cap (1..m)}
              = {list[i] : i \in places \cap (1..(m - 1))} \cup {list[m]}
        BY <2>4, <2>5
      <3> QED BY <2>1, <2>2, <3>3, <3>4, <3>5
    <2>6. CASE m \notin places
      <3>1. places \cap (1..m) = places \cap (1..(m - 1))
        BY <2>4, <2>6
      <3> QED BY <2>1, <2>2, <2>3, <2>6, <3>1
    <2> QED BY <2>5, <2>6
  <1>13. n \in T
    <2> HIDE DEF T, n
    <2>1. \A m \in 0..n : m \in T
      BY <1>1, <1>11, <1>12, StepInduction
    <2> QED BY <1>1, <2>1
  <1> HIDE DEF upTo
  <1> QED BY <1>1, <1>9, <1>13, IsList
-----------------------------------------------------------------------------
(* Faults                                                                    *)

LEMMA FirstFaultIs ==
    ASSUME NEW V, NEW faults \in Seq(V)
    PROVE  /\ FirstFault(faults) = Fine <=> Range(faults) \subseteq {Fine}
           /\ FirstFault(faults) # Fine => FirstFault(faults) \in Range(faults)
  <1> DEFINE found == {i \in DOMAIN faults : faults[i] # Fine}
  <1>1. FirstFault(faults) = IF found = {} THEN Fine ELSE faults[Min(found)]
    BY DEF FirstFault
  <1>2. found \subseteq Nat /\ found \subseteq DOMAIN faults
    OBVIOUS
  <1>3. found = {} <=> Range(faults) \subseteq {Fine}
    BY DEF Range
  <1>4. ASSUME found # {} PROVE Min(found) \in found
    <2> HIDE DEF found
    <2> QED BY <1>2, <1>4, MinIsLeast
  <1>5. ASSUME found # {} PROVE faults[Min(found)] # Fine /\ faults[Min(found)] \in Range(faults)
    <2>1. Min(found) \in found
      BY <1>4, <1>5
    <2> QED BY <2>1 DEF Range
  <1> HIDE DEF found
  <1> QED BY <1>1, <1>3, <1>5

LEMMA ResolveIs ==
    ASSUME NEW seen, NEW name
    PROVE  Resolve(seen, name) \in {Fine, "COLUMN_NOT_FOUND", "AMBIGUOUS_COLUMN"}
  <1> DEFINE owners == Owners(seen, name)
  <1>1. Resolve(seen, name) = CASE owners = {} -> "COLUMN_NOT_FOUND"
                                [] Cardinality(owners) > 1 -> "AMBIGUOUS_COLUMN"
                                [] OTHER -> Fine
    BY DEF Resolve
  <1> HIDE DEF owners
  <1> QED BY <1>1

\* A query that the handler has parsed: lists, and formulas that are lists of tokens
IsQuery(q) ==
    /\ \A field \in {"joins", "dimensions", "metrics", "filters", "sort"} :
          field \in DOMAIN q /\ q[field] \in Seq(Range(q[field]))
    /\ \A i \in DOMAIN q.metrics : q.metrics[i].formula \in Seq(STRING)

\* The fault of a query is that of a part, and without one no part has any.
LEMMA QueryFaultIs ==
    ASSUME NEW q, IsQuery(q), NEW seen
    PROVE  LET fault == QueryFault(q, seen)
               grouped == q.dimensions # <<>>
           IN  /\ fault = Fine =>
                    /\ \A i \in DOMAIN q.joins : JoinFault(q.joins[i], seen) = Fine
                    /\ \A i \in DOMAIN q.dimensions : DimensionFault(q.dimensions[i], seen) = Fine
                    /\ \A i \in DOMAIN q.metrics : MetricFault(q.metrics[i], seen, grouped) = Fine
                    /\ \A i \in DOMAIN q.filters : FilterFault(q.filters[i], seen) = Fine
               /\ fault # Fine =>
                    \/ \E i \in DOMAIN q.joins : fault = JoinFault(q.joins[i], seen)
                    \/ \E i \in DOMAIN q.dimensions : fault = DimensionFault(q.dimensions[i], seen)
                    \/ \E i \in DOMAIN q.metrics : fault = MetricFault(q.metrics[i], seen, grouped)
                    \/ OutputNames(q) = <<>> /\ fault = "INVALID_QUERY"
                    \/ \E i \in DOMAIN q.filters : fault = FilterFault(q.filters[i], seen)
                    \/ \E i \in DOMAIN q.sort : fault = SortFault(q.sort[i], q)
  <1> DEFINE grouped == q.dimensions # <<>>
             a == [i \in DOMAIN q.joins |-> JoinFault(q.joins[i], seen)]
             b == [i \in DOMAIN q.dimensions |-> DimensionFault(q.dimensions[i], seen)]
             c == [i \in DOMAIN q.metrics |-> MetricFault(q.metrics[i], seen, grouped)]
             d == <<IF OutputNames(q) = <<>> THEN "INVALID_QUERY" ELSE Fine>>
             e == [i \in DOMAIN q.filters |-> FilterFault(q.filters[i], seen)]
             g == [i \in DOMAIN q.sort |-> SortFault(q.sort[i], q)]
             all == a \o b \o c \o d \o e \o g
  <1>1. QueryFault(q, seen) = FirstFault(all)
    BY DEF QueryFault
  <1>2. /\ q.joins \in Seq(Range(q.joins)) /\ q.dimensions \in Seq(Range(q.dimensions))
        /\ q.metrics \in Seq(Range(q.metrics)) /\ q.filters \in Seq(Range(q.filters))
        /\ q.sort \in Seq(Range(q.sort))
    BY DEF IsQuery
  <1>3. a \in Seq(Range(a))
    BY <1>2, IsList, ListOf
  <1>4. b \in Seq(Range(b))
    BY <1>2, IsList, ListOf
  <1>5. c \in Seq(Range(c))
    BY <1>2, IsList, ListOf
  <1>6. d \in Seq(Range(d)) /\ \A v \in Range(d) :
           v = Fine \/ (OutputNames(q) = <<>> /\ v = "INVALID_QUERY")
    BY DEF Range
  <1>7. e \in Seq(Range(e))
    BY <1>2, IsList, ListOf
  <1>8. g \in Seq(Range(g))
    BY <1>2, IsList, ListOf
  <1>9. /\ \A v \in Range(a) : \E i \in DOMAIN q.joins : v = JoinFault(q.joins[i], seen)
        /\ \A i \in DOMAIN q.joins : JoinFault(q.joins[i], seen) \in Range(a)
    BY DEF Range
  <1>10. /\ \A v \in Range(b) : \E i \in DOMAIN q.dimensions :
               v = DimensionFault(q.dimensions[i], seen)
         /\ \A i \in DOMAIN q.dimensions : DimensionFault(q.dimensions[i], seen) \in Range(b)
    BY DEF Range
  <1>11. /\ \A v \in Range(e) : \E i \in DOMAIN q.filters : v = FilterFault(q.filters[i], seen)
         /\ \A i \in DOMAIN q.filters : FilterFault(q.filters[i], seen) \in Range(e)
    BY DEF Range
  <1>12. \A v \in Range(g) : \E i \in DOMAIN q.sort : v = SortFault(q.sort[i], q)
    BY DEF Range
  <1>13. /\ \A v \in Range(c) : \E i \in DOMAIN q.metrics :
               v = MetricFault(q.metrics[i], seen, grouped)
         /\ \A i \in DOMAIN q.metrics : MetricFault(q.metrics[i], seen, grouped) \in Range(c)
    BY DEF Range
  <1> HIDE DEF a, b, c, d, e, g, grouped
  <1>14. /\ all \in Seq(Range(all))
         /\ Range(all) = Range(a) \cup Range(b) \cup Range(c) \cup Range(d) \cup Range(e)
                           \cup Range(g)
    <2> DEFINE ab == a \o b
    <2>1. ab \in Seq(Range(ab)) /\ Range(ab) = Range(a) \cup Range(b)
      BY <1>3, <1>4, ListsJoined
    <2> HIDE DEF ab
    <2> DEFINE abc == ab \o c
    <2>2. abc \in Seq(Range(abc)) /\ Range(abc) = Range(ab) \cup Range(c)
      BY <1>5, <2>1, ListsJoined
    <2> HIDE DEF abc
    <2> DEFINE abcd == abc \o d
    <2>3. abcd \in Seq(Range(abcd)) /\ Range(abcd) = Range(abc) \cup Range(d)
      BY <1>6, <2>2, ListsJoined
    <2> HIDE DEF abcd
    <2> DEFINE abcde == abcd \o e
    <2>4. abcde \in Seq(Range(abcde)) /\ Range(abcde) = Range(abcd) \cup Range(e)
      BY <1>7, <2>3, ListsJoined
    <2> HIDE DEF abcde
    <2> DEFINE abcdeg == abcde \o g
    <2>5. abcdeg \in Seq(Range(abcdeg)) /\ Range(abcdeg) = Range(abcde) \cup Range(g)
      BY <1>8, <2>4, ListsJoined
    <2> HIDE DEF abcdeg
    <2>6. all = abcdeg
      BY DEF abcdeg, abcde, abcd, abc, ab
    <2> HIDE DEF all
    <2> QED BY <2>1, <2>2, <2>3, <2>4, <2>5, <2>6
  <1> HIDE DEF all
  <1>15. ASSUME QueryFault(q, seen) = Fine PROVE Range(all) \subseteq {Fine}
    BY <1>1, <1>14, <1>15, FirstFaultIs
  <1>16. ASSUME QueryFault(q, seen) # Fine PROVE QueryFault(q, seen) \in Range(all)
    BY <1>1, <1>14, <1>16, FirstFaultIs
  <1>17. ASSUME QueryFault(q, seen) = Fine
         PROVE  /\ \A i \in DOMAIN q.joins : JoinFault(q.joins[i], seen) = Fine
                /\ \A i \in DOMAIN q.dimensions : DimensionFault(q.dimensions[i], seen) = Fine
                /\ \A i \in DOMAIN q.metrics : MetricFault(q.metrics[i], seen, grouped) = Fine
                /\ \A i \in DOMAIN q.filters : FilterFault(q.filters[i], seen) = Fine
    BY <1>9, <1>10, <1>11, <1>13, <1>14, <1>15, <1>17
  <1>18. ASSUME QueryFault(q, seen) # Fine
         PROVE  LET fault == QueryFault(q, seen)
                IN  \/ \E i \in DOMAIN q.joins : fault = JoinFault(q.joins[i], seen)
                    \/ \E i \in DOMAIN q.dimensions : fault = DimensionFault(q.dimensions[i], seen)
                    \/ \E i \in DOMAIN q.metrics : fault = MetricFault(q.metrics[i], seen, grouped)
                    \/ OutputNames(q) = <<>> /\ fault = "INVALID_QUERY"
                    \/ \E i \in DOMAIN q.filters : fault = FilterFault(q.filters[i], seen)
                    \/ \E i \in DOMAIN q.sort : fault = SortFault(q.sort[i], q)
    BY <1>6, <1>9, <1>10, <1>11, <1>12, <1>13, <1>14, <1>16, <1>18
  <1> QED BY <1>17, <1>18 DEF grouped

\* Only a metric has the fault of one.
LEMMA InvalidMetricIs ==
    ASSUME NEW q, IsQuery(q), NEW seen, QueryFault(q, seen) = "INVALID_METRIC"
    PROVE  \E i \in DOMAIN q.metrics :
              MetricFault(q.metrics[i], seen, q.dimensions # <<>>) = "INVALID_METRIC"
  <1> DEFINE fault == QueryFault(q, seen)
  <1>1. fault = "INVALID_METRIC" /\ fault # Fine
    BY DEF Fine
  <1>2. \A i \in DOMAIN q.joins : fault # JoinFault(q.joins[i], seen)
    BY <1>1 DEF JoinFault, Fine
  <1>3. \A i \in DOMAIN q.dimensions : fault # DimensionFault(q.dimensions[i], seen)
    BY <1>1, ResolveIs DEF DimensionFault, Fine
  <1>4. \A i \in DOMAIN q.filters : fault # FilterFault(q.filters[i], seen)
    BY <1>1, ResolveIs DEF FilterFault, Fine
  <1>5. \A i \in DOMAIN q.sort : fault # SortFault(q.sort[i], q)
    BY <1>1 DEF SortFault, Fine
  <1> HIDE DEF fault
  <1>6. \/ \E i \in DOMAIN q.joins : fault = JoinFault(q.joins[i], seen)
        \/ \E i \in DOMAIN q.dimensions : fault = DimensionFault(q.dimensions[i], seen)
        \/ \E i \in DOMAIN q.metrics : fault = MetricFault(q.metrics[i], seen, q.dimensions # <<>>)
        \/ fault = "INVALID_QUERY"
        \/ \E i \in DOMAIN q.filters : fault = FilterFault(q.filters[i], seen)
        \/ \E i \in DOMAIN q.sort : fault = SortFault(q.sort[i], q)
    BY <1>1, QueryFaultIs DEF fault
  <1> QED BY <1>1, <1>2, <1>3, <1>4, <1>5, <1>6

\* A formula without a fault fits, and one that is refused as a metric does not.
FormulaFits(formula, context, grouped) ==
    /\ Meaning(formula) # Malformed
    /\ Fault(Meaning(formula), context) = Fine
    /\ ~grouped \/ ContainsAggregation(Meaning(formula))

LEMMA FormulaFaultIs ==
    ASSUME NEW tokens \in Seq(STRING), NEW seen, NEW grouped \in BOOLEAN
    PROVE  /\ FormulaFault(tokens, seen, grouped) = Fine =>
                /\ FormulaFits(tokens, FormulaContext(seen), grouped)
                /\ "count_distinct" \notin Range(tokens) =>
                      ToSql(Parse(tokens).tree) = Meaning(tokens)
           /\ FormulaFault(tokens, seen, grouped) = "INVALID_METRIC" =>
                ~FormulaFits(tokens, FormulaContext(seen), grouped)
  <1> DEFINE parsed == Parse(tokens)
             tree == parsed.tree
             fault == Fault(tree, FormulaContext(seen))
             m == Meaning(tokens)
  <1>1. FormulaFault(tokens, seen, grouped) =
          CASE parsed.out = "refused"  -> "INVALID_METRIC"
            [] parsed.out = "overflow" -> "STACK_OVERFLOW"
            [] OTHER -> IF fault # Fine THEN fault
                        ELSE IF grouped /\ ~ContainsAggregation(tree) THEN "INVALID_METRIC"
                        ELSE Fine
    BY DEF FormulaFault, ReadFault, TreeFault
  <1>2. /\ parsed.out = "found" <=> m # Malformed
        /\ parsed.out = "found" => tree = m
        /\ parsed.out \in {"found", "refused", "overflow"}
        /\ m # Malformed => m \in TreesOf(tokens)
    BY ParserReadsMeaning
  <1>3. FormulaFits(tokens, FormulaContext(seen), grouped) <=>
          /\ m # Malformed
          /\ Fault(m, FormulaContext(seen)) = Fine
          /\ ~grouped \/ ContainsAggregation(m)
    BY DEF FormulaFits
  <1>4. ASSUME parsed.out = "found", "count_distinct" \notin Range(tokens)
        PROVE  ToSql(tree) = m
    <2>1. m \in TreesOf(tokens) /\ tree = m
      BY <1>2, <1>4
    <2> HIDE DEF m, parsed, tree
    <2>2. ToSql(m) = m
      BY <1>4, <2>1, ToSqlKeeps
    <2> QED BY <2>1, <2>2
  <1> HIDE DEF m, parsed
  <1>5. CASE parsed.out = "found"
    <2>1. FormulaFault(tokens, seen, grouped) =
            IF fault # Fine THEN fault
            ELSE IF grouped /\ ~ContainsAggregation(tree) THEN "INVALID_METRIC" ELSE Fine
      BY <1>1, <1>5
    <2>2. tree = m /\ m # Malformed
      BY <1>2, <1>5
    <2>3. fault = Fault(m, FormulaContext(seen)) /\ ContainsAggregation(tree) = ContainsAggregation(m)
      BY <2>2
    <2> HIDE DEF fault
    <2> QED BY <1>3, <1>4, <1>5, <2>1, <2>2, <2>3 DEF Fine, parsed, m
  <1>6. CASE parsed.out \in {"refused", "overflow"}
    <2>1. m = Malformed
      BY <1>2, <1>6
    <2>2. FormulaFault(tokens, seen, grouped) \in {"INVALID_METRIC", "STACK_OVERFLOW"}
      BY <1>1, <1>6
    <2> QED BY <1>3, <2>1, <2>2 DEF Fine
  <1> QED BY <1>2, <1>5, <1>6

LEMMA MetricFaultIs ==
    ASSUME NEW metric, NEW seen, NEW grouped
    PROVE  /\ metric.formula # <<>> =>
                MetricFault(metric, seen, grouped) = FormulaFault(metric.formula, seen, grouped)
           /\ MetricFault(metric, seen, grouped) = "INVALID_METRIC" => metric.formula # <<>>
  <1>1. AggregateFault(metric, seen) # "INVALID_METRIC"
    BY ResolveIs DEF AggregateFault, Fine
  <1> QED BY <1>1 DEF MetricFault
-----------------------------------------------------------------------------
(* A request for a query keeps its lists, and what compiles has no fault     *)

Handling == {"require", "row", "file", "columns", "compile", "run", "count"}
Analysing == {"owner", "list", "assert", "statement"}

QueryInv ==
    /\ via # "workspace" => form \in Forms /\ "call" \notin DOMAIN form
    /\ pc \in Analysing => via = "workspace"
    /\ pc \in Handling => via # "workspace"
    /\ via # "workspace" /\ pc # "form" => IsQuery(query)
    /\ plan # Null => /\ pc \in {"run", "count", "done"} /\ via # "workspace"
                      /\ QueryFault(query, loads) = Fine
                      /\ plan = Compile(query, loads)
    /\ pc \in {"run", "count"} => QueryFault(query, loads) = Fine /\ plan = Compile(query, loads)
    /\ answer # Null => pc = "done"
    /\ via # "workspace" /\ Rejected /\ answer.code = "INVALID_METRIC"
          => QueryFault(query, loads) = "INVALID_METRIC"

\* A list whose names are trimmed is as long, and has what is no name as before.
LEMMA SpeltIs ==
    ASSUME NEW list, list \in Seq(Range(list)), NEW fields
    PROVE  /\ SpeltAll(list, fields) \in Seq(Range(SpeltAll(list, fields)))
           /\ DOMAIN SpeltAll(list, fields) = DOMAIN list
           /\ Len(SpeltAll(list, fields)) = Len(list)
           /\ \A i \in DOMAIN list : \A field \in DOMAIN list[i] \ fields :
                 SpeltAll(list, fields)[i][field] = list[i][field]
           /\ \A i \in DOMAIN list : \A field \in DOMAIN list[i] :
                 list[i][field] \notin DOMAIN Spelling =>
                    SpeltAll(list, fields)[i][field] = list[i][field]
           /\ \A i \in DOMAIN list : DOMAIN SpeltAll(list, fields)[i] = DOMAIN list[i]
  <1>1. Len(list) \in Nat /\ DOMAIN list = 1..Len(list)
    OBVIOUS
  <1>2. /\ DOMAIN SpeltAll(list, fields) = 1..Len(list)
        /\ SpeltAll(list, fields)
              = [i \in DOMAIN SpeltAll(list, fields) |-> SpeltAll(list, fields)[i]]
        /\ \A i \in DOMAIN list : SpeltAll(list, fields)[i] = Spelt(list[i], fields)
    BY <1>1 DEF SpeltAll
  <1>3. /\ SpeltAll(list, fields) \in Seq(Range(SpeltAll(list, fields)))
        /\ Len(SpeltAll(list, fields)) = Len(list)
    BY <1>1, <1>2, ListOf
  <1>4. ASSUME NEW i \in DOMAIN list
        PROVE  /\ DOMAIN SpeltAll(list, fields)[i] = DOMAIN list[i]
               /\ \A field \in DOMAIN list[i] : SpeltAll(list, fields)[i][field]
                    = IF field \in fields THEN Kept(list[i][field]) ELSE list[i][field]
    BY <1>2 DEF Spelt
  <1>5. \A name : name \notin DOMAIN Spelling => Kept(name) = name
    BY DEF Kept
  <1> QED BY <1>1, <1>2, <1>3, <1>4, <1>5

\* It is the same list, when it is a list of records and none of its names is trimmed.
LEMMA SpeltSame ==
    ASSUME NEW list, list \in Seq(Range(list)), NEW fields,
           \A i \in DOMAIN list : /\ list[i] = [field \in DOMAIN list[i] |-> list[i][field]]
                                  /\ \A field \in fields \cap DOMAIN list[i] :
                                        list[i][field] \notin DOMAIN Spelling
    PROVE  SpeltAll(list, fields) = list
  <1>1. ASSUME NEW i \in DOMAIN list PROVE Spelt(list[i], fields) = list[i]
    BY DEF Spelt, Kept
  <1>2. SpeltAll(list, fields) = [i \in DOMAIN list |-> list[i]]
    BY <1>1 DEF SpeltAll
  <1> QED BY <1>2

\* The body of a request is lists, whoever wrote it.
LEMMA ParsedIsQuery ==
    ASSUME NEW f \in Forms, "call" \notin DOMAIN f
    PROVE  IsQuery(Parsed(BuildDataMartQuery(f))) /\ IsQuery(Parsed(ApiBody(f)))
  <1> DEFINE Lists == {"joins", "dimensions", "metrics", "filters"}
             body == BuildDataMartQuery(f)
             kept == {i \in DOMAIN f.dimensions : f.dimensions[i].column # "none"}
             shown == {i \in DOMAIN f.metrics : f.metrics[i].column # "none"}
                        \cup {i \in DOMAIN f.metrics : f.metrics[i].formula # <<>>}
             q == Parsed(body)
             wish == ApiBody(f)
             r == Parsed(wish)
  <1>1. /\ \A field \in {"datasets", "joins", "dimensions", "metrics", "filters", "sorts"} :
              field \in DOMAIN f /\ f[field] \in Seq(Range(f[field]))
        /\ "sort" \notin DOMAIN f
        /\ \A i \in DOMAIN f.metrics : /\ "formula" \in DOMAIN f.metrics[i]
                                       /\ f.metrics[i].formula \in Seq(STRING)
    BY FormsAreLists
  <1>2. /\ DOMAIN body = DOMAIN f
        /\ body["dimensions"] = Picked(f.dimensions, kept)
        /\ body["metrics"] = Picked(f.metrics, shown)
        /\ body["joins"] = f["joins"] /\ body["filters"] = f["filters"]
    BY <1>1 DEF BuildDataMartQuery
  <1>3. /\ DOMAIN wish = (DOMAIN f \ {"sorts"}) \cup {"sort"}
        /\ \A field \in Lists : wish[field] = f[field]
        /\ wish["sort"] = f["sorts"]
    BY <1>1 DEF ApiBody
  <1> HIDE DEF body, wish
  <1> DEFINE SpeltIn(list, field) == SpeltAll(list[field], Named[field])
  <1>4. /\ DOMAIN q = (DOMAIN f \ {"sorts"}) \cup {"sort"}
        /\ \A field \in Lists : q[field] = SpeltIn(body, field)
        /\ q["sort"] = <<>>
    BY <1>1, <1>2 DEF Parsed, Named
  <1>5. /\ DOMAIN r = (DOMAIN f \ {"sorts"}) \cup {"sort"}
        /\ \A field \in Lists : r[field] = SpeltIn(f, field)
        /\ r["sort"] = SpeltAll(f["sorts"], Named["sort"])
    BY <1>1, <1>3 DEF Parsed, Named
  <1> HIDE DEF q, r, kept, shown, SpeltIn
  <1>6. /\ body["dimensions"] \in Seq(Range(body["dimensions"]))
        /\ body["metrics"] \in Seq(Range(body["metrics"]))
        /\ Range(body["metrics"]) \subseteq Range(f.metrics)
    <2>1. f.dimensions \in Seq(Range(f.dimensions)) /\ f.metrics \in Seq(Range(f.metrics))
      BY <1>1
    <2>2. Picked(f.dimensions, kept) \in Seq(Range(Picked(f.dimensions, kept)))
      BY <2>1, PickedIs
    <2>3. /\ Picked(f.metrics, shown) \in Seq(Range(Picked(f.metrics, shown)))
          /\ Range(Picked(f.metrics, shown)) = {f.metrics[i] : i \in shown \cap DOMAIN f.metrics}
      BY <2>1, PickedIs
    <2>4. Range(Picked(f.metrics, shown)) \subseteq Range(f.metrics)
      BY <2>3 DEF Range
    <2> QED BY <1>2, <2>2, <2>3, <2>4
  <1>7. ASSUME NEW list \in {body, f}, NEW field \in Lists
        PROVE  SpeltIn(list, field) \in Seq(Range(SpeltIn(list, field)))
    <2>1. list[field] \in Seq(Range(list[field]))
      BY <1>1, <1>2, <1>6
    <2> QED BY <2>1, SpeltIs DEF SpeltIn
  <1>8. ASSUME NEW list \in {body, f}
        PROVE  \A i \in DOMAIN SpeltIn(list, "metrics") :
                  SpeltIn(list, "metrics")[i].formula \in Seq(STRING)
    <2> DEFINE metrics == list["metrics"]
               fields == Named["metrics"]
    <2>1. metrics \in Seq(Range(metrics)) /\ Range(metrics) \subseteq Range(f.metrics)
      BY <1>1, <1>6
    <2>2. \A i \in DOMAIN metrics : metrics[i] \in Range(f.metrics)
      BY <2>1 DEF Range
    <2>3. \A i \in DOMAIN metrics : /\ "formula" \in DOMAIN metrics[i]
                                    /\ metrics[i].formula \in Seq(STRING)
      BY <1>1, <2>2 DEF Range
    <2>4. "formula" \notin fields
      BY DEF Named
    <2> HIDE DEF metrics, fields
    <2>5. \A i \in DOMAIN SpeltAll(metrics, fields) :
             SpeltAll(metrics, fields)[i].formula \in Seq(STRING)
      BY <2>1, <2>3, <2>4, SpeltIs
    <2> QED BY <2>5 DEF SpeltIn, metrics, fields
  <1>9. IsQuery(q)
    <2>1. \A field \in {"joins", "dimensions", "metrics", "filters", "sort"} : field \in DOMAIN q
      BY <1>1, <1>4
    <2>2. \A field \in Lists : q[field] \in Seq(Range(q[field]))
      BY <1>4, <1>7
    <2>3. q["sort"] \in Seq(Range(q["sort"]))
      BY <1>4
    <2>4. \A i \in DOMAIN q.metrics : q.metrics[i].formula \in Seq(STRING)
      BY <1>4, <1>8
    <2> QED BY <2>1, <2>2, <2>3, <2>4 DEF IsQuery
  <1>10. IsQuery(r)
    <2>1. \A field \in {"joins", "dimensions", "metrics", "filters", "sort"} : field \in DOMAIN r
      BY <1>1, <1>5
    <2>2. r["sort"] \in Seq(Range(r["sort"]))
      BY <1>1, <1>5, SpeltIs
    <2> QED BY <1>5, <1>7, <1>8, <2>1, <2>2 DEF IsQuery
  <1> QED BY <1>9, <1>10 DEF q, r, body, wish

LEMMA QueryInit == Init => QueryInv
  <1> SUFFICES ASSUME Init PROVE QueryInv
    OBVIOUS
  <1>1. via # "workspace" => form \in Forms /\ "call" \notin DOMAIN form
    BY DEF Init
  <1> QED BY <1>1 DEF Init, QueryInv, Rejected, Handling, Analysing

\* A step that leaves the request and its answer alone
LEMMA QueryStands ==
    ASSUME QueryInv, pc = "form" \/ IsQuery(query) \/ via = "workspace",
           UNCHANGED <<form, via, pc, query, loads, plan, answer>>
    PROVE  QueryInv'
  BY DEF QueryInv, Rejected, Handling, Analysing

\* A refusal by anyone but the compiler
LEMMA QueryRefused ==
    ASSUME QueryInv, NEW code, Refuse(code), pc # "done",
           code = "INVALID_METRIC" => via = "workspace" \/ QueryFault(query, loads) = code,
           plan # Null => UNCHANGED loads, pc # "form",
           UNCHANGED <<form, via, query, plan>>, via = "workspace" \/ UNCHANGED loads
    PROVE  QueryInv'
  BY DEF QueryInv, Rejected, Handling, Analysing, Refuse

\* A step of a query that answers nothing yet
LEMMA QueryGoesOn ==
    ASSUME QueryInv, pc \in Handling, pc' \in Handling,
           plan # Null => pc' \in {"run", "count"} /\ UNCHANGED loads,
           pc' \in {"run", "count"} => pc \in {"run", "count"} /\ UNCHANGED loads,
           UNCHANGED <<form, via, query, plan, answer>>
    PROVE  QueryInv'
  BY DEF QueryInv, Rejected, Handling, Analysing

LEMMA QueryNext == QueryInv /\ [Next]_vars => QueryInv'
  <1> SUFFICES ASSUME QueryInv, [Next]_vars PROVE QueryInv'
    OBVIOUS
  <1>1. CASE RunInStudio
    <2>1. /\ via = "studio" /\ pc = "form" /\ UNCHANGED <<form, via, loads, plan>>
          /\ query' = Parsed(BuildDataMartQuery(form))
          /\ \/ pc' = "require" /\ UNCHANGED answer
             \/ Refuse("VALIDATION_ERROR")
      BY <1>1 DEF RunInStudio, Send
    <2>2. IsQuery(query')
      BY <2>1, ParsedIsQuery DEF QueryInv
    <2> QED BY <2>1, <2>2 DEF QueryInv, Rejected, Handling, Analysing, Refuse
  <1>2. CASE CallApi
    <2>1. /\ via = "api" /\ pc = "form" /\ UNCHANGED <<form, via, loads, plan>>
          /\ query' = Parsed(ApiBody(form))
          /\ \/ pc' = "require" /\ UNCHANGED answer
             \/ Refuse("VALIDATION_ERROR")
      BY <1>2 DEF CallApi, Send
    <2>2. IsQuery(query')
      BY <2>1, ParsedIsQuery DEF QueryInv
    <2> QED BY <2>1, <2>2 DEF QueryInv, Rejected, Handling, Analysing, Refuse
  <1>3. CASE RequireDataset
    <2>1. /\ pc = "require" /\ UNCHANGED <<form, via, query, loads, plan>>
          /\ \/ \E code \in {"DATASET_NOT_FOUND", "NOT_READY"} : Refuse(code)
             \/ pc' = "row" /\ UNCHANGED answer
      BY <1>3 DEF RequireDataset, Usable
    <2> QED BY <2>1, QueryGoesOn, QueryRefused DEF Handling, QueryInv
  <1>4. CASE LoadSchema
    <2>1. /\ pc = "row" /\ UNCHANGED <<form, via, query, loads, plan>>
          /\ \/ \E code \in {"DATASET_NOT_FOUND", "NOT_READY"} : Refuse(code)
             \/ pc' = "file" /\ UNCHANGED answer
      BY <1>4 DEF LoadSchema, Usable
    <2> QED BY <2>1, QueryGoesOn, QueryRefused DEF Handling, QueryInv
  <1>5. CASE AcquireLocalPath
    <2>1. /\ pc = "file" /\ UNCHANGED <<form, via, query, loads, plan>>
          /\ Refuse("INTERNAL_ERROR") \/ (pc' = "columns" /\ UNCHANGED answer)
      BY <1>5 DEF AcquireLocalPath
    <2> QED BY <2>1, QueryGoesOn, QueryRefused DEF Handling, QueryInv
  <1>6. CASE ListColumns
    <2>1. /\ pc = "columns" /\ pc' \in {"compile", "row"}
          /\ UNCHANGED <<form, via, query, plan, answer>>
      BY <1>6 DEF ListColumns
    <2>2. plan = Null
      BY <2>1 DEF QueryInv
    <2> QED BY <2>1, <2>2, QueryGoesOn DEF Handling
  <1>7. CASE CompileQuery
    <2>1. pc = "compile" /\ UNCHANGED <<form, via, query, loads>>
      BY <1>7 DEF CompileQuery
    <2>2. plan = Null /\ answer = Null /\ via # "workspace" /\ IsQuery(query)
      BY <2>1 DEF QueryInv, Handling
    <2>3. CASE QueryFault(query, loads) = Fine
      <3>1. plan' = Compile(query, loads) /\ pc' = "run" /\ UNCHANGED answer
        BY <1>7, <2>3 DEF CompileQuery
      <3> QED BY <2>1, <2>2, <2>3, <3>1 DEF QueryInv, Rejected, Handling, Analysing
    <2>4. CASE QueryFault(query, loads) # Fine
      <3>1. Refuse(QueryFault(query, loads)) /\ UNCHANGED plan
        BY <1>7, <2>4 DEF CompileQuery
      <3> QED BY <2>1, <2>2, <3>1, QueryRefused
    <2> QED BY <2>3, <2>4
  <1>8. CASE RunData
    <2>1. /\ pc = "run" /\ UNCHANGED <<form, via, query, loads, plan>>
          /\ \/ \E page \in Pages(plan) :
                   Answer(page, ClampOffset(query.offset) + Len(page))
             \/ pc' = "count" /\ UNCHANGED answer
             \/ Refuse("QUERY_FAILED")
      BY <1>8 DEF RunData
    <2>2. ASSUME NEW page, NEW total, Answer(page, total) PROVE QueryInv'
      <3>1. pc' = "done" /\ answer'.kind = "rows"
        BY <2>2 DEF Answer
      <3> QED BY <2>1, <3>1 DEF QueryInv, Rejected, Handling, Analysing
    <2> QED BY <2>1, <2>2, QueryGoesOn, QueryRefused DEF Handling, QueryInv
  <1>9. CASE RunCount
    <2>1. /\ pc = "count" /\ UNCHANGED <<form, via, query, loads, plan>>
          /\ pc' = "done" /\ answer'.kind = "rows"
      BY <1>9 DEF RunCount, Answer
    <2> QED BY <2>1 DEF QueryInv, Rejected, Handling, Analysing
  <1>10. CASE AskAnalysis
    <2>1. /\ via = "workspace" /\ pc = "form" /\ pc' = "owner"
          /\ UNCHANGED <<form, via, loads, plan, answer>>
      BY <1>10 DEF AskAnalysis
    <2> QED BY <2>1 DEF QueryInv, Rejected, Handling, Analysing
  <1>11. CASE RequireDatasetOwner
    <2>1. /\ pc = "owner" /\ UNCHANGED <<form, via, query, plan>>
          /\ Refuse("DATASET_NOT_FOUND") \/ (pc' = "list" /\ UNCHANGED answer)
      BY <1>11 DEF RequireDatasetOwner
    <2>2. via = "workspace" /\ plan = Null
      BY <2>1 DEF QueryInv, Analysing
    <2> QED BY <2>1, <2>2 DEF QueryInv, Rejected, Handling, Analysing, Refuse
  <1>12. CASE ListAnalysed
    <2>1. /\ pc = "list" /\ pc' = "assert" /\ UNCHANGED <<form, via, query, plan, answer>>
      BY <1>12 DEF ListAnalysed
    <2> QED BY <2>1 DEF QueryInv, Rejected, Handling, Analysing
  <1>13. CASE AssertReady
    <2>1. /\ pc = "assert" /\ UNCHANGED <<form, via, query, loads, plan>>
          /\ \/ \E code \in {"NOT_READY", "INTERNAL_ERROR"} : Refuse(code)
             \/ pc' = "statement" /\ UNCHANGED answer
      BY <1>13 DEF AssertReady
    <2> QED BY <2>1 DEF QueryInv, Rejected, Handling, Analysing, Refuse
  <1>14. CASE RunStatement
    <2>1. /\ pc = "statement" /\ UNCHANGED <<form, via, query, loads, plan>>
          /\ \/ pc' = "done"
             \/ pc' \in {"assert", "statement"} /\ UNCHANGED answer
      BY <1>14 DEF RunStatement, ServeCall, Refuse
    <2> QED BY <2>1 DEF QueryInv, Rejected, Handling, Analysing
  <1>15. CASE \E d \in Range(form.datasets) : DeleteObject(d) \/ FinishProcessing(d)
    <2>1. UNCHANGED <<form, via, pc, query, loads, plan, answer>>
      BY <1>15 DEF DeleteObject, FinishProcessing, serving
    <2> QED BY <2>1, QueryStands DEF QueryInv
  <1>16. CASE \E i \in DOMAIN deletions : ReleaseLocalPath(i) \/ DeleteRow(i)
    <2>1. UNCHANGED <<form, via, pc, query, loads, plan, answer>>
      BY <1>16 DEF ReleaseLocalPath, DeleteRow, serving
    <2> QED BY <2>1, QueryStands DEF QueryInv
  <1>17. CASE UNCHANGED vars
    <2>1. UNCHANGED <<form, via, pc, query, loads, plan, answer>>
      BY <1>17 DEF vars, serving
    <2> QED BY <2>1, QueryStands DEF QueryInv
  <1> QED BY <1>1, <1>2, <1>3, <1>4, <1>5, <1>6, <1>7, <1>8, <1>9, <1>10, <1>11, <1>12,
             <1>13, <1>14, <1>15, <1>16, <1>17 DEF Next

LEMMA InvReads == QueryInv => FormulaIsRead
  <1> SUFFICES ASSUME QueryInv PROVE FormulaIsRead
    OBVIOUS
  <1> DEFINE context == FormulaContext(loads)
             grouped == query.dimensions # <<>>
             fitting(f) == FormulaFits(f, context, grouped)
             written == {i \in DOMAIN query.metrics : query.metrics[i].formula # <<>>}
  <1>1. ASSUME IsQuery(query), NEW i \in written
        PROVE  /\ query.metrics[i].formula \in Seq(STRING)
               /\ MetricFault(query.metrics[i], loads, grouped)
                    = FormulaFault(query.metrics[i].formula, loads, grouped)
    BY <1>1, MetricFaultIs DEF IsQuery
  <1>2. ASSUME plan # Null, NEW i \in written
        PROVE  LET f == query.metrics[i].formula
               IN  fitting(f) /\ (Plain(f) => plan.values[i] = Meaning(f))
    <2> DEFINE f == query.metrics[i].formula
    <2>1. IsQuery(query) /\ QueryFault(query, loads) = Fine /\ plan = Compile(query, loads)
      BY <1>2 DEF QueryInv
    <2>2. f \in Seq(STRING) /\ FormulaFault(f, loads, grouped) = Fine
      BY <1>1, <2>1, QueryFaultIs
    <2>3. fitting(f) /\ ("count_distinct" \notin Range(f) => ToSql(Parse(f).tree) = Meaning(f))
      <3> HIDE DEF f
      <3> QED BY <2>2, FormulaFaultIs
    <2>4. plan.values[i] = ToSql(Parse(f).tree)
      BY <2>1 DEF Compile, Expression
    <2>5. Plain(f) => "count_distinct" \notin Range(f)
      BY DEF Plain
    <2> HIDE DEF f
    <2> QED BY <2>3, <2>4, <2>5 DEF f
  <1>3. ASSUME via # "workspace", Rejected, answer.code = "INVALID_METRIC"
        PROVE  \E i \in written : ~fitting(query.metrics[i].formula)
    <2>1. IsQuery(query) /\ QueryFault(query, loads) = "INVALID_METRIC"
      BY <1>3 DEF QueryInv, Rejected
    <2>2. PICK i \in DOMAIN query.metrics :
             MetricFault(query.metrics[i], loads, grouped) = "INVALID_METRIC"
      BY <2>1, InvalidMetricIs
    <2>3. i \in written
      BY <2>2, MetricFaultIs
    <2> DEFINE f == query.metrics[i].formula
    <2>4. f \in Seq(STRING) /\ FormulaFault(f, loads, grouped) = "INVALID_METRIC"
      BY <1>1, <2>1, <2>2, <2>3
    <2>5. ~fitting(f)
      <3> HIDE DEF f
      <3> QED BY <2>4, FormulaFaultIs
    <2> QED BY <2>3, <2>5
  <1>4. \A f : fitting(f) <=> /\ Meaning(f) # Malformed
                              /\ Fault(Meaning(f), context) = Fine
                              /\ query.dimensions = <<>> \/ ContainsAggregation(Meaning(f))
    BY DEF FormulaFits
  <1> HIDE DEF fitting, written
  <1> QED BY <1>2, <1>3, <1>4 DEF FormulaIsRead, written

\* Whatever is asked, a formula that is compiled means what it stands for, and a query is
\* refused for a metric only if one of its formulas does not fit (Parser, validate, toSql,
\* compile of the query).
THEOREM FormulasAreRead == Spec => []FormulaIsRead
  <1> QED BY QueryInit, QueryNext, InvReads, PTL DEF Spec
-----------------------------------------------------------------------------
(* The parser reads for ever only behind a bracket that is never closed      *)

Opens(tokens, i) ==
    IF i <= Len(tokens) THEN Depth(tokens)[Len(tokens)] > Depth(tokens)[i - 1]
    ELSE tokens[Len(tokens)] = "("

OverflowOpens(tokens, i) ==
    LET P == Parsing(tokens)[i]
    IN  /\ P.factor.out = "overflow" => Opens(tokens, i)
        /\ P.term.out = "overflow" => Opens(tokens, i)
        /\ P.expr.out = "overflow" => Opens(tokens, i)
        /\ P.products.out = "overflow" => i <= Len(tokens) /\ Opens(tokens, i)
        /\ P.sums.out = "overflow" => i <= Len(tokens) /\ Opens(tokens, i)

LEMMA CallsEnd ==
    ASSUME NEW tokens, NEW i
    PROVE  /\ \A tree : Close(tokens, tree, i).out # "overflow"
           /\ \A fn : Call(tokens, fn, i).out # "overflow"
  <1>1. \A tree, a : Close(tokens, tree, a).out # "overflow"
    BY DEF Close, Found, Refused
  <1>2. ASSUME NEW fn PROVE Call(tokens, fn, i).out # "overflow"
    <2> DEFINE distinct == Peek(tokens, i + 1) = "distinct"
               arg == IF distinct THEN i + 2 ELSE i + 1
    <2>1. \/ Call(tokens, fn, i) = Refused
          \/ \E tree, a : Call(tokens, fn, i) = Close(tokens, tree, a)
      BY DEF Call
    <2>2. Refused.out # "overflow"
      BY DEF Refused
    <2> QED BY <1>1, <2>1, <2>2
  <1> QED BY <1>1, <1>2

LEMMA FactorOpens ==
    ASSUME NEW tokens \in Seq(STRING), tokens # <<>>, NEW i \in 1..(Len(tokens) + 1),
           i <= Len(tokens) => OverflowOpens(tokens, i + 1),
           Parsing(tokens)[i].factor.out = "overflow"
    PROVE  Opens(tokens, i)
  <1> DEFINE P == Parsing(tokens)
             n == Len(tokens)
             D == Depth(tokens)
             later == [j \in (i + 1)..(n + 1) |-> P[j]]
             t == Advance(tokens, i)
             inner == later[i + 1].expr
             read == P[i].factor
  <1>1. n \in Nat \ {0} /\ i \in Int
    OBVIOUS
  <1>2. read = Factor(tokens, i, later)
    BY RulesAre
  <1>3. /\ \A v, a : Found(v, a).out # "overflow"
        /\ Refused.out # "overflow" /\ "(" \notin Numbers
    BY DEF Found, Refused, Numbers
  <1>4. t = "(" /\ (i > n \/ inner.out = "overflow")
    <2>1. CASE t \in Numbers
      BY <1>2, <1>3, <2>1 DEF Factor
    <2>2. CASE t = "(" /\ ~(i > n)
      <3>1. read = IF inner.out # "found" THEN inner ELSE Close(tokens, inner.tree, inner.at)
        BY <1>2, <1>3, <2>2 DEF Factor
      <3> HIDE DEF inner
      <3> QED BY <2>2, <3>1, CallsEnd
    <2>3. CASE t \notin Numbers /\ t # "("
      <3>1. \/ read = Refused
            \/ read = Call(tokens, t, i + 1)
            \/ read = Found(Column(t), After(tokens, i))
        BY <1>2, <2>3 DEF Factor
      <3> QED BY <1>3, <3>1, CallsEnd
    <2> QED BY <1>3, <2>1, <2>2, <2>3
  <1>5. CASE i > n
    <2>1. ~(i <= n)
      BY <1>1, <1>5
    <2>2. t = tokens[n]
      BY <2>1 DEF Advance
    <2> QED BY <1>4, <2>1, <2>2 DEF Opens
  <1>6. CASE ~(i > n)
    <2>1. i <= n /\ i \in 1..n /\ i + 1 \in (i + 1)..(n + 1) /\ (i + 1) - 1 = i
          /\ n \in 0..n /\ i \in 0..n /\ i - 1 \in 0..n
      BY <1>1, <1>6
    <2>2. t = tokens[i] /\ inner = P[i + 1].expr
      BY <2>1 DEF Advance
    <2>3. D[i] = D[i - 1] + 1 /\ D[i] \in Int /\ D[i - 1] \in Int /\ D[n] \in Int
      BY <1>4, <2>1, <2>2, DepthIs DEF Bracket
    <2>4. Opens(tokens, i + 1)
      BY <1>4, <1>6, <2>1, <2>2 DEF OverflowOpens
    <2> HIDE DEF D
    <2>5. CASE i + 1 <= n
      <3>1. D[n] > D[i]
        BY <2>1, <2>4, <2>5 DEF Opens, D
      <3>2. D[n] > D[i - 1]
        BY <2>3, <3>1
      <3> QED BY <2>1, <3>2 DEF Opens, D
    <2>6. CASE ~(i + 1 <= n)
      <3>1. i = n
        BY <1>1, <2>1, <2>6
      <3>2. D[n] > D[i - 1]
        BY <2>3, <3>1
      <3> QED BY <2>1, <3>2 DEF Opens, D
    <2> QED BY <2>5, <2>6
  <1> QED BY <1>5, <1>6
\* A place that is reached without a bracket left open
LEMMA OpensBefore ==
    ASSUME NEW tokens \in Seq(STRING), NEW i \in 1..Len(tokens), NEW j \in 1..Len(tokens),
           Depth(tokens)[j - 1] = Depth(tokens)[i - 1], Opens(tokens, j)
    PROVE  Opens(tokens, i)
  BY DEF Opens

LEMMA ProductsOpens ==
    ASSUME NEW tokens \in Seq(STRING), tokens # <<>>, NEW i \in 1..(Len(tokens) + 1),
           \A q \in (i + 1)..(Len(tokens) + 1) : OverflowOpens(tokens, q),
           Parsing(tokens)[i].products.out = "overflow"
    PROVE  i <= Len(tokens) /\ Opens(tokens, i)
  <1> DEFINE P == Parsing(tokens)
             n == Len(tokens)
             D == Depth(tokens)
             loop == P[i].products
             right == P[i + 1].factor
             next == P[right.at].products
  <1>1. n \in Nat \ {0} /\ i \in Int
    OBVIOUS
  <1> HIDE DEF P
  <1>2. Peek(tokens, i) \in {"*", "/"}
    <2>1. SUFFICES ASSUME Peek(tokens, i) \notin {"*", "/"} PROVE FALSE
      OBVIOUS
    <2>2. loop = Loop(<<>>, i)
      BY <2>1, ProductsAre DEF P
    <2> QED BY <2>2 DEF Loop, P
  <1>3. /\ i \in 1..n /\ i + 1 \in 1..(n + 1) /\ i + 1 \in (i + 1)..(n + 1)
        /\ tokens[i] \in {"*", "/"} /\ (i + 1) - 1 = i /\ i <= n
        /\ right.out # "found" => loop = right
        /\ right.out = "found" =>
              /\ right.at \in (i + 1)..(n + 1)
              /\ loop.out = next.out
    <2>1. /\ i \in 1..n /\ i + 1 \in 1..(n + 1) /\ tokens[i] = Peek(tokens, i)
          /\ right.out # "found" => loop = right
          /\ right.out = "found" =>
                /\ right.at \in (i + 1)..(n + 1)
                /\ loop.out = next.out
      BY <1>2, ProductsAre DEF P
    <2>2. i + 1 \in (i + 1)..(n + 1) /\ (i + 1) - 1 = i /\ i <= n
      BY <1>1, <2>1
    <2> HIDE DEF loop, right, next
    <2> QED BY <1>2, <2>1, <2>2
  <1>4. D[i] = D[i - 1] /\ i \in 0..n
    <2>1. Bracket(tokens[i]) = 0
      BY <1>3 DEF Bracket
    <2>2. D[i - 1] \in Int /\ D[i] = D[i - 1] + Bracket(tokens[i])
      BY <1>3, DepthIs
    <2> QED BY <1>3, <2>1, <2>2
  <1>5. tokens[i] # "(" /\ tokens[i] \in Operators \cup {"("}
    BY <1>3 DEF Operators
  <1>6. CASE right.out # "found"
    <2>1. Opens(tokens, i + 1)
      BY <1>3, <1>6 DEF OverflowOpens, P
    <2>2. i + 1 \in 1..n
      <3>1. SUFFICES ASSUME ~(i + 1 <= n) PROVE FALSE
        BY <1>3
      <3>2. tokens[n] = "(" /\ i = n
        BY <1>1, <1>3, <2>1, <3>1 DEF Opens
      <3> QED BY <1>5, <3>2
    <2> QED BY <1>3, <1>4, <2>1, <2>2, OpensBefore
  <1>7. CASE right.out = "found"
    <2>1. i + 1 <= n
      <3>1. SUFFICES ASSUME ~(i + 1 <= n) PROVE FALSE
        OBVIOUS
      <3>2. i = n /\ tokens[n] \in Operators \cup {"("}
        BY <1>1, <1>3, <1>5, <3>1
      <3> QED BY <1>7, <3>2, NothingAtEnd DEF P
    <2>2. right.at > i + 1 /\ IsFactor(tokens, i + 1, right.at - 1)
      <3>1. RulesSound(tokens, i + 1)
        BY <1>3, RulesAreSound
      <3> QED BY <1>7, <2>1, <3>1 DEF RulesSound, FactorSound, P
    <2>3. /\ right.at - 1 \in 0..n /\ i + 1 \in 1..(n + 1)
          /\ right.at \in (i + 1)..(n + 1) /\ right.at \in 1..(n + 1)
      BY <1>1, <1>3, <1>7
    <2>4. D[right.at - 1] = D[i]
      <3>1. Good(tokens, i + 1, right.at - 1)
        BY <2>2, <2>3, MeaningGood DEF IsFactor
      <3> QED BY <1>3, <3>1 DEF Good, Balanced
    <2>5. right.at <= n /\ Opens(tokens, right.at)
      <3>1. next.out = "overflow"
        BY <1>3, <1>7 DEF P
      <3> QED BY <2>3, <3>1 DEF OverflowOpens, P
    <2>6. right.at \in 1..n
      BY <2>3, <2>5
    <2> QED BY <1>3, <1>4, <2>4, <2>5, <2>6, OpensBefore
  <1> QED BY <1>6, <1>7

LEMMA SumsOpens ==
    ASSUME NEW tokens \in Seq(STRING), tokens # <<>>, NEW i \in 1..(Len(tokens) + 1),
           \A q \in (i + 1)..(Len(tokens) + 1) : OverflowOpens(tokens, q),
           Parsing(tokens)[i].sums.out = "overflow"
    PROVE  i <= Len(tokens) /\ Opens(tokens, i)
  <1> DEFINE P == Parsing(tokens)
             n == Len(tokens)
             D == Depth(tokens)
             loop == P[i].sums
             right == P[i + 1].term
             next == P[right.at].sums
  <1>1. n \in Nat \ {0} /\ i \in Int
    OBVIOUS
  <1> HIDE DEF P
  <1>2. Peek(tokens, i) \in {"+", "-"}
    <2>1. SUFFICES ASSUME Peek(tokens, i) \notin {"+", "-"} PROVE FALSE
      OBVIOUS
    <2>2. loop = Loop(<<>>, i)
      BY <2>1, SumsAre DEF P
    <2> QED BY <2>2 DEF Loop, P
  <1>3. /\ i \in 1..n /\ i + 1 \in 1..(n + 1) /\ i + 1 \in (i + 1)..(n + 1)
        /\ tokens[i] \in {"+", "-"} /\ (i + 1) - 1 = i /\ i <= n
        /\ right.out # "found" => loop = right
        /\ right.out = "found" =>
              /\ right.at \in (i + 1)..(n + 1)
              /\ loop.out = next.out
    <2>1. /\ i \in 1..n /\ i + 1 \in 1..(n + 1) /\ tokens[i] = Peek(tokens, i)
          /\ right.out # "found" => loop = right
          /\ right.out = "found" =>
                /\ right.at \in (i + 1)..(n + 1)
                /\ loop.out = next.out
      BY <1>2, SumsAre DEF P
    <2>2. i + 1 \in (i + 1)..(n + 1) /\ (i + 1) - 1 = i /\ i <= n
      BY <1>1, <2>1
    <2> HIDE DEF loop, right, next
    <2> QED BY <1>2, <2>1, <2>2
  <1>4. D[i] = D[i - 1] /\ i \in 0..n
    <2>1. Bracket(tokens[i]) = 0
      BY <1>3 DEF Bracket
    <2>2. D[i - 1] \in Int /\ D[i] = D[i - 1] + Bracket(tokens[i])
      BY <1>3, DepthIs
    <2> QED BY <1>3, <2>1, <2>2
  <1>5. tokens[i] # "(" /\ tokens[i] \in Operators \cup {"("}
    BY <1>3 DEF Operators
  <1>6. CASE right.out # "found"
    <2>1. Opens(tokens, i + 1)
      BY <1>3, <1>6 DEF OverflowOpens, P
    <2>2. i + 1 \in 1..n
      <3>1. SUFFICES ASSUME ~(i + 1 <= n) PROVE FALSE
        BY <1>3
      <3>2. tokens[n] = "(" /\ i = n
        BY <1>1, <1>3, <2>1, <3>1 DEF Opens
      <3> QED BY <1>5, <3>2
    <2> QED BY <1>3, <1>4, <2>1, <2>2, OpensBefore
  <1>7. CASE right.out = "found"
    <2>1. i + 1 <= n
      <3>1. SUFFICES ASSUME ~(i + 1 <= n) PROVE FALSE
        OBVIOUS
      <3>2. i = n /\ tokens[n] \in Operators \cup {"("}
        BY <1>1, <1>3, <1>5, <3>1
      <3> QED BY <1>7, <3>2, NothingAtEnd DEF P
    <2>2. right.at > i + 1 /\ IsTerm(tokens, i + 1, right.at - 1)
      <3>1. RulesSound(tokens, i + 1)
        BY <1>3, RulesAreSound
      <3> QED BY <1>7, <2>1, <3>1 DEF RulesSound, TermSound, P
    <2>3. /\ right.at - 1 \in 0..n /\ i + 1 \in 1..(n + 1)
          /\ right.at \in (i + 1)..(n + 1) /\ right.at \in 1..(n + 1)
      BY <1>1, <1>3, <1>7
    <2>4. D[right.at - 1] = D[i]
      <3>1. Good(tokens, i + 1, right.at - 1)
        BY <2>2, <2>3, MeaningGood DEF IsTerm
      <3> QED BY <1>3, <3>1 DEF Good, Balanced
    <2>5. right.at <= n /\ Opens(tokens, right.at)
      <3>1. next.out = "overflow"
        BY <1>3, <1>7 DEF P
      <3> QED BY <2>3, <3>1 DEF OverflowOpens, P
    <2>6. right.at \in 1..n
      BY <2>3, <2>5
    <2> QED BY <1>3, <1>4, <2>4, <2>5, <2>6, OpensBefore
  <1> QED BY <1>6, <1>7

LEMMA TermOpens ==
    ASSUME NEW tokens \in Seq(STRING), tokens # <<>>, NEW i \in 1..(Len(tokens) + 1),
           \A q \in (i + 1)..(Len(tokens) + 1) : OverflowOpens(tokens, q),
           Parsing(tokens)[i].factor.out = "overflow" => Opens(tokens, i),
           Parsing(tokens)[i].products.out = "overflow" => i <= Len(tokens),
           Parsing(tokens)[i].term.out = "overflow"
    PROVE  Opens(tokens, i)
  <1> DEFINE P == Parsing(tokens)
             n == Len(tokens)
             D == Depth(tokens)
             left == P[i].factor
             loop == P[left.at].products
  <1> SUFFICES ASSUME left.out = "found" PROVE Opens(tokens, i)
    <2>1. P[i].term = IF left.out # "found" THEN left ELSE Resume(left.tree, loop)
      BY RulesAre
    <2> HIDE DEF loop, P
    <2> QED BY <2>1 DEF P
  <1>1. n \in Nat \ {0} /\ i \in Int
    OBVIOUS
  <1>2. loop.out = "overflow"
    <2>1. P[i].term = Resume(left.tree, loop)
      BY RulesAre
    <2>2. Resume(left.tree, loop).out = "overflow"
      BY <2>1
    <2> HIDE DEF loop
    <2> QED BY <2>2 DEF Resume, Found
  <1>3. left.at \in i..(n + 1)
    <2>1. left \in Readings(tokens, i)
      BY ParserTypes DEF RulesTyped
    <2> HIDE DEF left
    <2> QED BY <2>1, ReadingIs
  <1> HIDE DEF P
  <1>4. CASE i <= n
    <2>1. left.at > i /\ IsFactor(tokens, i, left.at - 1)
      <3>1. RulesSound(tokens, i)
        BY RulesAreSound
      <3> QED BY <1>4, <3>1 DEF RulesSound, FactorSound, P
    <2>2. left.at \in (i + 1)..(n + 1) /\ left.at - 1 \in 0..n /\ i \in 1..n
      BY <1>1, <1>3, <1>4, <2>1
    <2>3. left.at <= n /\ Opens(tokens, left.at)
      BY <1>2, <2>2 DEF OverflowOpens, P
    <2>4. D[left.at - 1] = D[i - 1]
      <3>1. Good(tokens, i, left.at - 1)
        BY <2>1, <2>2, MeaningGood DEF IsFactor
      <3> QED BY <3>1 DEF Good, Balanced
    <2>5. left.at \in 1..n
      BY <2>2, <2>3
    <2> QED BY <2>2, <2>3, <2>4, <2>5, OpensBefore
  <1>5. CASE ~(i <= n)
    <2>1. left.at = i
      BY <1>1, <1>3, <1>5
    <2> QED BY <1>2, <1>5, <2>1 DEF P
  <1> QED BY <1>4, <1>5

LEMMA ExprOpens ==
    ASSUME NEW tokens \in Seq(STRING), tokens # <<>>, NEW i \in 1..(Len(tokens) + 1),
           \A q \in (i + 1)..(Len(tokens) + 1) : OverflowOpens(tokens, q),
           Parsing(tokens)[i].term.out = "overflow" => Opens(tokens, i),
           Parsing(tokens)[i].sums.out = "overflow" => i <= Len(tokens),
           Parsing(tokens)[i].expr.out = "overflow"
    PROVE  Opens(tokens, i)
  <1> DEFINE P == Parsing(tokens)
             n == Len(tokens)
             D == Depth(tokens)
             left == P[i].term
             loop == P[left.at].sums
  <1> SUFFICES ASSUME left.out = "found" PROVE Opens(tokens, i)
    <2>1. P[i].expr = IF left.out # "found" THEN left ELSE Resume(left.tree, loop)
      BY RulesAre
    <2> HIDE DEF loop, P
    <2> QED BY <2>1 DEF P
  <1>1. n \in Nat \ {0} /\ i \in Int
    OBVIOUS
  <1>2. loop.out = "overflow"
    <2>1. P[i].expr = Resume(left.tree, loop)
      BY RulesAre
    <2>2. Resume(left.tree, loop).out = "overflow"
      BY <2>1
    <2> HIDE DEF loop
    <2> QED BY <2>2 DEF Resume, Found
  <1>3. left.at \in i..(n + 1)
    <2>1. left \in Readings(tokens, i)
      BY ParserTypes DEF RulesTyped
    <2> HIDE DEF left
    <2> QED BY <2>1, ReadingIs
  <1> HIDE DEF P
  <1>4. CASE i <= n
    <2>1. left.at > i /\ IsTerm(tokens, i, left.at - 1)
      <3>1. RulesSound(tokens, i)
        BY RulesAreSound
      <3> QED BY <1>4, <3>1 DEF RulesSound, TermSound, P
    <2>2. left.at \in (i + 1)..(n + 1) /\ left.at - 1 \in 0..n /\ i \in 1..n
      BY <1>1, <1>3, <1>4, <2>1
    <2>3. left.at <= n /\ Opens(tokens, left.at)
      BY <1>2, <2>2 DEF OverflowOpens, P
    <2>4. D[left.at - 1] = D[i - 1]
      <3>1. Good(tokens, i, left.at - 1)
        BY <2>1, <2>2, MeaningGood DEF IsTerm
      <3> QED BY <3>1 DEF Good, Balanced
    <2>5. left.at \in 1..n
      BY <2>2, <2>3
    <2> QED BY <2>2, <2>3, <2>4, <2>5, OpensBefore
  <1>5. CASE ~(i <= n)
    <2>1. left.at = i
      BY <1>1, <1>3, <1>5
    <2> QED BY <1>2, <1>5, <2>1 DEF P
  <1> QED BY <1>4, <1>5

LEMMA OverflowIsOpen ==
    ASSUME NEW tokens \in Seq(STRING), tokens # <<>>
    PROVE  \A i \in 1..(Len(tokens) + 1) : OverflowOpens(tokens, i)
  <1> DEFINE n == Len(tokens)
             P == Parsing(tokens)
             S == {m \in Nat : m <= n => OverflowOpens(tokens, n + 1 - m)}
  <1>1. n \in Nat
    OBVIOUS
  <1>2. ASSUME NEW m \in Nat, \A l \in 0..(m - 1) : l \in S PROVE m \in S
    <2>1. SUFFICES ASSUME m <= n PROVE OverflowOpens(tokens, n + 1 - m)
      OBVIOUS
    <2> DEFINE i == n + 1 - m
    <2>2. i \in 1..(n + 1) /\ (i <= n => i + 1 \in (i + 1)..(n + 1))
      BY <1>1, <2>1
    <2>3. ASSUME NEW q \in (i + 1)..(n + 1) PROVE OverflowOpens(tokens, q)
      <3>1. n + 1 - q \in 0..(m - 1) /\ n + 1 - (n + 1 - q) = q /\ n + 1 - q <= n
        BY <1>1, <2>1, <2>2
      <3> QED BY <1>2, <3>1
    <2> HIDE DEF i, P
    <2>4. P[i].factor.out = "overflow" => Opens(tokens, i)
      BY <2>2, <2>3, FactorOpens DEF P
    <2>5. P[i].products.out = "overflow" => i <= n /\ Opens(tokens, i)
      BY <2>2, <2>3, ProductsOpens DEF P
    <2>6. P[i].sums.out = "overflow" => i <= n /\ Opens(tokens, i)
      BY <2>2, <2>3, SumsOpens DEF P
    <2>7. P[i].term.out = "overflow" => Opens(tokens, i)
      BY <2>2, <2>3, <2>4, <2>5, TermOpens DEF P
    <2>8. P[i].expr.out = "overflow" => Opens(tokens, i)
      BY <2>2, <2>3, <2>6, <2>7, ExprOpens DEF P
    <2>9. OverflowOpens(tokens, i)
      BY <2>4, <2>5, <2>6, <2>7, <2>8 DEF OverflowOpens, P
    <2> QED BY <2>9 DEF i
  <1>3. \A m \in Nat : m \in S
    <2> HIDE DEF S
    <2> QED BY <1>2, Induction
  <1>4. ASSUME NEW i \in 1..(n + 1) PROVE OverflowOpens(tokens, i)
    <2>1. n + 1 - i \in Nat /\ n + 1 - i <= n /\ n + 1 - (n + 1 - i) = i
      BY <1>1
    <2> QED BY <1>3, <2>1
  <1> QED BY <1>4

\* The depth of a formula is the number of its brackets that open less that of those
\* that close.
LEMMA DepthCounts ==
    ASSUME NEW tokens \in Seq(STRING)
    PROVE  Depth(tokens)[Len(tokens)] = Brackets(tokens, "(") - Brackets(tokens, ")")
  <1> DEFINE n == Len(tokens)
             D == Depth(tokens)
             Of(t, m) == {i \in 1..m : tokens[i] = t}
             S == {m \in 0..n : /\ IsFiniteSet(Of("(", m)) /\ IsFiniteSet(Of(")", m))
                                /\ D[m] = Cardinality(Of("(", m)) - Cardinality(Of(")", m))}
  <1>1. n \in Nat /\ DOMAIN tokens = 1..n
    OBVIOUS
  <1>2. 0 \in S
    <2>1. Of("(", 0) = {} /\ Of(")", 0) = {} /\ 0 \in 0..n
      BY <1>1
    <2> HIDE DEF Of, n
    <2>2. IsFiniteSet({}) /\ Cardinality({}) = 0
      BY FS_EmptySet
    <2> QED BY <2>1, <2>2, DepthIs
  <1>3. ASSUME NEW m \in 1..n, m - 1 \in S PROVE m \in S
    <2>1. /\ m \in 0..n /\ m - 1 \in 0..n /\ 1..m = (1..(m - 1)) \cup {m}
          /\ m \notin 1..(m - 1)
      BY <1>1
    <2>2. ASSUME NEW t \in {"(", ")"}
          PROVE  /\ IsFiniteSet(Of(t, m))
                 /\ Cardinality(Of(t, m - 1)) \in Nat
                 /\ Cardinality(Of(t, m))
                      = Cardinality(Of(t, m - 1)) + (IF tokens[m] = t THEN 1 ELSE 0)
      <3>1. IsFiniteSet(Of(t, m - 1))
        BY <1>3, <2>2
      <3>2. Of(t, m) = IF tokens[m] = t THEN Of(t, m - 1) \cup {m} ELSE Of(t, m - 1)
        BY <2>1
      <3>3. m \notin Of(t, m - 1)
        BY <2>1
      <3> HIDE DEF Of
      <3>4. /\ IsFiniteSet(Of(t, m - 1) \cup {m})
            /\ Cardinality(Of(t, m - 1) \cup {m}) = Cardinality(Of(t, m - 1)) + 1
        BY <3>1, <3>3, FS_AddElement
      <3>5. Cardinality(Of(t, m - 1)) \in Nat
        BY <3>1, FS_CardinalityType
      <3> QED BY <3>1, <3>2, <3>4, <3>5
    <2>3. D[m] = D[m - 1] + Bracket(tokens[m])
      BY DepthIs
    <2>4. D[m - 1] = Cardinality(Of("(", m - 1)) - Cardinality(Of(")", m - 1))
      BY <1>3
    <2> HIDE DEF Of, D
    <2>5. D[m] = Cardinality(Of("(", m)) - Cardinality(Of(")", m))
      BY <2>2, <2>3, <2>4 DEF Bracket
    <2> QED BY <2>1, <2>2, <2>5
  <1>4. n \in S
    <2> HIDE DEF S, n
    <2>1. \A m \in 0..n : m \in S
      BY <1>1, <1>2, <1>3, StepInduction
    <2> QED BY <1>1, <2>1
  <1>5. \A t : Of(t, n) = {i \in DOMAIN tokens : tokens[i] = t}
    BY <1>1
  <1> QED BY <1>4, <1>5 DEF Brackets

\* A formula with as many brackets that open as that close, which is what validateQuery
\* asks for, is read or refused: parseFactor, which takes the last token again at the end,
\* calls itself for ever only behind a bracket that is never closed.
THEOREM EqualBracketsEnd ==
    ASSUME NEW tokens \in Seq(STRING), Brackets(tokens, "(") = Brackets(tokens, ")")
    PROVE  Parse(tokens).out # "overflow"
  <1> DEFINE n == Len(tokens)
             read == Parsing(tokens)[1].expr
  <1>1. CASE tokens = <<>>
    BY <1>1 DEF Parse, Whole, Refused
  <1>2. CASE tokens # <<>>
    <2>1. n \in Nat \ {0} /\ 1 \in 1..(n + 1) /\ 1 <= n /\ 1 - 1 = 0 /\ n \in 0..n
      BY <1>2
    <2>2. Parse(tokens) \in {Refused, read}
      BY <1>2 DEF Parse, Whole
    <2>3. ASSUME read.out = "overflow" PROVE FALSE
      <3>1. Opens(tokens, 1)
        BY <1>2, <2>1, <2>3, OverflowIsOpen DEF OverflowOpens
      <3>2. Depth(tokens)[n] > 0
        BY <2>1, <3>1, DepthIs DEF Opens
      <3>3. Depth(tokens)[n] = Brackets(tokens, "(") - Brackets(tokens, "(")
        BY DepthCounts
      <3>4. Brackets(tokens, "(") \in Nat
        <4>1. IsFiniteSet({i \in 1..n : tokens[i] = "("})
          <5>1. IsFiniteSet(1..n) /\ {i \in 1..n : tokens[i] = "("} \subseteq 1..n
            BY <2>1, FS_Interval
          <5> QED BY <5>1, FS_Subset
        <4>2. {i \in DOMAIN tokens : tokens[i] = "("} = {i \in 1..n : tokens[i] = "("}
          OBVIOUS
        <4> QED BY <4>1, <4>2, FS_CardinalityType DEF Brackets
      <3> QED BY <3>2, <3>3, <3>4
    <2> QED BY <2>2, <2>3 DEF Refused
  <1> QED BY <1>1, <1>2
-----------------------------------------------------------------------------
(* The datasets of a query, loaded                                           *)

IsSelection(ds) ==
    /\ ds \in Seq(Range(ds))
    /\ Range(ds) \subseteq Range(Datasets)
    /\ \A i, j \in DOMAIN ds : i # j => ds[i] # ds[j]

Loaded(ds, m) == [i \in 1..m |-> [id |-> ds[i], types |-> Types[ds[i]]]]
Full(ds) == Loaded(ds, Len(ds))

OwnedBy(ds, name) == Cardinality({d \in Range(ds) : name \in DOMAIN Types[d]})

LEMMA LoadedIs ==
    ASSUME NEW ds, IsSelection(ds)
    PROVE  /\ Len(ds) \in Nat /\ DOMAIN ds = 1..Len(ds) /\ DOMAIN Full(ds) = 1..Len(ds)
           /\ \A i \in 1..Len(ds) : /\ ds[i] \in Range(ds) /\ ds[i] \in Range(Datasets)
                                    /\ Full(ds)[i].id = ds[i]
                                    /\ Full(ds)[i].types = Types[ds[i]]
           /\ {Full(ds)[i].id : i \in DOMAIN Full(ds)} = Range(ds)
           /\ \A i \in 1..Len(ds) : IndexOf(Full(ds), ds[i]) = i
           /\ \A name : Owners(Full(ds), name) = {i \in 1..Len(ds) : name \in DOMAIN Types[ds[i]]}
           /\ \A name : name \in Names(Full(ds)) <=> Owners(Full(ds), name) # {}
  <1> DEFINE n == Len(ds)
             full == Full(ds)
  <1>1. n \in Nat /\ DOMAIN ds = 1..n /\ \A i \in 1..n : ds[i] \in Range(ds)
    BY IsList DEF IsSelection
  <1>2. DOMAIN full = 1..n /\ \A i \in 1..n : full[i].id = ds[i] /\ full[i].types = Types[ds[i]]
    BY DEF Full, Loaded
  <1> HIDE DEF n, full
  <1>3. {full[i].id : i \in DOMAIN full} = Range(ds)
    <2>1. Range(ds) = {ds[i] : i \in 1..n}
      BY <1>1 DEF Range
    <2> QED BY <1>2, <2>1
  <1>4. ASSUME NEW i \in 1..n PROVE IndexOf(full, ds[i]) = i
    <2>1. \A j \in DOMAIN full : full[j].id = ds[i] <=> j = i
      BY <1>1, <1>2 DEF IsSelection
    <2> QED BY <1>2, <2>1 DEF IndexOf
  <1>5. ASSUME NEW name PROVE Owners(full, name) = {i \in 1..n : name \in DOMAIN Types[ds[i]]}
    BY <1>2 DEF Owners
  <1>6. ASSUME NEW name PROVE name \in Names(full) <=> Owners(full, name) # {}
    BY DEF Names, Owners
  <1>7. \A i \in 1..n : ds[i] \in Range(Datasets)
    BY <1>1 DEF IsSelection
  <1> QED BY <1>1, <1>2, <1>3, <1>4, <1>5, <1>6, <1>7 DEF n, full

\* How many datasets have a name, and what comes of it
LEMMA ResolveLoaded ==
    ASSUME NEW ds, IsSelection(ds), NEW name
    PROVE  LET full == Full(ds)
               resolved == Resolve(full, name)
           IN  /\ resolved = "COLUMN_NOT_FOUND" <=> name \notin Names(full)
               /\ resolved = "COLUMN_NOT_FOUND" => OwnedBy(ds, name) = 0
               /\ resolved = "AMBIGUOUS_COLUMN" => OwnedBy(ds, name) > 1
               /\ resolved = Fine =>
                     \E i \in 1..Len(ds) :
                        /\ Owners(full, name) = {i} /\ Min(Owners(full, name)) = i
                        /\ name \in DOMAIN Types[ds[i]]
                        /\ {d \in Range(ds) : name \in DOMAIN Types[d]} = {ds[i]}
                        /\ OwnedBy(ds, name) = 1
                        /\ TypeOf(full, name) = Types[ds[i]][name]
  <1> DEFINE n == Len(ds)
             full == Full(ds)
             owners == Owners(full, name)
             having == {d \in Range(ds) : name \in DOMAIN Types[d]}
  <1>1. /\ n \in Nat /\ DOMAIN ds = 1..n
        /\ owners = {i \in 1..n : name \in DOMAIN Types[ds[i]]}
        /\ name \in Names(full) <=> owners # {}
        /\ \A i \in 1..n : ds[i] \in Range(ds) /\ full[i].types = Types[ds[i]]
        /\ DOMAIN full = 1..n
    BY LoadedIs
  <1>2. Resolve(full, name) = CASE owners = {} -> "COLUMN_NOT_FOUND"
                                [] Cardinality(owners) > 1 -> "AMBIGUOUS_COLUMN"
                                [] OTHER -> Fine
    BY DEF Resolve
  <1>3. having = {ds[i] : i \in owners}
    BY <1>1 DEF Range
  <1>4. IsFiniteSet(owners) /\ owners \subseteq 1..n
    <2>1. owners \subseteq 1..n /\ IsFiniteSet(1..n)
      BY <1>1, FS_Interval
    <2> HIDE DEF owners
    <2> QED BY <2>1, FS_Subset
  <1>5. IsFiniteSet(having)
    <2>1. IsFiniteSet(Range(ds))
      <3>1. IsFiniteSet({ds[i] : i \in 1..n})
        <4>1. IsFiniteSet(1..n)
          BY <1>1, FS_Interval
        <4>2. ds \in Surjection(1..n, {ds[i] : i \in 1..n})
          <5>1. ds \in [1..n -> {ds[i] : i \in 1..n}]
            BY <1>1 DEF IsSelection
          <5> QED BY <5>1 DEF Surjection
        <4> QED BY <4>1, <4>2, FS_Surjection
      <3>2. Range(ds) = {ds[i] : i \in 1..n}
        BY <1>1 DEF Range
      <3> QED BY <3>1, <3>2
    <2>2. having \subseteq Range(ds)
      OBVIOUS
    <2> HIDE DEF having
    <2> QED BY <2>1, <2>2, FS_Subset
  <1>6. Cardinality(owners) \in Nat /\ Cardinality(having) \in Nat
    <2> HIDE DEF owners, having
    <2> QED BY <1>4, <1>5, FS_CardinalityType
  <1>7. OwnedBy(ds, name) = Cardinality(having)
    BY DEF OwnedBy
  <1>8. Fine # "COLUMN_NOT_FOUND" /\ Fine # "AMBIGUOUS_COLUMN"
    BY DEF Fine
  <1>9. TypeOf(full, name) = full[Min(owners)].types[name]
    BY DEF TypeOf
  <1>10. \A i, j \in 1..n : i # j => ds[i] # ds[j]
    BY <1>1 DEF IsSelection
  <1>11. \A i \in owners : name \in DOMAIN Types[ds[i]]
    BY <1>1
  <1> HIDE DEF owners, having, full
  <1>12. CASE owners = {}
    <2>1. having = {} /\ Cardinality(having) = 0 /\ Cardinality(owners) = 0
      BY <1>3, <1>12, FS_EmptySet
    <2>2. Resolve(full, name) = "COLUMN_NOT_FOUND"
      BY <1>2, <1>12, <2>1
    <2>3. name \notin Names(full) /\ OwnedBy(ds, name) = 0
      BY <1>1, <1>7, <1>12, <2>1 DEF full, owners
    <2> QED BY <1>8, <2>2, <2>3 DEF full
  <1>13. CASE owners # {} /\ Cardinality(owners) > 1
    <2>1. PICK i \in owners : TRUE
      BY <1>13
    <2>2. PICK j \in owners : j # i
      <3>1. SUFFICES ASSUME owners = {i} PROVE FALSE
        BY <2>1
      <3>2. Cardinality(owners) = 1
        BY <3>1, FS_Singleton
      <3> QED BY <1>13, <3>2
    <2>3. ds[i] \in having /\ ds[j] \in having /\ ds[i] # ds[j]
      BY <1>3, <1>4, <1>10, <2>2
    <2>4. Cardinality(having) # 0
      BY <1>5, <2>3, FS_EmptySet
    <2>5. Cardinality(having) # 1
      <3>1. SUFFICES ASSUME Cardinality(having) = 1 PROVE FALSE
        OBVIOUS
      <3>2. \E x : having = {x}
        BY <1>5, <3>1, FS_Singleton
      <3> QED BY <2>3, <3>2
    <2>6. Cardinality(having) > 1
      BY <1>6, <2>4, <2>5
    <2> QED BY <1>1, <1>2, <1>7, <1>8, <1>13, <2>6 DEF full, owners
  <1>14. CASE owners # {} /\ ~(Cardinality(owners) > 1)
    <2>1. Cardinality(owners) = 1
      <3>1. Cardinality(owners) # 0
        BY <1>4, <1>14, FS_EmptySet
      <3> QED BY <1>6, <1>14, <3>1
    <2>2. PICK i : owners = {i}
      BY <1>4, <2>1, FS_Singleton
    <2>3. i \in 1..n /\ i \in Nat
      BY <1>4, <2>2
    <2>4. Min(owners) = i
      <3>1. owners \in SUBSET Nat
        BY <2>2, <2>3
      <3> QED BY <2>2, <3>1, MinIsLeast
    <2>5. having = {ds[i]} /\ Cardinality(having) = 1
      <3>1. having = {ds[i]}
        BY <1>3, <2>2
      <3> QED BY <3>1, FS_Singleton
    <2>6. TypeOf(full, name) = Types[ds[i]][name] /\ name \in DOMAIN Types[ds[i]]
      BY <1>1, <1>9, <1>11, <2>2, <2>3, <2>4 DEF full
    <2>7. /\ owners = {i} /\ Min(owners) = i /\ having = {ds[i]} /\ OwnedBy(ds, name) = 1
      BY <1>7, <2>2, <2>4, <2>5
    <2>8. Resolve(full, name) = Fine /\ name \in Names(full)
      BY <1>1, <1>2, <1>14 DEF full, owners
    <2> QED BY <1>8, <2>3, <2>6, <2>7, <2>8 DEF full, owners, having
  <1> QED BY <1>12, <1>13, <1>14

\* What the studio knows of the names of a selection is what the compiler will.
LEMMA SourcesAre ==
    ASSUME NEW f, IsSelection(f.datasets)
    PROVE  LET full == Full(f.datasets)
               sources == Selected(f)
           IN  /\ Names(sources) = Names(full)
               /\ \A name : Resolve(full, name) = Fine =>
                     TypeOf(sources, name) = TypeOf(full, name)
  <1> DEFINE ds == f.datasets
             full == Full(ds)
             places == {i \in DOMAIN Datasets : Datasets[i] \in Range(ds)}
             listed == Picked(Datasets, places)
             sources == Selected(f)
             n == Len(listed)
  <1>0. IsSelection(ds)
    OBVIOUS
  <1>1. sources = [i \in DOMAIN listed |-> [id |-> listed[i], types |-> Types[listed[i]]]]
    BY DEF Selected
  <1>2. listed \in Seq(Range(listed)) /\ Range(listed) = {Datasets[i] : i \in places \cap DOMAIN Datasets}
    <2> HIDE DEF places
    <2> QED BY ColumnsHaveTypes, PickedIs
  <1>3. Range(listed) = Range(ds)
    <2>1. \A d \in Range(ds) : \E i \in DOMAIN Datasets : Datasets[i] = d
      BY DEF IsSelection, Range
    <2>2. {Datasets[i] : i \in places \cap DOMAIN Datasets} = Range(ds)
      BY <2>1
    <2> QED BY <1>2, <2>2
  <1> HIDE DEF listed, sources
  <1>4. n \in Nat /\ DOMAIN listed = 1..n
    BY <1>2
  <1>5. /\ \A d \in Range(ds) : \E i \in 1..n : listed[i] = d
        /\ \A i \in 1..n : listed[i] \in Range(ds)
    BY <1>3, <1>4 DEF Range
  <1>6. DOMAIN sources = 1..n /\ \A i \in 1..n : sources[i].types = Types[listed[i]]
    BY <1>1, <1>4
  <1>7. \A name : Owners(sources, name) = {i \in 1..n : name \in DOMAIN Types[listed[i]]}
    BY <1>6 DEF Owners
  <1>8. \A name : name \in Names(sources) <=> \E d \in Range(ds) : name \in DOMAIN Types[d]
    <2>1. ASSUME NEW name
          PROVE  name \in Names(sources) <=> \E i \in 1..n : name \in DOMAIN Types[listed[i]]
      <3>1. name \in Names(sources) <=> \E i \in DOMAIN sources : name \in DOMAIN sources[i].types
        BY DEF Names
      <3> QED BY <1>6, <3>1
    <2> QED BY <1>5, <2>1
  <1>9. \A name : name \in Names(full) <=> \E d \in Range(ds) : name \in DOMAIN Types[d]
    <2>1. /\ \A i \in 1..Len(ds) : ds[i] \in Range(ds)
          /\ \A d \in Range(ds) : \E i \in 1..Len(ds) : ds[i] = d
      BY LoadedIs DEF Range
    <2>2. ASSUME NEW name
          PROVE  name \in Names(full) <=> {i \in 1..Len(ds) : name \in DOMAIN Types[ds[i]]} # {}
      <3>1. Owners(full, name) = {i \in 1..Len(ds) : name \in DOMAIN Types[ds[i]]}
        BY <1>0, LoadedIs
      <3>2. name \in Names(full) <=> Owners(full, name) # {}
        BY <1>0, LoadedIs
      <3> QED BY <3>1, <3>2
    <2> HIDE DEF full
    <2> QED BY <2>1, <2>2
  <1>10. Names(sources) = Names(full)
    BY <1>8, <1>9
  <1>11. ASSUME NEW name, Resolve(full, name) = Fine
         PROVE  TypeOf(sources, name) = TypeOf(full, name)
    <2>1. PICK i \in 1..Len(ds) :
             /\ {d \in Range(ds) : name \in DOMAIN Types[d]} = {ds[i]}
             /\ TypeOf(full, name) = Types[ds[i]][name]
      BY <1>11, ResolveLoaded
    <2>2. Owners(sources, name) # {} /\ Owners(sources, name) \in SUBSET Nat
      <3>1. PICK j \in 1..n : listed[j] = ds[i]
        BY <1>5, <2>1
      <3>2. name \in DOMAIN Types[ds[i]]
        BY <2>1
      <3> QED BY <1>4, <1>7, <3>1, <3>2
    <2>3. Min(Owners(sources, name)) \in Owners(sources, name)
      BY <2>2, MinIsLeast
    <2> DEFINE j == Min(Owners(sources, name))
    <2>4. j \in 1..n /\ name \in DOMAIN Types[listed[j]]
      BY <1>7, <2>3
    <2>5. listed[j] = ds[i]
      BY <1>5, <2>1, <2>4
    <2>6. TypeOf(sources, name) = sources[j].types[name]
      BY DEF TypeOf
    <2> HIDE DEF j
    <2> QED BY <1>6, <2>1, <2>4, <2>5, <2>6
  <1> QED BY <1>10, <1>11 DEF sources

\* What a query from the studio is known to be: what validateQuery lets pass
Accepted(q) ==
    LET full == Full(q.datasets)
        Resolves(name) == Resolve(full, name) # "COLUMN_NOT_FOUND"
        Whenever(name, P) == Resolve(full, name) = Fine => P
    IN  /\ IsQuery(q) /\ IsSelection(q.datasets) /\ q.datasets # <<>>
        /\ q.sort = <<>> /\ q.metrics # <<>> /\ IsTree(q.filters)
        /\ \A i \in DOMAIN q.filters : IsGroup(q.filters[i]) \/ HasValues(q.filters[i])
        /\ q.limit \in 1..MaxLimit \cup {Junk} /\ q.offset \in 0..MaxOffset \cup {Junk}
        /\ \A i \in DOMAIN q.joins :
              /\ {q.joins[i].left, q.joins[i].right} \subseteq Range(q.datasets)
              /\ q.joins[i].leftColumn \in DOMAIN Types[q.joins[i].left]
              /\ q.joins[i].rightColumn \in DOMAIN Types[q.joins[i].right]
        /\ \A i \in DOMAIN q.dimensions :
              LET column == q.dimensions[i].column
              IN  /\ Resolves(column)
                  /\ q.dimensions[i].granularity # "none" =>
                        Whenever(column, IsDate(TypeOf(full, column)))
        /\ \A i \in DOMAIN q.metrics :
              LET metric == q.metrics[i]
              IN  IF metric.formula # <<>>
                  THEN Brackets(metric.formula, "(") = Brackets(metric.formula, ")")
                  ELSE /\ metric.column # "none" /\ metric.aggregation # "none"
                       /\ Resolves(metric.column)
                       /\ metric.aggregation \in NumericOnly =>
                             Whenever(metric.column, IsNumeric(TypeOf(full, metric.column)))

LEMMA StudioAccepts ==
    ASSUME NEW f \in Forms, "call" \notin DOMAIN f, ValidateQuery(f), ~Padded(f)
    PROVE  Accepted(Parsed(BuildDataMartQuery(f)))
  <1> DEFINE body == BuildDataMartQuery(f)
             kept == {i \in DOMAIN f.dimensions : f.dimensions[i].column # "none"}
             shown == {i \in DOMAIN f.metrics : f.metrics[i].column # "none"}
                        \cup {i \in DOMAIN f.metrics : f.metrics[i].formula # <<>>}
             q == Parsed(body)
             ds == f.datasets
             full == Full(ds)
             sources == Selected(f)
  <1>1. /\ \A field \in {"datasets", "joins", "dimensions", "metrics", "filters", "sorts"} :
              field \in DOMAIN f /\ f[field] \in Seq(Range(f[field]))
        /\ "sort" \notin DOMAIN f
        /\ IsTree(f.filters)
        /\ \A field \in {"joins", "dimensions", "metrics", "filters"} : \A i \in DOMAIN f[field] :
              f[field][i] = [name \in DOMAIN f[field][i] |-> f[field][i][name]]
        /\ \A i \in DOMAIN f.metrics :
              DOMAIN f.metrics[i] = {"alias", "column", "aggregation", "formula"}
        /\ {"limit", "offset"} \subseteq DOMAIN f
    BY FormsAreLists
  <1>21. \A i \in DOMAIN f.filters :
             IF IsGroup(f.filters[i]) THEN DOMAIN f.filters[i] = {"conjunction", "at"}
             ELSE HasValues(f.filters[i])
    BY FormsAreLists
  <1>2. IsSelection(ds)
    BY FormsAreLists DEF IsSelection
  <1>3. /\ DOMAIN body = DOMAIN f
        /\ body["dimensions"] = Picked(f.dimensions, kept)
        /\ body["metrics"] = Picked(f.metrics, shown)
        /\ body["joins"] = f["joins"] /\ body["filters"] = f["filters"]
        /\ body["datasets"] = f["datasets"]
    BY <1>1 DEF BuildDataMartQuery
  <1>4. IsQuery(q)
    BY ParsedIsQuery
  <1> HIDE DEF body
  <1>5. /\ body["limit"] = f["limit"] /\ body["offset"] = f["offset"]
        /\ \A field \in {"joins", "dimensions", "metrics", "filters"} :
              q[field] = SpeltAll(body[field], Named[field])
        /\ q["datasets"] = body["datasets"] /\ q["sort"] = <<>>
        /\ q["limit"] = f["limit"] /\ q["offset"] = f["offset"]
    <2>1. body["limit"] = f["limit"] /\ body["offset"] = f["offset"]
      BY <1>1 DEF BuildDataMartQuery, body
    <2> QED BY <1>1, <1>3, <2>1 DEF Parsed, Named
  <1> DEFINE metrics == Picked(f.metrics, shown)
  <1>18. ASSUME NEW field \in {"joins", "filters"}
         PROVE  q[field] = f[field]
    <2>1. CASE field = "joins"
      <3>1. \A i \in DOMAIN f.joins : /\ f.joins[i].leftColumn \notin DOMAIN Spelling
                                     /\ f.joins[i].rightColumn \notin DOMAIN Spelling
        BY DEF Padded
      <3>2. Named[field] = {"leftColumn", "rightColumn"}
        BY <2>1 DEF Named
      <3>3. /\ f.joins \in Seq(Range(f.joins))
            /\ \A i \in DOMAIN f.joins :
                  f.joins[i] = [name \in DOMAIN f.joins[i] |-> f.joins[i][name]]
        BY <1>1
      <3>4. SpeltAll(f.joins, {"leftColumn", "rightColumn"}) = f.joins
        <4> DEFINE list == f.joins
        <4>1. /\ list \in Seq(Range(list))
              /\ \A i \in DOMAIN list : list[i] = [name \in DOMAIN list[i] |-> list[i][name]]
          BY <3>3
        <4>2. \A i \in DOMAIN list :
                 \A name \in {"leftColumn", "rightColumn"} \cap DOMAIN list[i] :
                    list[i][name] \notin DOMAIN Spelling
          BY <3>1
        <4> HIDE DEF list
        <4>3. SpeltAll(list, {"leftColumn", "rightColumn"}) = list
          BY <4>1, <4>2, SpeltSame
        <4> QED BY <4>3 DEF list
      <3> QED BY <1>3, <1>5, <2>1, <3>2, <3>4
    <2>2. CASE field = "filters"
      <3>1. Named[field] = {"column"}
        BY <2>2 DEF Named
      <3>2. ASSUME NEW i \in DOMAIN f.filters, "column" \in DOMAIN f.filters[i],
                   IsGroup(f.filters[i])
            PROVE  f.filters[i].column \notin DOMAIN Spelling
        <4>1. DOMAIN f.filters[i] = {"conjunction", "at"}
          BY <1>21, <3>2
        <4> QED BY <3>2, <4>1
      <3>3. \A i \in DOMAIN f.filters : ~IsGroup(f.filters[i]) =>
               f.filters[i].column \notin DOMAIN Spelling
        BY DEF Padded, FilterColumns
      <3>4. /\ f.filters \in Seq(Range(f.filters))
            /\ \A i \in DOMAIN f.filters :
                  f.filters[i] = [name \in DOMAIN f.filters[i] |-> f.filters[i][name]]
        BY <1>1
      <3>5. SpeltAll(f.filters, {"column"}) = f.filters
        <4> DEFINE list == f.filters
        <4>1. /\ list \in Seq(Range(list))
              /\ \A i \in DOMAIN list : list[i] = [name \in DOMAIN list[i] |-> list[i][name]]
          BY <3>4
        <4>2. \A i \in DOMAIN list : \A name \in {"column"} \cap DOMAIN list[i] :
                 list[i][name] \notin DOMAIN Spelling
          BY <3>2, <3>3
        <4> HIDE DEF list
        <4>3. SpeltAll(list, {"column"}) = list
          BY <4>1, <4>2, SpeltSame
        <4> QED BY <4>3 DEF list
      <3> QED BY <1>3, <1>5, <2>2, <3>1, <3>5
    <2> QED BY <2>1, <2>2
  <1>6. /\ Range(q.dimensions) = {f.dimensions[i] : i \in kept \cap DOMAIN f.dimensions}
        /\ metrics \in Seq(Range(metrics))
        /\ Range(metrics) = {f.metrics[i] : i \in shown \cap DOMAIN f.metrics}
        /\ DOMAIN q.metrics = DOMAIN metrics
        /\ \A i \in DOMAIN metrics : \A field \in {"column", "aggregation", "formula"} :
              q.metrics[i][field] = metrics[i][field]
    <2> DEFINE dimensions == Picked(f.dimensions, kept)
    <2>1. f.dimensions \in Seq(Range(f.dimensions)) /\ f.metrics \in Seq(Range(f.metrics))
      BY <1>1
    <2>2. /\ q.dimensions = SpeltAll(dimensions, {"column"})
          /\ q.metrics = SpeltAll(metrics, {"column", "alias"})
      BY <1>3, <1>5 DEF Named
    <2> HIDE DEF kept, shown
    <2>3. /\ metrics \in Seq(Range(metrics)) /\ dimensions \in Seq(Range(dimensions))
          /\ Range(metrics) = {f.metrics[i] : i \in shown \cap DOMAIN f.metrics}
          /\ Range(dimensions) = {f.dimensions[i] : i \in kept \cap DOMAIN f.dimensions}
      BY <2>1, PickedIs
    <2> HIDE DEF metrics, dimensions
    <2>4. ASSUME NEW i \in DOMAIN dimensions
          PROVE  /\ dimensions[i] = [field \in DOMAIN dimensions[i] |-> dimensions[i][field]]
                 /\ dimensions[i].column \notin DOMAIN Spelling
      <3>1. PICK j \in DOMAIN f.dimensions : dimensions[i] = f.dimensions[j]
        BY <2>3 DEF Range
      <3>2. f.dimensions[j] = [field \in DOMAIN f.dimensions[j] |-> f.dimensions[j][field]]
        BY <1>1
      <3>3. f.dimensions[j].column \notin DOMAIN Spelling
        BY DEF Padded
      <3> QED BY <3>1, <3>2, <3>3
    <2>5. q.dimensions = dimensions
      BY <2>2, <2>3, <2>4, SpeltSame
    <2>6. ASSUME NEW i \in DOMAIN metrics
          PROVE  /\ DOMAIN metrics[i] = {"alias", "column", "aggregation", "formula"}
                 /\ metrics[i].column \notin DOMAIN Spelling
      <3>1. PICK j \in DOMAIN f.metrics : metrics[i] = f.metrics[j]
        BY <2>3 DEF Range
      <3>2. f.metrics[j].column \notin DOMAIN Spelling
        BY DEF Padded
      <3> QED BY <1>1, <3>1, <3>2
    <2>7. /\ DOMAIN q.metrics = DOMAIN metrics
          /\ \A i \in DOMAIN metrics : \A field \in {"column", "aggregation", "formula"} :
                q.metrics[i][field] = metrics[i][field]
      <3>1. /\ DOMAIN q.metrics = DOMAIN metrics
            /\ \A i \in DOMAIN metrics : \A field \in DOMAIN metrics[i] \ {"column", "alias"} :
                  q.metrics[i][field] = metrics[i][field]
            /\ \A i \in DOMAIN metrics : \A field \in DOMAIN metrics[i] :
                  metrics[i][field] \notin DOMAIN Spelling =>
                     q.metrics[i][field] = metrics[i][field]
        BY <2>2, <2>3, SpeltIs
      <3> QED BY <2>6, <3>1
    <2> QED BY <2>3, <2>5, <2>7
  <1>19. q.joins = f.joins /\ q.filters = f.filters /\ q.datasets = ds /\ q.sort = <<>>
    BY <1>3, <1>5, <1>18
  <1> HIDE DEF q, metrics
  <1>7. /\ Names(sources) = Names(full)
        /\ \A name : Resolve(full, name) = Fine => TypeOf(sources, name) = TypeOf(full, name)
        /\ \A name : name \in Names(full) => Resolve(full, name) # "COLUMN_NOT_FOUND"
    BY <1>2, SourcesAre, ResolveLoaded
  <1>8. "none" \notin Names(full)
    <2>1. \A i \in DOMAIN full : "none" \notin DOMAIN full[i].types
      BY <1>2, LoadedIs, ColumnsHaveTypes
    <2> HIDE DEF full
    <2> QED BY <2>1 DEF Names
  <1> HIDE DEF full, sources
  <1>9. /\ ds # <<>> /\ f.metrics # <<>>
        /\ \A i \in DOMAIN f.dimensions :
              /\ f.dimensions[i].column \in Names(sources)
              /\ f.dimensions[i].granularity # "none"
                    => IsDate(TypeOf(sources, f.dimensions[i].column))
        /\ \A i \in DOMAIN f.metrics : MetricAccepted(f.metrics[i], sources)
        /\ f.limit \in 1..MaxLimit \cup {Junk} /\ f.offset \in 0..MaxOffset \cup {Junk}
        /\ \A i \in DOMAIN f.joins :
              /\ {f.joins[i].left, f.joins[i].right} \subseteq Range(ds)
              /\ f.joins[i].leftColumn \in DOMAIN Types[f.joins[i].left]
              /\ f.joins[i].rightColumn \in DOMAIN Types[f.joins[i].right]
    <2>1. \A i \in DOMAIN f.metrics : MetricAccepted(f.metrics[i], sources)
      BY DEF ValidateQuery, sources
    <2>2. /\ f.limit \in 1..MaxLimit \cup {Junk} /\ f.offset \in 0..MaxOffset \cup {Junk}
          /\ ds # <<>> /\ f.metrics # <<>>
      BY DEF ValidateQuery
    <2>3. \A i \in DOMAIN f.dimensions :
             /\ f.dimensions[i].column \in Names(sources)
             /\ f.dimensions[i].granularity # "none"
                   => IsDate(TypeOf(sources, f.dimensions[i].column))
      BY DEF ValidateQuery, sources
    <2>4. \A i \in DOMAIN f.joins :
             /\ {f.joins[i].left, f.joins[i].right} \subseteq Range(ds)
             /\ f.joins[i].leftColumn \in DOMAIN Types[f.joins[i].left]
             /\ f.joins[i].rightColumn \in DOMAIN Types[f.joins[i].right]
      BY DEF ValidateQuery
    <2> QED BY <2>1, <2>2, <2>3, <2>4
  <1>10. ASSUME NEW i \in DOMAIN q.dimensions
         PROVE  /\ Resolve(full, q.dimensions[i].column) # "COLUMN_NOT_FOUND"
                /\ /\ q.dimensions[i].granularity # "none"
                   /\ Resolve(full, q.dimensions[i].column) = Fine
                   => IsDate(TypeOf(full, q.dimensions[i].column))
    <2>1. PICK j \in DOMAIN f.dimensions : f.dimensions[j] = q.dimensions[i]
      <3>1. q.dimensions[i] \in Range(q.dimensions)
        BY DEF Range
      <3> QED BY <1>6, <3>1
    <2> QED BY <1>7, <1>9, <2>1
  <1>11. ASSUME NEW i \in DOMAIN f.metrics
         PROVE  IF f.metrics[i].formula # <<>>
                THEN Brackets(f.metrics[i].formula, "(") = Brackets(f.metrics[i].formula, ")")
                ELSE /\ f.metrics[i].column # "none" /\ f.metrics[i].aggregation # "none"
                     /\ Resolve(full, f.metrics[i].column) # "COLUMN_NOT_FOUND"
                     /\ /\ f.metrics[i].aggregation \in NumericOnly
                        /\ Resolve(full, f.metrics[i].column) = Fine
                        => IsNumeric(TypeOf(full, f.metrics[i].column))
    BY <1>7, <1>8, <1>9 DEF MetricAccepted
  <1>12. q.metrics # <<>>
    <2>1. 1 \in DOMAIN f.metrics
      <3>1. f.metrics \in Seq(Range(f.metrics))
        BY <1>1
      <3> QED BY <1>9, <3>1
    <2>2. 1 \in shown
      BY <1>11, <2>1
    <2>3. f.metrics[1] \in Range(metrics)
      BY <1>6, <2>1, <2>2
    <2> QED BY <1>6, <2>3 DEF Range
  <1>13. ASSUME NEW i \in DOMAIN q.metrics
         PROVE  \E j \in DOMAIN f.metrics : \A field \in {"column", "aggregation", "formula"} :
                   q.metrics[i][field] = f.metrics[j][field]
    <2>1. PICK j \in DOMAIN f.metrics : metrics[i] = f.metrics[j]
      <3>1. metrics[i] \in Range(metrics)
        BY <1>6 DEF Range
      <3> QED BY <1>6, <3>1
    <2> QED BY <1>6, <2>1
  <1>14. Full(q.datasets) = full
    BY <1>19 DEF full
  <1>15. IsSelection(q.datasets) /\ q.datasets # <<>> /\ q.sort = <<>> /\ IsTree(q.filters)
    BY <1>1, <1>2, <1>9, <1>19
  <1>16. \A i \in DOMAIN q.joins :
              /\ {q.joins[i].left, q.joins[i].right} \subseteq Range(q.datasets)
              /\ q.joins[i].leftColumn \in DOMAIN Types[q.joins[i].left]
              /\ q.joins[i].rightColumn \in DOMAIN Types[q.joins[i].right]
    BY <1>9, <1>19
  <1>20. q.limit \in 1..MaxLimit \cup {Junk} /\ q.offset \in 0..MaxOffset \cup {Junk}
    BY <1>5, <1>9
  <1>22. \A i \in DOMAIN q.filters : IsGroup(q.filters[i]) \/ HasValues(q.filters[i])
    BY <1>19, <1>21
  <1>23. ASSUME NEW i \in DOMAIN q.metrics
         PROVE  IF q.metrics[i].formula # <<>>
                THEN Brackets(q.metrics[i].formula, "(") = Brackets(q.metrics[i].formula, ")")
                ELSE /\ q.metrics[i].column # "none" /\ q.metrics[i].aggregation # "none"
                     /\ Resolve(full, q.metrics[i].column) # "COLUMN_NOT_FOUND"
                     /\ /\ q.metrics[i].aggregation \in NumericOnly
                        /\ Resolve(full, q.metrics[i].column) = Fine
                        => IsNumeric(TypeOf(full, q.metrics[i].column))
    BY <1>11, <1>13
  <1>17. Accepted(q)
    BY <1>20, <1>4, <1>10, <1>12, <1>14, <1>15, <1>16, <1>22, <1>23 DEF Accepted
  <1> QED BY <1>17 DEF q, body
\* The fault of a tree is that of a column of the formula, or of the metric.
LEMMA FaultIs ==
    ASSUME NEW tokens, NEW tree \in TreesOf(tokens), NEW types
    PROVE  /\ Fault(tree, types) \in {Fine, "INVALID_METRIC", "AMBIGUOUS_COLUMN"}
           /\ Fault(tree, types) = "AMBIGUOUS_COLUMN" =>
                \E name \in Range(tokens) \cap DOMAIN types : types[name] = "ambiguous"
           /\ Fault(tree, types) = Fine =>
                \A i \in Aggregates(tree) : tree[i].column # "none" =>
                   tree[i].column \in DOMAIN types /\ types[tree[i].column] # "ambiguous"
  <1> DEFINE faults == [i \in DOMAIN tree |-> NodeFault(tree, i, types)]
  <1>1. Fault(tree, types) = FirstFault(faults)
    BY DEF Fault
  <1>2. Len(tree) \in Nat /\ DOMAIN tree = 1..Len(tree)
    BY DEF TreesOf
  <1>3. faults \in Seq(Range(faults))
    BY <1>2, ListOf
  <1>4. ASSUME NEW i \in DOMAIN tree
        PROVE  \/ tree[i].kind \in {"number", "column", "binary"}
               \/ /\ tree[i].kind = "aggregation"
                  /\ tree[i].column \in Range(tokens) \cup {"none"}
    BY DEF TreesOf, NodesOf
  <1>5. ASSUME NEW i \in DOMAIN tree
        PROVE  /\ NodeFault(tree, i, types) \in {Fine, "INVALID_METRIC", "AMBIGUOUS_COLUMN"}
               /\ NodeFault(tree, i, types) = "AMBIGUOUS_COLUMN" =>
                    \E name \in Range(tokens) \cap DOMAIN types : types[name] = "ambiguous"
               /\ /\ NodeFault(tree, i, types) = Fine
                  /\ i \in Aggregates(tree) /\ tree[i].column # "none"
                  => tree[i].column \in DOMAIN types /\ types[tree[i].column] # "ambiguous"
    <2>1. CASE tree[i].kind = "aggregation"
      <3>1. NodeFault(tree, i, types) = AggregationFault(tree[i], types)
        BY <2>1 DEF NodeFault
      <3>2. tree[i].column \in Range(tokens) \cup {"none"}
        BY <1>4, <2>1
      <3> QED BY <3>1, <3>2 DEF AggregationFault, Fine
    <2>2. CASE tree[i].kind # "aggregation"
      <3>1. NodeFault(tree, i, types) \in {Fine, "INVALID_METRIC"}
        BY <1>4, <2>2 DEF NodeFault
      <3> QED BY <2>2, <3>1 DEF Aggregates, Fine
    <2> QED BY <2>1, <2>2
  <1>6. /\ \A i \in DOMAIN tree : NodeFault(tree, i, types) \in Range(faults)
        /\ \A v \in Range(faults) : \E i \in DOMAIN tree : v = NodeFault(tree, i, types)
    BY DEF Range
  <1> HIDE DEF faults
  <1>7. FirstFault(faults) = Fine => Range(faults) \subseteq {Fine}
    BY <1>3, FirstFaultIs
  <1>8. FirstFault(faults) # Fine => FirstFault(faults) \in Range(faults)
    BY <1>3, FirstFaultIs
  <1>9. \A i \in Aggregates(tree) : i \in DOMAIN tree
    BY DEF Aggregates
  <1>10. "AMBIGUOUS_COLUMN" # Fine
    BY DEF Fine
  <1> QED BY <1>1, <1>5, <1>6, <1>7, <1>8, <1>9, <1>10

FormulasOf(q) == {q.metrics[i].formula : i \in DOMAIN q.metrics} \ {<<>>}

NamesIn(q) ==
    {q.dimensions[i].column : i \in DOMAIN q.dimensions}
      \cup {q.metrics[i].column : i \in DOMAIN q.metrics}
      \cup FilterColumns(q.filters) \cup UNION {Range(f) : f \in FormulasOf(q)}

\* What the columns of a selection are known by, and which are ambiguous
LEMMA ContextIs ==
    ASSUME NEW ds, IsSelection(ds), NEW name \in DOMAIN FormulaContext(Full(ds))
    PROVE  LET full == Full(ds)
           IN  /\ Resolve(full, name) # "COLUMN_NOT_FOUND"
               /\ FormulaContext(full)[name] = "ambiguous" <=> Resolve(full, name) # Fine
  <1> DEFINE full == Full(ds)
             context == FormulaContext(full)
  <1>1. name \in Names(full) /\ context[name] = IF Resolve(full, name) = Fine
                                                THEN TypeOf(full, name) ELSE "ambiguous"
    BY DEF FormulaContext
  <1>2. Resolve(full, name) # "COLUMN_NOT_FOUND"
    BY <1>1, ResolveLoaded
  <1>3. ASSUME Resolve(full, name) = Fine PROVE TypeOf(full, name) # "ambiguous"
    <2>1. PICK i \in 1..Len(ds) :
             /\ name \in DOMAIN Types[ds[i]] /\ TypeOf(full, name) = Types[ds[i]][name]
      BY <1>3, ResolveLoaded
    <2>2. ds[i] \in Range(Datasets)
      BY <2>1, LoadedIs
    <2> QED BY <2>1, <2>2, ColumnsHaveTypes
  <1> HIDE DEF context
  <1> QED BY <1>1, <1>2, <1>3 DEF context

\* What the studio accepts has no other fault than these, when its datasets are loaded.
LEMMA AcceptedFault ==
    ASSUME NEW q, Accepted(q), QueryFault(q, Full(q.datasets)) # Fine
    PROVE  LET fault == QueryFault(q, Full(q.datasets))
           IN  \/ fault = "INVALID_METRIC" /\ FormulasOf(q) # {}
               \/ /\ fault = "AMBIGUOUS_COLUMN"
                  /\ \E name \in NamesIn(q) : OwnedBy(q.datasets, name) > 1
               \/ /\ fault = "COLUMN_NOT_FOUND"
                  /\ \E name \in FilterColumns(q.filters) : OwnedBy(q.datasets, name) = 0
  <1> DEFINE ds == q.datasets
             full == Full(ds)
             grouped == q.dimensions # <<>>
             Served(fault) ==
               \/ fault = "INVALID_METRIC" /\ FormulasOf(q) # {}
               \/ /\ fault = "AMBIGUOUS_COLUMN"
                  /\ \E name \in NamesIn(q) : OwnedBy(ds, name) > 1
               \/ /\ fault = "COLUMN_NOT_FOUND"
                  /\ \E name \in FilterColumns(q.filters) : OwnedBy(ds, name) = 0
  <1>1. /\ IsQuery(q) /\ IsSelection(ds) /\ q.sort = <<>> /\ q.metrics # <<>>
        /\ \A i \in DOMAIN q.joins :
              /\ {q.joins[i].left, q.joins[i].right} \subseteq Range(ds)
              /\ q.joins[i].leftColumn \in DOMAIN Types[q.joins[i].left]
              /\ q.joins[i].rightColumn \in DOMAIN Types[q.joins[i].right]
    BY DEF Accepted
  <1>2. \A i \in DOMAIN q.dimensions :
              LET column == q.dimensions[i].column
              IN  /\ Resolve(full, column) # "COLUMN_NOT_FOUND"
                  /\ q.dimensions[i].granularity # "none" /\ Resolve(full, column) = Fine =>
                        IsDate(TypeOf(full, column))
    BY DEF Accepted
  <1>3. \A i \in DOMAIN q.metrics :
              LET metric == q.metrics[i]
              IN  IF metric.formula # <<>>
                  THEN Brackets(metric.formula, "(") = Brackets(metric.formula, ")")
                  ELSE /\ metric.column # "none"
                       /\ Resolve(full, metric.column) # "COLUMN_NOT_FOUND"
                       /\ metric.aggregation \in NumericOnly /\ Resolve(full, metric.column) = Fine
                            => IsNumeric(TypeOf(full, metric.column))
    BY DEF Accepted
  <1>4. \A name : Resolve(full, name) \in {Fine, "COLUMN_NOT_FOUND", "AMBIGUOUS_COLUMN"}
    BY ResolveIs
  <1>5. \A name : /\ Resolve(full, name) = "COLUMN_NOT_FOUND" => OwnedBy(ds, name) = 0
                  /\ Resolve(full, name) = "AMBIGUOUS_COLUMN" => OwnedBy(ds, name) > 1
    BY <1>1, ResolveLoaded
  <1>6. /\ \A i \in DOMAIN q.dimensions : q.dimensions[i].column \in NamesIn(q)
        /\ \A i \in DOMAIN q.metrics : q.metrics[i].column \in NamesIn(q)
        /\ \A name \in FilterColumns(q.filters) : name \in NamesIn(q)
        /\ \A f \in FormulasOf(q) : \A t \in Range(f) : t \in NamesIn(q)
    BY DEF NamesIn
  <1>7. ASSUME NEW i \in DOMAIN q.joins PROVE JoinFault(q.joins[i], full) = Fine
    <2> DEFINE join == q.joins[i]
    <2>1. ASSUME NEW d \in Range(ds) PROVE full[IndexOf(full, d)].types = Types[d]
      <3>1. PICK j \in 1..Len(ds) : ds[j] = d
        BY <1>1, <2>1, LoadedIs DEF Range
      <3>2. IndexOf(full, d) = j /\ full[j].types = Types[d]
        BY <1>1, <3>1, LoadedIs
      <3> QED BY <3>2
    <2>2. {full[j].id : j \in DOMAIN full} = Range(ds)
      BY <1>1, LoadedIs
    <2>3. /\ join.left \in Range(ds) /\ join.right \in Range(ds)
          /\ join.leftColumn \in DOMAIN Types[join.left]
          /\ join.rightColumn \in DOMAIN Types[join.right]
      BY <1>1
    <2> HIDE DEF full, join
    <2> QED BY <2>1, <2>2, <2>3 DEF JoinFault, join
  <1> HIDE DEF full
  <1>8. ASSUME NEW i \in DOMAIN q.dimensions, DimensionFault(q.dimensions[i], full) # Fine
        PROVE  Served(DimensionFault(q.dimensions[i], full))
    <2> DEFINE column == q.dimensions[i].column
    <2>1. DimensionFault(q.dimensions[i], full) = Resolve(full, column) /\ Resolve(full, column) # Fine
      BY <1>2, <1>8 DEF DimensionFault
    <2>2. Resolve(full, column) = "AMBIGUOUS_COLUMN"
      BY <1>2, <1>4, <2>1
    <2> QED BY <1>5, <1>6, <2>1, <2>2
  <1>9. ASSUME NEW i \in DOMAIN q.metrics, q.metrics[i].formula = <<>>,
               AggregateFault(q.metrics[i], full) # Fine
        PROVE  Served(AggregateFault(q.metrics[i], full))
    <2> DEFINE column == q.metrics[i].column
               aggregation == q.metrics[i].aggregation
    <2>1. /\ column # "none" /\ Resolve(full, column) # "COLUMN_NOT_FOUND"
          /\ aggregation \in NumericOnly /\ Resolve(full, column) = Fine =>
                IsNumeric(TypeOf(full, column))
      BY <1>3, <1>9
    <2>2. AggregateFault(q.metrics[i], full) = Resolve(full, column) /\ Resolve(full, column) # Fine
      BY <1>9, <2>1 DEF AggregateFault
    <2>3. Resolve(full, column) = "AMBIGUOUS_COLUMN"
      BY <1>4, <2>1, <2>2
    <2> QED BY <1>5, <1>6, <2>2, <2>3
  <1>10. ASSUME NEW i \in DOMAIN q.metrics, q.metrics[i].formula # <<>>,
                FormulaFault(q.metrics[i].formula, full, grouped) # Fine
         PROVE  Served(FormulaFault(q.metrics[i].formula, full, grouped))
    <2> DEFINE f == q.metrics[i].formula
               context == FormulaContext(full)
               parsed == Parse(f)
               fault == Fault(parsed.tree, context)
    <2>1. f \in Seq(STRING) /\ Brackets(f, "(") = Brackets(f, ")") /\ f \in FormulasOf(q)
      BY <1>1, <1>3, <1>10 DEF IsQuery, FormulasOf
    <2>2. parsed.out \in {"found", "refused"}
      <3> HIDE DEF f
      <3> QED BY <2>1, EqualBracketsEnd, ParserReadsMeaning
    <2>3. parsed.out = "found" => parsed.tree \in TreesOf(f)
      <3> HIDE DEF f
      <3> QED BY <2>1, ParserReadsMeaning
    <2>4. FormulaFault(f, full, grouped) \in {"INVALID_METRIC", fault, Fine}
      BY <2>2 DEF FormulaFault, ReadFault, TreeFault
    <2>5. CASE FormulaFault(f, full, grouped) = "INVALID_METRIC"
      BY <2>1, <2>5
    <2>6. CASE FormulaFault(f, full, grouped) # "INVALID_METRIC"
      <3>1. parsed.out = "found"
        BY <2>2, <2>6 DEF FormulaFault, ReadFault, TreeFault
      <3>2. FormulaFault(f, full, grouped) = fault
        BY <1>10, <2>4, <2>6
      <3> HIDE DEF f, parsed, context
      <3>3. fault = "AMBIGUOUS_COLUMN"
        BY <1>10, <2>3, <2>6, <3>1, <3>2, FaultIs DEF f
      <3>4. PICK name \in Range(f) \cap DOMAIN context : context[name] = "ambiguous"
        BY <2>3, <3>1, <3>3, FaultIs
      <3>5. Resolve(full, name) # Fine /\ Resolve(full, name) # "COLUMN_NOT_FOUND"
        BY <1>1, <3>4, ContextIs DEF context, full
      <3>6. OwnedBy(ds, name) > 1 /\ name \in NamesIn(q)
        BY <1>4, <1>5, <1>6, <2>1, <3>4, <3>5
      <3> QED BY <3>2, <3>3, <3>6 DEF f
    <2> QED BY <2>5, <2>6
  <1>11. ASSUME NEW i \in DOMAIN q.metrics, MetricFault(q.metrics[i], full, grouped) # Fine
         PROVE  Served(MetricFault(q.metrics[i], full, grouped))
    <2> HIDE DEF Served
    <2> QED BY <1>9, <1>10, <1>11 DEF MetricFault
  <1>12. ASSUME NEW i \in DOMAIN q.filters, FilterFault(q.filters[i], full) # Fine
         PROVE  Served(FilterFault(q.filters[i], full))
    <2>1. ~IsGroup(q.filters[i]) /\ FilterFault(q.filters[i], full) = Resolve(full, q.filters[i].column)
      BY <1>12 DEF FilterFault
    <2>2. q.filters[i].column \in FilterColumns(q.filters)
      BY <2>1 DEF FilterColumns
    <2>3. Resolve(full, q.filters[i].column) \in {"COLUMN_NOT_FOUND", "AMBIGUOUS_COLUMN"}
      BY <1>4, <1>12, <2>1
    <2> QED BY <1>5, <1>6, <2>1, <2>2, <2>3
  <1>13. OutputNames(q) # <<>>
    <2>1. q.metrics \in Seq(Range(q.metrics)) /\ q.dimensions \in Seq(Range(q.dimensions))
      BY <1>1 DEF IsQuery
    <2> DEFINE a == [i \in DOMAIN q.dimensions |-> q.dimensions[i].column]
               b == [i \in DOMAIN q.metrics |-> q.metrics[i].alias]
    <2>2. a \in Seq(Range(a)) /\ b \in Seq(Range(b)) /\ DOMAIN b # {}
      <3>1. a \in Seq(Range(a))
        BY <2>1, IsList, ListOf
      <3>2. b \in Seq(Range(b))
        BY <2>1, IsList, ListOf
      <3>3. 1 \in DOMAIN q.metrics
        BY <1>1, <2>1
      <3> QED BY <3>1, <3>2, <3>3
    <2>3. OutputNames(q) = a \o b
      BY DEF OutputNames
    <2> HIDE DEF a, b
    <2>4. Range(a \o b) = Range(a) \cup Range(b)
      BY <2>2, RangeOfBoth
    <2>5. Range(a \o b) # {}
      BY <2>2, <2>4 DEF Range
    <2>6. Range(<<>>) = {}
      BY DEF Range
    <2> QED BY <2>3, <2>5, <2>6
  <1> DEFINE fault == QueryFault(q, full)
  <1>14. fault # Fine
    BY DEF full
  <1>15. \/ \E i \in DOMAIN q.joins : fault = JoinFault(q.joins[i], full)
         \/ \E i \in DOMAIN q.dimensions : fault = DimensionFault(q.dimensions[i], full)
         \/ \E i \in DOMAIN q.metrics : fault = MetricFault(q.metrics[i], full, grouped)
         \/ OutputNames(q) = <<>>
         \/ \E i \in DOMAIN q.filters : fault = FilterFault(q.filters[i], full)
         \/ \E i \in DOMAIN q.sort : fault = SortFault(q.sort[i], q)
    BY <1>1, <1>14, QueryFaultIs
  <1>16. DOMAIN q.sort = {}
    BY <1>1
  <1> HIDE DEF fault, Served, grouped
  <1>17. Served(fault)
    BY <1>7, <1>8, <1>11, <1>12, <1>13, <1>14, <1>15, <1>16
  <1> QED BY <1>17 DEF Served, fault, full
-----------------------------------------------------------------------------
(* The clause of a filter has no conditions but those of the filter          *)

LEMMA FlattenSeqIs ==
    ASSUME NEW W, NEW seqs \in Seq(W),
           \A i \in DOMAIN seqs : seqs[i] \in Seq(Range(seqs[i]))
    PROVE  /\ FlattenSeq(seqs) \in Seq(Range(FlattenSeq(seqs)))
           /\ Range(FlattenSeq(seqs)) = UNION {Range(seqs[i]) : i \in DOMAIN seqs}
  <1> DEFINE n == Len(seqs)
             Flat(m) == UNION {Range(seqs[i]) : i \in 1..m}
  <1>1. n \in Nat /\ DOMAIN seqs = 1..n
    OBVIOUS
  <1>2. CASE n = 0
    <2>1. FlattenSeq(seqs) = seqs /\ seqs = <<>>
      BY <1>1, <1>2 DEF FlattenSeq
    <2>2. Range(seqs) = {} /\ DOMAIN seqs = {}
      BY <1>1, <1>2 DEF Range
    <2>3. <<>> \in Seq(Range(<<>>))
      OBVIOUS
    <2> QED BY <2>1, <2>2, <2>3
  <1>3. CASE n # 0
    <2> DEFINE Body(f) == [i \in 1..n |-> IF i = 1 THEN seqs[i] ELSE f[i - 1] \o seqs[i]]
               At(f, i) == IF i = 1 THEN seqs[i] ELSE f[i - 1] \o seqs[i]
               Upto(f, m) == f = [i \in 1..m |-> At(f, i)]
               S == {m \in 0..n : \E f : Upto(f, m)}
               flatten == CHOOSE f : f = Body(f)
    <2>1. 0 \in S
      <3> DEFINE f == [i \in 1..0 |-> <<>>]
      <3>1. Upto(f, 0)
        OBVIOUS
      <3> HIDE DEF f, Upto
      <3> QED BY <3>1, <1>1
    <2>2. ASSUME NEW m \in 1..n, m - 1 \in S PROVE m \in S
      <3>1. PICK f : Upto(f, m - 1)
        BY <2>2
      <3> DEFINE g == [i \in 1..m |-> IF i = m THEN At(f, m) ELSE f[i]]
      <3>2. ASSUME NEW i \in 1..m PROVE g[i] = At(g, i)
        <4>1. i # 1 => i - 1 \in 1..m /\ i - 1 # m
          OBVIOUS
        <4>2. i # 1 => g[i - 1] = f[i - 1]
          BY <4>1
        <4>3. i # m => f[i] = At(f, i)
          <5>1. i # m => i \in 1..(m - 1)
            OBVIOUS
          <5> HIDE DEF At
          <5> QED BY <3>1, <5>1
        <4>4. g[i] = At(f, i)
          BY <4>3
        <4>5. At(f, i) = At(g, i)
          <5> HIDE DEF g
          <5> QED BY <4>2
        <4> QED BY <4>4, <4>5
      <3>3. Upto(g, m)
        <4>1. g = [i \in 1..m |-> g[i]]
          OBVIOUS
        <4> HIDE DEF g, At
        <4> QED BY <3>2, <4>1
      <3>4. m \in 0..n
        BY <1>1
      <3> HIDE DEF g, Upto
      <3> QED BY <3>3, <3>4
    <2>3. n \in S
      <3> HIDE DEF S, n
      <3>1. \A m \in 0..n : m \in S
        BY <1>1, <2>1, <2>2, StepInduction
      <3> QED BY <3>1, <1>1
    <2>4. flatten = Body(flatten)
      <3>1. \E f : f = Body(f)
        BY <2>3
      <3> HIDE DEF Body
      <3> QED BY <3>1
    <2>5. FlattenSeq(seqs) = flatten[n]
      BY <1>3 DEF FlattenSeq
    <2> HIDE DEF flatten
    <2>6. \A i \in 1..n : flatten[i] = IF i = 1 THEN seqs[i] ELSE flatten[i - 1] \o seqs[i]
      BY <2>4
    <2> DEFINE T == {m \in 0..n : m = 0 \/ /\ flatten[m] \in Seq(Range(flatten[m]))
                                           /\ Range(flatten[m]) = Flat(m)}
    <2>7. 0 \in T
      BY <1>1
    <2>8. ASSUME NEW m \in 1..n, m - 1 \in T PROVE m \in T
      <3>1. m \in 0..n /\ m \in Nat /\ 1..m = (1..(m - 1)) \cup {m}
        BY <1>1
      <3>2. Flat(m) = Flat(m - 1) \cup Range(seqs[m])
        BY <3>1
      <3>3. seqs[m] \in Seq(Range(seqs[m]))
        BY <1>1
      <3>4. CASE m = 1
        <4>1. flatten[m] = seqs[m] /\ Flat(m) = Range(seqs[m])
          BY <2>6, <3>4
        <4> HIDE DEF Flat
        <4> QED BY <3>1, <3>3, <4>1
      <3>5. CASE m # 1
        <4> HIDE DEF T
        <4>0. m - 1 # 0 /\ flatten[m] = flatten[m - 1] \o seqs[m]
          <5>1. flatten[m] = IF m = 1 THEN seqs[m] ELSE flatten[m - 1] \o seqs[m]
            BY <2>6
          <5>2. m - 1 # 0
            BY <3>1, <3>5
          <5> QED BY <3>5, <5>1, <5>2
        <4>1. /\ flatten[m] = flatten[m - 1] \o seqs[m]
              /\ flatten[m - 1] \in Seq(Range(flatten[m - 1]))
              /\ Range(flatten[m - 1]) = Flat(m - 1)
          <5> HIDE DEF Flat
          <5> QED BY <2>8, <4>0 DEF T
        <4> DEFINE before == flatten[m - 1]
                   next == seqs[m]
        <4> HIDE DEF before, next, Flat
        <4>2. /\ Range(before \o next) = Range(before) \cup Range(next)
              /\ before \o next \in Seq(Range(before \o next))
          BY <3>3, <4>1, RangeOfBoth DEF before, next
        <4> QED BY <3>1, <3>2, <4>1, <4>2 DEF before, next, T
      <3> QED BY <3>4, <3>5
    <2>9. n \in T
      <3> HIDE DEF T, n
      <3>1. \A m \in 0..n : m \in T
        BY <1>1, <2>7, <2>8, StepInduction
      <3> QED BY <3>1, <1>1
    <2> HIDE DEF flatten
    <2> QED BY <1>1, <1>3, <2>5, <2>9
  <1> QED BY <1>2, <1>3

BuiltAt(filter, types, built, i) ==
    LET all == [m \in DOMAIN filter[i].at |-> built[i + filter[i].at[m]]]
        parts == Picked(all, {m \in DOMAIN all : all[m].clause # NoFilter})
    IN  IF ~IsGroup(filter[i]) THEN BuildCondition(filter[i], types)
        ELSE IF parts = <<>> THEN Nowhere
        ELSE [clause |-> Group(filter[i].conjunction, [m \in DOMAIN parts |-> parts[m].clause]),
              params |-> FlattenParams(parts)]

LEMMA BuiltIs ==
    ASSUME NEW V, NEW filter \in Seq(V), IsTree(filter), NEW types
    PROVE  \E built : /\ BuildFilterWhere(filter, types) = built[1]
                      /\ \A i \in 1..Len(filter) : built[i] = BuiltAt(filter, types, built, i)
  <1> DEFINE n == Len(filter)
             At(f, i) == BuiltAt(filter, types, f, i)
             Body(f) == [i \in DOMAIN filter |->
                LET all == [m \in DOMAIN filter[i].at |-> f[i + filter[i].at[m]]]
                    parts == Picked(all, {m \in DOMAIN all : all[m].clause # NoFilter})
                IN  IF ~IsGroup(filter[i]) THEN BuildCondition(filter[i], types)
                    ELSE IF parts = <<>> THEN Nowhere
                    ELSE [clause |-> Group(filter[i].conjunction,
                                           [m \in DOMAIN parts |-> parts[m].clause]),
                          params |-> FlattenParams(parts)]]
             Upto(f, m) == \A i \in 1..n : n - i < m => f[i] = At(f, i)
             S == {m \in 0..n : \E f : f = [i \in 1..n |-> f[i]] /\ Upto(f, m)}
             built == CHOOSE f : f = Body(f)
  <1>1. n \in Nat /\ DOMAIN filter = 1..n
    OBVIOUS
  <1>2. \A f : Body(f) = [i \in 1..n |-> At(f, i)]
    BY <1>1 DEF BuiltAt
  <1>3. ASSUME NEW i \in 1..n, NEW f, NEW g, \A j \in (i + 1)..n : f[j] = g[j]
        PROVE  At(f, i) = At(g, i)
    <2>1. CASE IsGroup(filter[i])
      <3>1. \A m \in DOMAIN filter[i].at : i + filter[i].at[m] \in (i + 1)..n
        <4>1. filter[i].at \in Seq(1..(n - i))
          BY <1>1, <2>1 DEF IsTree
        <4> DEFINE at == filter[i].at
        <4> HIDE DEF at
        <4>2. \A m \in DOMAIN at : at[m] \in 1..(n - i)
          BY <4>1 DEF at
        <4>3. \A m \in DOMAIN at : i + at[m] \in (i + 1)..n
          BY <1>1, <4>2
        <4> QED BY <4>3 DEF at
      <3>2. [m \in DOMAIN filter[i].at |-> f[i + filter[i].at[m]]]
              = [m \in DOMAIN filter[i].at |-> g[i + filter[i].at[m]]]
        BY <1>3, <3>1
      <3> QED BY <3>2, Zenon DEF BuiltAt
    <2>2. CASE ~IsGroup(filter[i])
      BY <2>2, Zenon DEF BuiltAt
    <2> QED BY <2>1, <2>2
  <1> HIDE DEF At
  <1>4. 0 \in S
    <2> DEFINE f == [i \in 1..n |-> Null]
    <2>1. f = [i \in 1..n |-> f[i]] /\ Upto(f, 0)
      BY <1>1
    <2> HIDE DEF f, Upto
    <2> QED BY <1>1, <2>1
  <1>5. ASSUME NEW m \in 1..n, m - 1 \in S PROVE m \in S
    <2>1. PICK f : f = [i \in 1..n |-> f[i]] /\ Upto(f, m - 1)
      BY <1>5
    <2> DEFINE g == [i \in 1..n |-> IF n - i < m - 1 THEN f[i] ELSE At(f, i)]
    <2>2. ASSUME NEW i \in 1..n, n - i < m PROVE g[i] = At(g, i)
      <3>1. \A j \in (i + 1)..n : j \in 1..n /\ n - j < m - 1
        BY <1>1, <2>2
      <3>2. \A j \in (i + 1)..n : f[j] = g[j]
        BY <3>1
      <3>3. At(f, i) = At(g, i)
        <4> HIDE DEF g
        <4> QED BY <1>3, <3>2
      <3>4. g[i] = At(f, i)
        BY <2>1
      <3> QED BY <3>3, <3>4
    <2>3. g = [i \in 1..n |-> g[i]] /\ Upto(g, m)
      BY <2>2
    <2>4. m \in 0..n
      BY <1>1
    <2> HIDE DEF g, Upto
    <2> QED BY <2>3, <2>4
  <1>6. n \in S
    <2> HIDE DEF S, n
    <2>1. \A m \in 0..n : m \in S
      BY <1>1, <1>4, <1>5, StepInduction
    <2> QED BY <2>1, <1>1
  <1>7. PICK f : f = [i \in 1..n |-> f[i]] /\ Upto(f, n)
    BY <1>6
  <1>8. f = [i \in 1..n |-> At(f, i)]
    <2>1. \A i \in 1..n : n - i < n
      BY <1>1
    <2>2. \A i \in 1..n : f[i] = At(f, i)
      BY <1>7, <2>1
    <2> QED BY <1>7, <2>2
  <1> HIDE DEF Body
  <1>9. built = Body(built)
    <2>1. f = Body(f)
      BY <1>2, <1>8
    <2> QED BY <2>1
  <1>10. BuildFilterWhere(filter, types) = built[1]
    BY DEF BuildFilterWhere, Body
  <1> HIDE DEF built
  <1>11. built = [i \in 1..n |-> At(built, i)]
    BY <1>2, <1>9
  <1>12. \A i \in 1..n : built[i] = At(built, i)
    BY <1>11
  <1> QED BY <1>10, <1>12 DEF At

\* The nodes of a clause: groups, and these conditions
IsClauseOf(clause, conditions) ==
    /\ clause \in Seq(Range(clause))
    /\ \A node \in Range(clause) : IsGroup(node) \/ node \in conditions

\* A list of some of these values
IsListOf(params, values) == params \in Seq(Range(params)) /\ Range(params) \subseteq values

LEMMA GroupIs ==
    ASSUME NEW conjunction, NEW W, NEW parts \in Seq(W), NEW conditions,
           \A m \in DOMAIN parts : IsClauseOf(parts[m], conditions)
    PROVE  IsClauseOf(Group(conjunction, parts), conditions)
  <1> DEFINE node == [conjunction |-> conjunction,
                      at |-> [m \in DOMAIN parts |-> 1 + Len(FlattenSeq(SubSeq(parts, 1, m - 1)))]]
             flat == FlattenSeq(parts)
  <1>1. Group(conjunction, parts) = <<node>> \o flat
    BY DEF Group
  <1>2. IsGroup(node)
    BY DEF IsGroup
  <1> HIDE DEF node
  <1>3. flat \in Seq(Range(flat)) /\ Range(flat) = UNION {Range(parts[m]) : m \in DOMAIN parts}
    BY FlattenSeqIs DEF IsClauseOf
  <1> HIDE DEF flat
  <1>4. <<node>> \in Seq({node}) /\ Range(<<node>>) = {node}
    BY DEF Range
  <1> DEFINE one == <<node>>
  <1> HIDE DEF one
  <1>5. Range(one \o flat) = Range(one) \cup Range(flat) /\ one \o flat \in Seq(Range(one \o flat))
    BY <1>3, <1>4, RangeOfBoth DEF one
  <1>6. \A x \in Range(flat) : IsGroup(x) \/ x \in conditions
    BY <1>3 DEF IsClauseOf
  <1>7. \A x \in Range(one) : x = node
    BY <1>4 DEF one
  <1> QED BY <1>1, <1>2, <1>5, <1>6, <1>7 DEF IsClauseOf, one

\* What the conditions of a filter become, and the parameters they have
ConditionsOf(filter) ==
    {[column |-> filter[i].column, op |-> filter[i].op, holes |-> Holes(filter[i])] :
        i \in {j \in DOMAIN filter : ~IsGroup(filter[j])}}

ParamsOf(filter, types) ==
    UNION {{Param(filter[i], types, h) : h \in 1..Holes(filter[i])} :
        i \in {j \in DOMAIN filter : ~IsGroup(filter[j])}}

LEMMA ClauseHas ==
    ASSUME NEW V, NEW filter \in Seq(V), IsTree(filter), NEW types
    PROVE  /\ IsClauseOf(BuildFilterWhere(filter, types).clause, ConditionsOf(filter))
           /\ IsListOf(BuildFilterWhere(filter, types).params, ParamsOf(filter, types))
  <1> DEFINE n == Len(filter)
             conditions == ConditionsOf(filter)
             values == ParamsOf(filter, types)
  <1>1. n \in Nat \ {0} /\ DOMAIN filter = 1..n /\ 1 \in 1..n
    BY DEF IsTree
  <1>2. PICK built : /\ BuildFilterWhere(filter, types) = built[1]
                     /\ \A i \in 1..n : built[i] = BuiltAt(filter, types, built, i)
    BY BuiltIs
  <1> DEFINE Claim(i) == /\ IsClauseOf(built[i].clause, conditions)
                         /\ IsListOf(built[i].params, values)
             S == {m \in Nat : m < n => Claim(n - m)}
  <1>3. ASSUME NEW i \in 1..n, ~IsGroup(filter[i])
        PROVE  /\ [column |-> filter[i].column, op |-> filter[i].op, holes |-> Holes(filter[i])]
                     \in conditions
               /\ \A h \in 1..Holes(filter[i]) : Param(filter[i], types, h) \in values
    BY <1>1, <1>3 DEF ConditionsOf, ParamsOf
  <1>7. ASSUME NEW i \in 1..n, ~IsGroup(filter[i]) PROVE Holes(filter[i]) \in Nat
    BY <1>7 DEF Holes
  <1> HIDE DEF conditions, values, n
  <1>4. ASSUME NEW m \in Nat, \A l \in 0..(m - 1) : l \in S PROVE m \in S
    <2> SUFFICES ASSUME m < n PROVE Claim(n - m)
      OBVIOUS
    <2> DEFINE i == n - m
    <2>1. i \in 1..n
      BY <1>1
    <2>2. ASSUME NEW j \in (i + 1)..n PROVE Claim(j)
      <3>1. n - j \in 0..(m - 1) /\ n - j < n /\ n - (n - j) = j
        BY <1>1, <2>1, <2>2
      <3>2. n - j \in S
        BY <1>4, <3>1
      <3> HIDE DEF Claim
      <3> QED BY <3>1, <3>2
    <2> HIDE DEF i
    <2>3. CASE ~IsGroup(filter[i])
      <3> DEFINE node == [column |-> filter[i].column, op |-> filter[i].op,
                          holes |-> Holes(filter[i])]
      <3>0. built[i] = BuildCondition(filter[i], types)
        BY <1>2, <2>1, <2>3, Zenon DEF BuiltAt, n
      <3> DEFINE params == [h \in 1..Holes(filter[i]) |-> Param(filter[i], types, h)]
      <3>1. built[i].clause = <<node>> /\ built[i].params = params
        BY <3>0 DEF BuildCondition
      <3>2. node \in conditions
        BY <1>3, <2>1, <2>3
      <3>4. IsListOf(params, values)
        <4>1. params \in Seq(Range(params)) /\ DOMAIN params = 1..Holes(filter[i])
          BY <1>7, <2>1, <2>3, ListOf
        <4>2. \A h \in DOMAIN params : params[h] \in values
          BY <1>3, <2>1, <2>3
        <4> HIDE DEF params
        <4> QED BY <4>1, <4>2 DEF IsListOf, Range
      <3> HIDE DEF node, params
      <3>3. <<node>> \in Seq(Range(<<node>>)) /\ Range(<<node>>) = {node}
        BY DEF Range
      <3> QED BY <3>1, <3>2, <3>3, <3>4 DEF IsClauseOf, i
    <2>4. CASE IsGroup(filter[i])
      <3> DEFINE at == filter[i].at
                 all == [p \in DOMAIN at |-> built[i + at[p]]]
                 parts == Picked(all, {p \in DOMAIN all : all[p].clause # NoFilter})
                 clauses == [p \in DOMAIN parts |-> parts[p].clause]
      <3>1. at \in Seq(1..(n - i))
        BY <1>1, <2>1, <2>4 DEF IsTree, n
      <3>2. /\ all \in Seq(Range(all))
            /\ \A x \in Range(all) : IsClauseOf(x.clause, conditions) /\ IsListOf(x.params, values)
        <4> HIDE DEF at
        <4>0. Len(at) \in Nat /\ DOMAIN at = 1..Len(at)
          BY <3>1
        <4> DEFINE reach == 1..(n - i)
        <4> HIDE DEF reach
        <4>5. at \in Seq(reach)
          BY <3>1 DEF reach
        <4>6. \A p \in DOMAIN at : at[p] \in reach
          BY <4>5
        <4>1. \A p \in DOMAIN at : at[p] \in 1..(n - i)
          BY <4>6 DEF reach
        <4>2. all \in Seq(Range(all))
          BY <4>0, ListOf
        <4>3. ASSUME NEW p \in DOMAIN at PROVE Claim(i + at[p])
          <5>1. i + at[p] \in (i + 1)..n
            BY <1>1, <2>1, <4>1
          <5> HIDE DEF Claim
          <5> QED BY <2>2, <5>1
        <4>4. \A x \in Range(all) : \E p \in DOMAIN at : x = built[i + at[p]]
          BY DEF Range
        <4> HIDE DEF all
        <4> QED BY <4>2, <4>3, <4>4
      <3>3. /\ built[i].clause = IF parts = <<>> THEN NoFilter
                                 ELSE Group(filter[i].conjunction, clauses)
            /\ built[i].params = IF parts = <<>> THEN <<>> ELSE FlattenParams(parts)
        <4>1. built[i] = IF parts = <<>> THEN Nowhere
                         ELSE [clause |-> Group(filter[i].conjunction, clauses),
                               params |-> FlattenParams(parts)]
          BY <1>2, <2>1, <2>4, Zenon DEF BuiltAt, n
        <4> HIDE DEF parts, clauses
        <4> QED BY <4>1 DEF Nowhere
      <3> HIDE DEF at, all
      <3>4. parts \in Seq(Range(parts)) /\ \A x \in Range(parts) : x \in Range(all)
        <4> DEFINE places == {p \in DOMAIN all : all[p].clause # NoFilter}
        <4> HIDE DEF places
        <4>1. /\ Picked(all, places) \in Seq(Range(Picked(all, places)))
              /\ Range(Picked(all, places)) = {all[p] : p \in places \cap DOMAIN all}
          BY <3>2, PickedIs
        <4>2. \A p \in places \cap DOMAIN all : all[p] \in Range(all)
          BY DEF Range
        <4> QED BY <4>1, <4>2 DEF places
      <3> HIDE DEF parts
      <3>5. /\ clauses \in Seq(Range(clauses)) /\ DOMAIN clauses = DOMAIN parts
            /\ \A p \in DOMAIN clauses : IsClauseOf(clauses[p], conditions)
            /\ IsListOf(FlattenParams(parts), values)
        <4>1. Len(parts) \in Nat /\ DOMAIN parts = 1..Len(parts)
              /\ \A p \in DOMAIN parts : parts[p] \in Range(parts)
          BY <3>4, IsList
        <4>2. clauses \in Seq(Range(clauses))
          BY <4>1, ListOf
        <4> DEFINE pss == [p \in DOMAIN parts |-> parts[p].params]
                   qs == FlattenSeq(pss)
        <4>3. FlattenParams(parts) = qs
          BY DEF FlattenParams
        <4>4. pss \in Seq(Range(pss)) /\ DOMAIN pss = DOMAIN parts
          BY <4>1, ListOf
        <4>5. \A p \in DOMAIN pss : pss[p] = parts[p].params
          OBVIOUS
        <4> HIDE DEF pss
        <4>6. \A p \in DOMAIN pss : IsListOf(pss[p], values)
          BY <3>2, <3>4, <4>1, <4>4, <4>5
        <4>7. \A p \in DOMAIN pss : pss[p] \in Seq(Range(pss[p]))
          BY <4>6 DEF IsListOf
        <4>8. qs \in Seq(Range(qs)) /\ Range(qs) = UNION {Range(pss[p]) : p \in DOMAIN pss}
          BY <4>4, <4>7, FlattenSeqIs
        <4> HIDE DEF qs
        <4>9. IsListOf(qs, values)
          BY <4>6, <4>8 DEF IsListOf
        <4> QED BY <3>2, <3>4, <4>1, <4>2, <4>3, <4>9
      <3> HIDE DEF clauses
      <3>6. IsClauseOf(Group(filter[i].conjunction, clauses), conditions)
        BY <3>5, GroupIs
      <3>7. IsClauseOf(NoFilter, conditions) /\ IsListOf(<<>>, values)
        <4>1. <<>> \in Seq({}) /\ \A p \in DOMAIN <<>> : IsClauseOf(<<>>[p], conditions)
          OBVIOUS
        <4>2. IsListOf(<<>>, values)
          BY DEF IsListOf, Range
        <4> QED BY <4>1, <4>2, GroupIs DEF NoFilter
      <3> QED BY <3>3, <3>5, <3>6, <3>7 DEF i
    <2> QED BY <2>3, <2>4 DEF i
  <1>5. \A m \in Nat : m \in S
    <2> HIDE DEF S
    <2> QED BY <1>4, Induction
  <1>6. Claim(1)
    <2>1. n - 1 \in Nat /\ n - 1 < n /\ n - (n - 1) = 1
      BY <1>1
    <2> HIDE DEF Claim
    <2> QED BY <1>5, <2>1
  <1> QED BY <1>2, <1>6 DEF conditions, values

LEMMA ClauseColumns ==
    ASSUME NEW V, NEW filter \in Seq(V), IsTree(filter), NEW types
    PROVE  FilterColumns(BuildFilterWhere(filter, types).clause) \subseteq FilterColumns(filter)
  <1> DEFINE clause == BuildFilterWhere(filter, types).clause
  <1>1. \A i \in DOMAIN clause : IsGroup(clause[i]) \/ clause[i] \in ConditionsOf(filter)
    BY ClauseHas DEF IsClauseOf, Range
  <1>2. \A node \in ConditionsOf(filter) : node.column \in FilterColumns(filter)
    BY DEF ConditionsOf, FilterColumns
  <1> HIDE DEF clause
  <1>3. FilterColumns(clause) \subseteq FilterColumns(filter)
    BY <1>1, <1>2 DEF FilterColumns
  <1> QED BY <1>3 DEF clause

\* A clause is read when each condition of the filter is.
LEMMA ClauseRuns ==
    ASSUME NEW V, NEW filter \in Seq(V), IsTree(filter), NEW types,
           \A i \in DOMAIN filter : ~IsGroup(filter[i]) =>
              HasValues(filter[i]) /\ ~Unrunnable(filter[i], types)
    PROVE  Runs(BuildFilterWhere(filter, types).clause, BuildFilterWhere(filter, types).params)
  <1> DEFINE clause == BuildFilterWhere(filter, types).clause
             params == BuildFilterWhere(filter, types).params
  <1>1. /\ \A i \in DOMAIN clause : IsGroup(clause[i]) \/ clause[i] \in ConditionsOf(filter)
        /\ Range(params) \subseteq ParamsOf(filter, types)
    BY ClauseHas DEF IsClauseOf, IsListOf, Range
  <1>2. ASSUME NEW node \in ConditionsOf(filter), Listed(node.op) PROVE node.holes > 0
    <2>1. PICK i \in DOMAIN filter :
             /\ ~IsGroup(filter[i])
             /\ node = [column |-> filter[i].column, op |-> filter[i].op,
                        holes |-> Holes(filter[i])]
      BY DEF ConditionsOf
    <2> DEFINE vs == filter[i].values
    <2>2. Listed(filter[i].op) /\ node.holes = Holes(filter[i])
      BY <1>2, <2>1
    <2>3. vs \in Seq(Range(vs)) /\ vs # <<>>
      BY <2>1, <2>2 DEF HasValues, Unrunnable
    <2>4. Holes(filter[i]) = Len(vs)
      BY <2>2 DEF Listed, Holes
    <2> HIDE DEF vs
    <2>5. Len(vs) > 0
      BY <2>3
    <2> QED BY <2>2, <2>4, <2>5
  <1>3. ASSUME NEW i \in DOMAIN filter, ~IsGroup(filter[i]), NEW h \in 1..Holes(filter[i])
        PROVE  Param(filter[i], types, h) # Junk
    <2> DEFINE type == types[filter[i].column]
               v == filter[i].values[h]
    <2>1. CASE Looks(filter[i].op)
      <3>1. Param(filter[i], types, h) = Escaped(type, v)
        BY <2>1 DEF Param
      <3> HIDE DEF type, v
      <3>2. Escaped(type, v) # Junk
        <4>1. CASE type = "BIGINT"
          <5>1. Escaped(type, v) = Coerce(type, v)
            BY <4>1 DEF Escaped
          <5> QED BY <4>1, <5>1, JunkIsNoCell DEF Coerce
        <4>2. CASE type # "BIGINT"
          <5>1. Coerce(type, v) = v
            BY <4>2 DEF Coerce
          <5> QED BY <4>2, <5>1, JunkIsNoCell DEF Escaped
        <4> QED BY <4>1, <4>2
      <3> QED BY <3>1, <3>2
    <2>2. CASE ~Looks(filter[i].op)
      <3>1. Param(filter[i], types, h) = Coerce(type, v)
        BY <2>2 DEF Param
      <3>2. Coerce(type, v) # Junk
        BY <1>3, <2>2 DEF Unrunnable
      <3> QED BY <3>1, <3>2
    <2> QED BY <2>1, <2>2
  <1>4. Junk \notin ParamsOf(filter, types)
    BY <1>3 DEF ParamsOf
  <1> HIDE DEF clause, params
  <1>5. Runs(clause, params)
    BY <1>1, <1>2, <1>4 DEF Runs
  <1> QED BY <1>5 DEF clause, params
-----------------------------------------------------------------------------
(* What compiles for the studio binds, when its joins are wired              *)

LEMMA ToSqlNames ==
    ASSUME NEW tokens, NEW tree \in TreesOf(tokens)
    PROVE  /\ TreeColumns(ToSql(tree)) = TreeColumns(tree)
           /\ StarFits(tree) => StarFits(ToSql(tree))
  <1> DEFINE sql == ToSql(tree)
  <1>1. ASSUME NEW i \in DOMAIN tree, tree[i].kind = "aggregation"
        PROVE  /\ sql[i].kind = "aggregation" /\ sql[i].column = tree[i].column
               /\ sql[i].distinct = tree[i].distinct
               /\ tree[i].fn = "count" => sql[i].fn = "count"
    <2> DEFINE node == tree[i]
    <2>1. node \in NodesOf(tokens)
      BY DEF TreesOf
    <2>2. node \in [kind : {"aggregation"}, fn : Aggregations \cap Range(tokens),
                    distinct : BOOLEAN, column : Range(tokens) \cup {"none"}]
      <3> HIDE DEF node
      <3>1. node.kind = "aggregation"
        BY <1>1 DEF node
      <3> QED BY <2>1, <3>1 DEF NodesOf
    <2>3. sql[i] = [node EXCEPT !.fn = SqlFunction(@)]
      BY <1>1 DEF ToSql
    <2> HIDE DEF node
    <2>4. /\ sql[i].kind = node.kind /\ sql[i].column = node.column
          /\ sql[i].distinct = node.distinct /\ sql[i].fn = SqlFunction(node.fn)
      BY <2>2, <2>3
    <2>5. node.fn = "count" => SqlFunction(node.fn) = "count"
      BY DEF SqlFunction
    <2>6. node.kind = "aggregation"
      BY <2>2
    <2> QED BY <2>4, <2>5, <2>6 DEF node
  <1>2. DOMAIN sql = DOMAIN tree
    BY DEF ToSql
  <1>3. \A i \in DOMAIN tree : tree[i].kind # "aggregation" => sql[i] = tree[i]
    BY DEF ToSql
  <1> HIDE DEF sql
  <1>4. Aggregates(sql) = Aggregates(tree)
    BY <1>1, <1>2, <1>3 DEF Aggregates
  <1>5. \A i \in Aggregates(tree) : /\ sql[i].column = tree[i].column
                                    /\ sql[i].distinct = tree[i].distinct
                                    /\ tree[i].fn = "count" => sql[i].fn = "count"
    BY <1>1 DEF Aggregates
  <1>6. TreeColumns(sql) = TreeColumns(tree)
    BY <1>4, <1>5 DEF TreeColumns
  <1>7. StarFits(tree) => StarFits(sql)
    BY <1>4, <1>5 DEF StarFits
  <1> QED BY <1>6, <1>7 DEF sql

\* The columns of a value of the plan
LEMMA ExpressionNames ==
    ASSUME NEW q, Accepted(q), QueryFault(q, Full(q.datasets)) = Fine, NEW i \in DOMAIN q.metrics,
           \A f \in FormulasOf(q) : StarFits(Meaning(f))
    PROVE  LET value == Expression(q.metrics[i])
           IN  /\ StarFits(value)
               /\ \A name \in TreeColumns(value) :
                     name \in NamesIn(q) /\ Resolve(Full(q.datasets), name) = Fine
  <1> DEFINE full == Full(q.datasets)
             metric == q.metrics[i]
             grouped == q.dimensions # <<>>
             value == Expression(metric)
  <1>1. IsQuery(q) /\ IsSelection(q.datasets)
    BY DEF Accepted
  <1>2. MetricFault(metric, full, grouped) = Fine
    BY <1>1, QueryFaultIs
  <1>3. CASE metric.formula # <<>>
    <2> DEFINE f == metric.formula
               tree == Parse(f).tree
               context == FormulaContext(full)
    <2>1. f \in Seq(STRING) /\ f \in FormulasOf(q)
      BY <1>1, <1>3 DEF IsQuery, FormulasOf
    <2>2. FormulaFault(f, full, grouped) = Fine
      BY <1>2, <1>3, MetricFaultIs
    <2>3. value = ToSql(tree)
      BY <1>3 DEF Expression
    <2> HIDE DEF f, value
    <2>4. Parse(f).out = "found"
      <3>1. Parse(f).out \in {"found", "refused", "overflow"}
        BY <2>1, ParserReadsMeaning
      <3>2. Parse(f).out \notin {"refused", "overflow"}
        BY <2>2 DEF FormulaFault, ReadFault, TreeFault, Fine
      <3> QED BY <3>1, <3>2
    <2>5. tree = Meaning(f) /\ tree \in TreesOf(f)
      BY <2>1, <2>4, ParserReadsMeaning
    <2>6. Fault(tree, context) = Fine
      BY <2>2, <2>4 DEF FormulaFault, ReadFault, TreeFault
    <2> HIDE DEF tree, context
    <2>7. StarFits(tree)
      BY <2>1, <2>5
    <2>8. ASSUME NEW name \in TreeColumns(tree)
          PROVE  name \in NamesIn(q) /\ Resolve(full, name) = Fine
      <3>1. PICK a \in Aggregates(tree) : name = tree[a].column /\ name # "none"
        BY DEF TreeColumns
      <3>2. a \in DOMAIN tree /\ tree[a].kind = "aggregation"
        BY DEF Aggregates
      <3>3. tree[a] \in NodesOf(f)
        BY <2>5, <3>2 DEF TreesOf
      <3>4. name \in Range(f)
        BY <3>1, <3>2, <3>3 DEF NodesOf
      <3>5. name \in NamesIn(q)
        BY <2>1, <3>4 DEF NamesIn
      <3>6. name \in DOMAIN context /\ context[name] # "ambiguous"
        BY <2>5, <2>6, <3>1, FaultIs
      <3>7. Resolve(full, name) = Fine
        BY <1>1, <3>6, ContextIs DEF context
      <3> QED BY <3>5, <3>7
    <2>9. StarFits(value) /\ TreeColumns(value) = TreeColumns(tree)
      BY <2>3, <2>5, <2>7, ToSqlNames
    <2> QED BY <2>8, <2>9 DEF value
  <1>4. CASE metric.formula = <<>>
    <2>1. value = Aggregate(metric)
      BY <1>4 DEF Expression
    <2>2. metric.column # "none" /\ metric.column \in NamesIn(q)
      BY <1>4 DEF Accepted, NamesIn
    <2>3. Resolve(full, metric.column) = Fine
      BY <1>2, <1>4, <2>2 DEF MetricFault, AggregateFault
    <2>4. DOMAIN value = {1} /\ value[1].column = metric.column
      BY <2>1 DEF Aggregate, Aggregation
    <2> HIDE DEF value, metric
    <2>5. \A a \in Aggregates(value) : value[a].column = metric.column
      BY <2>4 DEF Aggregates
    <2>6. StarFits(value)
      BY <2>2, <2>5 DEF StarFits
    <2>7. \A name \in TreeColumns(value) : name = metric.column
      BY <2>5 DEF TreeColumns
    <2> QED BY <2>2, <2>3, <2>6, <2>7 DEF value, metric
  <1> QED BY <1>3, <1>4

\* The datasets that the first joins bring in, a query whose joins bring in, one after
\* the other, all that it names, and compare columns of one type, and one whose filter
\* can be read
BroughtBy(q, j) == {q.datasets[1]} \cup {q.joins[i].right : i \in 1..j}

Wired(q) ==
    /\ \A i \in DOMAIN q.joins :
          LET join == q.joins[i]
          IN  /\ join.right \notin BroughtBy(q, i - 1) /\ join.left \in BroughtBy(q, i)
              /\ Types[join.left][join.leftColumn] = Types[join.right][join.rightColumn]
    /\ \A name \in NamesIn(q) : \A d \in Range(q.datasets) :
          {e \in Range(q.datasets) : name \in DOMAIN Types[e]} = {d} =>
             d \in BroughtBy(q, Len(q.joins))

TypesOf(q) == [name \in Names(Full(q.datasets)) |-> TypeOf(Full(q.datasets), name)]

Runnable(q) ==
    \A i \in DOMAIN q.filters :
        ~IsGroup(q.filters[i]) => ~Unrunnable(q.filters[i], TypesOf(q))

LEMMA AcceptedBinds ==
    ASSUME NEW q, Accepted(q), QueryFault(q, Full(q.datasets)) = Fine, Wired(q), Runnable(q),
           \A f \in FormulasOf(q) : StarFits(Meaning(f))
    PROVE  LET compiled == Compile(q, Full(q.datasets))
           IN  Binds(compiled) /\ Reads(compiled) \subseteq Range(q.datasets)
  <1> DEFINE ds == q.datasets
             full == Full(ds)
             compiled == Compile(q, full)
             n == Len(q.joins)
             Place(d) == IndexOf(full, d)
             built == BuildFilterWhere(q.filters, [name \in Names(full) |-> TypeOf(full, name)])
  <1>1. /\ IsQuery(q) /\ IsSelection(ds) /\ ds # <<>> /\ IsTree(q.filters)
        /\ \A i \in DOMAIN q.joins : q.joins[i].left \in Range(ds) /\ q.joins[i].right \in Range(ds)
    BY DEF Accepted
  <1>2. n \in Nat /\ DOMAIN q.joins = 1..n /\ q.filters \in Seq(Range(q.filters))
    BY <1>1 DEF IsQuery
  <1>3. /\ Len(ds) \in Nat /\ DOMAIN ds = 1..Len(ds)
        /\ \A i \in 1..Len(ds) : /\ ds[i] \in Range(ds) /\ full[i].id = ds[i]
                                 /\ Place(ds[i]) = i /\ full[i].types = Types[ds[i]]
        /\ DOMAIN full = 1..Len(ds)
    BY <1>1, LoadedIs
  <1>4. ASSUME NEW d \in Range(ds)
        PROVE  Place(d) \in 1..Len(ds) /\ ds[Place(d)] = d
    <2>1. PICK i \in DOMAIN ds : ds[i] = d
      BY DEF Range
    <2> HIDE DEF Place
    <2> QED BY <1>3, <2>1
  <1>5. 1 \in 1..Len(ds) /\ ds[1] \in Range(ds) /\ Place(ds[1]) = 1
    <2>1. 1 \in 1..Len(ds)
      <3>1. ds \in Seq(Range(ds))
        BY <1>1 DEF IsSelection
      <3> QED BY <1>1, <3>1
    <2> HIDE DEF Place
    <2> QED BY <1>3, <2>1
  <1>6. /\ compiled.joins = BuildJoins(q.joins, full)
        /\ compiled.owner = [name \in Names(full) |-> Min(Owners(full, name))]
        /\ compiled.tables = [j \in DOMAIN full |-> full[j].id]
        /\ compiled.groupBy = q.dimensions
        /\ compiled.values = [i \in DOMAIN q.metrics |-> Expression(q.metrics[i])]
        /\ compiled.where = built.clause /\ compiled.params = built.params
    BY DEF Compile
  <1>16. Runs(compiled.where, compiled.params)
    <2> DEFINE types == [name \in Names(full) |-> TypeOf(full, name)]
               filter == q.filters
    <2>1. \A i \in DOMAIN filter : ~IsGroup(filter[i]) =>
             HasValues(filter[i]) /\ ~Unrunnable(filter[i], types)
      BY DEF Accepted, Runnable, TypesOf
    <2>2. filter \in Seq(Range(filter)) /\ IsTree(filter) /\ built = BuildFilterWhere(filter, types)
      BY <1>1, <1>2
    <2> HIDE DEF types, filter, built, compiled
    <2>3. Runs(built.clause, built.params)
      BY <2>1, <2>2, ClauseRuns
    <2> QED BY <1>6, <2>3
  <1> HIDE DEF compiled, full, built
  <1>7. /\ DOMAIN compiled.joins = 1..n
        /\ \A i \in 1..n :
              /\ compiled.joins[i].left = Place(q.joins[i].left)
              /\ compiled.joins[i].right = Place(q.joins[i].right)
              /\ compiled.joins[i].types
                    = {full[Place(q.joins[i].left)].types[q.joins[i].leftColumn],
                       full[Place(q.joins[i].right)].types[q.joins[i].rightColumn]}
    <2> DEFINE joins == q.joins
               TypesAt(i) == {full[Place(joins[i].left)].types[joins[i].leftColumn],
                             full[Place(joins[i].right)].types[joins[i].rightColumn]}
    <2>1. DOMAIN joins = 1..n
      BY <1>2
    <2>2. compiled.joins = [i \in DOMAIN joins |->
             [type |-> joins[i].type,
              left |-> Place(joins[i].left), leftColumn |-> joins[i].leftColumn,
              right |-> Place(joins[i].right), rightColumn |-> joins[i].rightColumn,
              types |-> TypesAt(i)]]
      BY <1>6 DEF BuildJoins
    <2> HIDE DEF TypesAt, Place, n
    <2>3. /\ DOMAIN compiled.joins = 1..n
          /\ \A i \in 1..n : /\ compiled.joins[i].left = Place(joins[i].left)
                             /\ compiled.joins[i].right = Place(joins[i].right)
                             /\ compiled.joins[i].types = TypesAt(i)
      BY <2>1, <2>2
    <2> QED BY <2>3 DEF TypesAt
  <1> HIDE DEF Place, n
  <1>8. ASSUME NEW j \in 0..n
        PROVE  /\ BroughtBy(q, j) \subseteq Range(ds)
               /\ Bound(compiled, j) = {Place(d) : d \in BroughtBy(q, j)}
    <2>1. \A i \in 1..j : i \in 1..n
      BY <1>2
    <2>2. BroughtBy(q, j) \subseteq Range(ds)
      BY <1>1, <1>2, <1>5, <2>1 DEF BroughtBy
    <2>3. {compiled.joins[i].right : i \in 1..j} = {Place(q.joins[i].right) : i \in 1..j}
      BY <1>7, <2>1
    <2>4. {Place(d) : d \in BroughtBy(q, j)}
            = {Place(ds[1])} \cup {Place(q.joins[i].right) : i \in 1..j}
      BY DEF BroughtBy
    <2> QED BY <1>5, <2>2, <2>3, <2>4 DEF Bound
  <1>9. ASSUME NEW i \in 1..n
        PROVE  /\ compiled.joins[i].right \notin Bound(compiled, i - 1)
               /\ compiled.joins[i].left \in Bound(compiled, i)
               /\ Cardinality(compiled.joins[i].types) = 1
    <2>1. i - 1 \in 0..n /\ i \in 0..n
      BY <1>2
    <2>2. /\ q.joins[i].right \notin BroughtBy(q, i - 1) /\ q.joins[i].left \in BroughtBy(q, i)
          /\ q.joins[i].right \in Range(ds) /\ q.joins[i].left \in Range(ds)
          /\ Types[q.joins[i].left][q.joins[i].leftColumn]
                = Types[q.joins[i].right][q.joins[i].rightColumn]
      BY <1>1, <1>2 DEF Wired
    <2>3. ASSUME NEW d \in BroughtBy(q, i - 1) PROVE Place(d) # Place(q.joins[i].right)
      BY <1>4, <1>8, <2>1, <2>2
    <2>4. compiled.joins[i].right \notin Bound(compiled, i - 1)
      BY <1>7, <1>8, <2>1, <2>3
    <2>5. compiled.joins[i].left \in Bound(compiled, i)
      BY <1>7, <1>8, <2>1, <2>2
    <2>6. \A d \in Range(ds) : full[Place(d)].types = Types[d]
      BY <1>3, <1>4
    <2>7. compiled.joins[i].types = {Types[q.joins[i].left][q.joins[i].leftColumn]}
      BY <1>7, <2>2, <2>6
    <2>8. Cardinality(compiled.joins[i].types) = 1
      BY <2>7, FS_Singleton
    <2> QED BY <2>4, <2>5, <2>8
  <1>10. ASSUME NEW name \in NamesIn(q), Resolve(full, name) = Fine
         PROVE  compiled.owner[name] \in Bound(compiled, n)
    <2>1. PICK i \in 1..Len(ds) :
             /\ Min(Owners(full, name)) = i
             /\ {d \in Range(ds) : name \in DOMAIN Types[d]} = {ds[i]}
      BY <1>1, <1>10, ResolveLoaded DEF full
    <2>2. name \in Names(full)
      <3>1. Resolve(full, name) # "COLUMN_NOT_FOUND"
        BY <1>10 DEF Fine
      <3> QED BY <1>1, <3>1, ResolveLoaded DEF full
    <2>3. compiled.owner[name] = i
      BY <1>6, <2>1, <2>2
    <2>4. ds[i] \in BroughtBy(q, n)
      BY <1>3, <2>1 DEF Wired, n
    <2>5. n \in 0..n
      BY <1>2
    <2> QED BY <1>3, <1>8, <2>3, <2>4, <2>5
  <1>11. ASSUME NEW i \in DOMAIN compiled.groupBy
         PROVE  compiled.owner[compiled.groupBy[i].column] \in Bound(compiled, n)
    <2>1. DimensionFault(q.dimensions[i], full) = Fine
      BY <1>1, <1>6, QueryFaultIs DEF full
    <2>2. Resolve(full, q.dimensions[i].column) = Fine
      BY <2>1 DEF DimensionFault
    <2>3. q.dimensions[i].column \in NamesIn(q)
      BY <1>6 DEF NamesIn
    <2> QED BY <1>6, <1>10, <2>2, <2>3
  <1>12. ASSUME NEW i \in DOMAIN compiled.values
         PROVE  /\ StarFits(compiled.values[i])
                /\ \A name \in TreeColumns(compiled.values[i]) :
                      compiled.owner[name] \in Bound(compiled, n)
    <2>1. i \in DOMAIN q.metrics /\ compiled.values[i] = Expression(q.metrics[i])
      BY <1>6
    <2>2. /\ StarFits(Expression(q.metrics[i]))
          /\ \A name \in TreeColumns(Expression(q.metrics[i])) :
                name \in NamesIn(q) /\ Resolve(full, name) = Fine
      BY <2>1, ExpressionNames DEF full
    <2> QED BY <1>10, <2>1, <2>2
  <1>13. ASSUME NEW name \in FilterColumns(compiled.where)
         PROVE  compiled.owner[name] \in Bound(compiled, n)
    <2>1. name \in FilterColumns(q.filters)
      BY <1>1, <1>2, <1>6, ClauseColumns DEF built
    <2>2. PICK i \in DOMAIN q.filters : ~IsGroup(q.filters[i]) /\ name = q.filters[i].column
      BY <2>1 DEF FilterColumns
    <2>3. FilterFault(q.filters[i], full) = Fine
      BY <1>1, QueryFaultIs DEF full
    <2>4. Resolve(full, name) = Fine
      BY <2>2, <2>3 DEF FilterFault
    <2> QED BY <1>10, <2>1, <2>4 DEF NamesIn
  <1>14. Binds(compiled)
    <2> DEFINE grouping == {compiled.groupBy[i].column : i \in DOMAIN compiled.groupBy}
               valued == UNION {TreeColumns(compiled.values[i]) : i \in DOMAIN compiled.values}
               named == {compiled.groupBy[i].column : i \in DOMAIN compiled.groupBy}
                          \cup FilterColumns(compiled.where)
                          \cup UNION {TreeColumns(compiled.values[i]) : i \in DOMAIN compiled.values}
    <2>1. Len(compiled.joins) = n
      <3>1. compiled.joins = [i \in 1..n |-> compiled.joins[i]]
        BY <1>2, <1>6 DEF BuildJoins, n
      <3> QED BY <1>2, <3>1
    <2>2. ASSUME NEW name \in named PROVE compiled.owner[name] \in Bound(compiled, n)
      <3>1. CASE name \in grouping
        BY <1>11, <3>1
      <3>2. CASE name \in valued
        <4>1. PICK i \in DOMAIN compiled.values : name \in TreeColumns(compiled.values[i])
          BY <3>2
        <4> QED BY <1>12, <4>1
      <3>3. CASE name \in FilterColumns(compiled.where)
        BY <1>13, <3>3
      <3>4. name \in grouping \/ name \in valued \/ name \in FilterColumns(compiled.where)
        BY <2>2
      <3> HIDE DEF grouping, valued, named
      <3> QED BY <3>1, <3>2, <3>3, <3>4
    <2> HIDE DEF named
    <2>3. {compiled.owner[name] : name \in named} \subseteq Bound(compiled, Len(compiled.joins))
      BY <2>1, <2>2
    <2> QED BY <1>7, <1>9, <1>12, <1>16, <2>3 DEF Binds, named
  <1>15. Reads(compiled) \subseteq Range(ds)
    <2>1. Len(compiled.joins) = n /\ n \in 0..n
      <3>1. compiled.joins = [i \in 1..n |-> compiled.joins[i]]
        BY <1>2, <1>6 DEF BuildJoins, n
      <3> QED BY <1>2, <3>1
    <2>2. ASSUME NEW j \in Bound(compiled, n) PROVE compiled.tables[j] \in Range(ds)
      <3>1. PICK d \in Range(ds) : j = Place(d)
        BY <1>8, <2>1
      <3>2. j \in 1..Len(ds)
        BY <1>4, <3>1
      <3> QED BY <1>3, <1>6, <3>2
    <2> QED BY <2>1, <2>2 DEF Reads
  <1> QED BY <1>14, <1>15 DEF compiled, full
-----------------------------------------------------------------------------
(* What the studio asks while nothing is deleted                             *)

Loads == {"row", "file", "columns"}
Compiled == {"compile", "run", "count"}

Held(ds, m) == {ds[i] : i \in 1..m}

\* Without a deletion the datasets are ready, in the bucket, and loaded in order.
ReadyInv ==
    LET ds == query.datasets
        before == IF k = 0 THEN 0 ELSE k - 1
    IN  /\ \A d \in Ids : status[d] = "READY"
        /\ objects = Ids
        /\ pc \in {"form", "require"} => k = 0 /\ loads = <<>>
        /\ pc \in Loads => /\ k \in 0..Len(ds) /\ loads = Loaded(ds, before)
                           /\ Held(ds, before) \subseteq cached
        /\ pc = "columns" => Loading \in cached
        /\ pc \in Compiled => loads = Full(ds) /\ Range(ds) \subseteq cached
        /\ Rejected =>
              \/ answer.code = "VALIDATION_ERROR" /\ ~SchemaTakes(query)
              \/ /\ loads = Full(ds)
                 /\ \/ /\ answer.code = QueryFault(query, loads)
                       /\ QueryFault(query, loads) # Fine
                    \/ /\ answer.code = "QUERY_FAILED"
                       /\ QueryFault(query, loads) = Fine
                       /\ ~(LET compiled == Compile(query, loads)
                            IN  Binds(compiled) /\ Reads(compiled) \subseteq Range(ds))

ServedInv ==
    /\ Len(deletions) \in Nat /\ DOMAIN deletions = 1..Len(deletions)
    /\ deletions \in Seq(Range(deletions))
    /\ via = "studio" /\ ~Padded(form) =>
          /\ pc # "form" => Accepted(query)
          /\ Touched = {} => ReadyInv

LEMMA LoadedNone ==
    ASSUME NEW ds
    PROVE  Loaded(ds, 0) = <<>> /\ Held(ds, 0) = {}
  <1>1. Held(ds, 0) = {}
    BY DEF Held
  <1>2. Loaded(ds, 0) \in Seq({}) /\ Len(Loaded(ds, 0)) = 0
    BY DEF Loaded
  <1> QED BY <1>1, <1>2

LEMMA LoadedNext ==
    ASSUME NEW ds, IsSelection(ds), NEW m \in 1..Len(ds)
    PROVE  /\ Append(Loaded(ds, m - 1), [id |-> ds[m], types |-> Types[ds[m]]]) = Loaded(ds, m)
           /\ Held(ds, m) = Held(ds, m - 1) \cup {ds[m]}
  <1> DEFINE load == [id |-> ds[m], types |-> Types[ds[m]]]
             before == Loaded(ds, m - 1)
             next == Append(before, load)
  <1>1. Len(ds) \in Nat /\ m \in Nat /\ m - 1 \in Nat /\ 1..m = (1..(m - 1)) \cup {m}
    BY LoadedIs
  <1>2. /\ before = [i \in 1..(m - 1) |-> [id |-> ds[i], types |-> Types[ds[i]]]]
        /\ Loaded(ds, m) = [i \in 1..m |-> [id |-> ds[i], types |-> Types[ds[i]]]]
    BY DEF Loaded
  <1>3. before \in Seq(Range(before)) /\ Len(before) = m - 1
    BY <1>1, <1>2, ListOf
  <1> HIDE DEF before, load
  <1>4. /\ next \in Seq(Range(before) \cup {load}) /\ Len(next) = m
        /\ \A i \in 1..m : next[i] = IF i = m THEN load ELSE before[i]
    BY <1>1, <1>3
  <1>5. next = [i \in 1..m |-> next[i]]
    <2> DEFINE V == Range(before) \cup {load}
    <2> HIDE DEF next, V
    <2>1. next \in Seq(V) /\ Len(next) = m
      BY <1>4 DEF V
    <2> QED BY <2>1
  <1>6. ASSUME NEW i \in 1..m PROVE next[i] = [id |-> ds[i], types |-> Types[ds[i]]]
    <2>1. CASE i = m
      BY <1>4, <2>1 DEF load
    <2>2. CASE i # m
      <3>1. i \in 1..(m - 1)
        BY <1>1, <2>2
      <3> QED BY <1>2, <1>4, <2>2, <3>1
    <2> QED BY <2>1, <2>2
  <1> HIDE DEF next
  <1>7. next = Loaded(ds, m)
    BY <1>2, <1>5, <1>6
  <1>8. Held(ds, m) = Held(ds, m - 1) \cup {ds[m]}
    BY <1>1 DEF Held
  <1> QED BY <1>7, <1>8 DEF next, before, load

\* The dataset that is being loaded is ready, and its file is there.
LEMMA LoadingIs ==
    ASSUME ReadyInv, Accepted(query), pc \in Loads
    PROVE  /\ Loading \in Ids /\ Loading \in Range(query.datasets)
           /\ status[Loading] = "READY" /\ Loading \in objects
           /\ Len(query.datasets) \in Nat \ {0}
           /\ Loading = query.datasets[IF k = 0 THEN 1 ELSE k]
  <1> DEFINE ds == query.datasets
             n == Len(ds)
  <1>1. IsSelection(ds) /\ ds # <<>> /\ ds \in Seq(Range(ds))
    BY DEF Accepted, IsSelection
  <1>2. n \in Nat \ {0} /\ \A i \in 1..n : ds[i] \in Range(ds) /\ ds[i] \in Ids
    <2>1. n \in Nat /\ \A i \in 1..n : ds[i] \in Range(ds) /\ ds[i] \in Ids
      BY <1>1, LoadedIs DEF Ids
    <2>2. n # 0
      BY <1>1
    <2> QED BY <2>1, <2>2
  <1>3. k \in 0..n
    BY DEF ReadyInv
  <1>4. (IF k = 0 THEN 1 ELSE k) \in 1..n
    BY <1>2, <1>3
  <1>5. Loading = ds[IF k = 0 THEN 1 ELSE k]
    BY DEF Loading
  <1>6. Loading \in Ids /\ Loading \in Range(ds)
    BY <1>2, <1>4, <1>5
  <1> QED BY <1>2, <1>5, <1>6 DEF ReadyInv

LEMMA ServedInit == Init => ServedInv
  <1> SUFFICES ASSUME Init PROVE ServedInv
    OBVIOUS
  <1>1. /\ deletions = <<>> /\ pc = "form" /\ k = 0 /\ loads = <<>> /\ answer = Null
        /\ objects = Ids
    BY DEF Init
  <1>2. Len(deletions) \in Nat /\ DOMAIN deletions = 1..Len(deletions)
        /\ deletions \in Seq(Range(deletions))
    BY <1>1
  <1>3. ASSUME via = "studio" PROVE ReadyInv
    <2>1. PICK late \in {Null} \cup Range(form.datasets) :
             /\ via = "studio" => late = Null
             /\ status = [d \in Ids |-> IF d = late THEN "PROCESSING" ELSE "READY"]
      BY DEF Init
    <2>2. \A d \in Ids : status[d] = "READY"
      BY <1>3, <2>1, ColumnsHaveTypes DEF Ids
    <2> QED BY <1>1, <2>2 DEF ReadyInv, Loads, Compiled, Rejected
  <1> QED BY <1>1, <1>2, <1>3 DEF ServedInv

\* A deletion that has begun is never forgotten, and nothing is gone without one.
LEMMA DeletionsNext ==
    ASSUME QueryInv, ServedInv, [Next]_vars
    PROVE  /\ Len(deletions') \in Nat /\ DOMAIN deletions' = 1..Len(deletions')
           /\ deletions' \in Seq(Range(deletions'))
           /\ Touched' = {} => UNCHANGED deletions /\ Touched = {}
           /\ via = "studio" /\ Touched' = {} /\ ReadyInv => UNCHANGED <<status, objects>>
  <1> DEFINE n == Len(deletions)
  <1>1. n \in Nat /\ DOMAIN deletions = 1..n /\ deletions \in Seq(Range(deletions))
    BY DEF ServedInv
  <1>2. CASE UNCHANGED <<status, objects, deletions>>
    BY <1>1, <1>2 DEF Touched
  <1>3. ASSUME NEW d \in Range(form.datasets), DeleteObject(d)
        PROVE  /\ Len(deletions') \in Nat /\ DOMAIN deletions' = 1..Len(deletions')
               /\ deletions' \in Seq(Range(deletions')) /\ Touched' # {}
    <2> DEFINE begun == [of |-> d, next |-> "cache"]
    <2>1. deletions' = Append(deletions, begun)
      BY <1>3 DEF DeleteObject
    <2> HIDE DEF begun, n
    <2>2. deletions' \in Seq(Range(deletions) \cup {begun})
      BY <1>1, <2>1
    <2>3. Len(deletions') = n + 1
      BY <1>1, <2>1 DEF n
    <2>4. /\ DOMAIN deletions' = 1..Len(deletions') /\ deletions' \in Seq(Range(deletions'))
          /\ Len(deletions') \in Nat
      BY <2>2, IsList
    <2>5. n + 1 \in DOMAIN deletions'
      BY <1>1, <2>3, <2>4
    <2>6. Touched' # {}
      BY <2>5 DEF Touched
    <2> QED BY <2>4, <2>6
  <1>4. ASSUME NEW i \in DOMAIN deletions, NEW field \in {"row", "done"},
               deletions' = [deletions EXCEPT ![i].next = field]
        PROVE  /\ Len(deletions') \in Nat /\ DOMAIN deletions' = 1..Len(deletions')
               /\ deletions' \in Seq(Range(deletions')) /\ Touched' # {}
    <2>1. DOMAIN deletions' = 1..n /\ deletions' = [j \in DOMAIN deletions' |-> deletions'[j]]
      BY <1>1, <1>4
    <2> HIDE DEF n
    <2>2. deletions' \in Seq(Range(deletions')) /\ Len(deletions') = n
      BY <1>1, <2>1, ListOf
    <2>3. i \in DOMAIN deletions'
      BY <1>1, <2>1
    <2>4. Touched' # {}
      BY <2>3 DEF Touched
    <2> QED BY <1>1, <2>1, <2>2, <2>4
  <1>5. ASSUME NEW d \in Range(form.datasets), FinishProcessing(d)
        PROVE  UNCHANGED <<objects, deletions>> /\ (via = "studio" => ~ReadyInv)
    <2>1. UNCHANGED <<objects, deletions>> /\ status[d] = "PROCESSING"
      BY <1>5 DEF FinishProcessing
    <2>2. via = "studio" => d \in Ids
      <3>1. via = "studio" => form \in Forms /\ "call" \notin DOMAIN form
        BY DEF QueryInv
      <3> QED BY <3>1, FormsAreLists DEF Ids
    <2> QED BY <2>1, <2>2 DEF ReadyInv
  <1>6. CASE \E d \in Range(form.datasets) : DeleteObject(d) \/ FinishProcessing(d)
    <2>1. CASE \E d \in Range(form.datasets) : DeleteObject(d)
      BY <1>3, <2>1
    <2>2. CASE \E d \in Range(form.datasets) : FinishProcessing(d)
      BY <1>1, <1>5, <2>2 DEF Touched
    <2> QED BY <1>6, <2>1, <2>2
  <1>7. CASE \E i \in DOMAIN deletions : ReleaseLocalPath(i) \/ DeleteRow(i)
    <2>1. PICK i \in DOMAIN deletions, field \in {"row", "done"} :
             deletions' = [deletions EXCEPT ![i].next = field]
      BY <1>7 DEF ReleaseLocalPath, DeleteRow
    <2> QED BY <1>4, <2>1
  <1>8. CASE \/ RunInStudio \/ CallApi \/ RequireDataset \/ LoadSchema \/ AcquireLocalPath
             \/ ListColumns \/ CompileQuery \/ RunData \/ RunCount
    <2>1. UNCHANGED <<status, objects, deletions>>
      BY <1>8 DEF RunInStudio, CallApi, Send, RequireDataset, LoadSchema, AcquireLocalPath,
                  ListColumns, CompileQuery, RunData, RunCount, storage
    <2> QED BY <1>2, <2>1
  <1>9. CASE \/ AskAnalysis \/ RequireDatasetOwner \/ ListAnalysed \/ AssertReady
             \/ RunStatement \/ UNCHANGED vars
    <2>1. UNCHANGED <<status, objects, deletions>>
      BY <1>9 DEF AskAnalysis, RequireDatasetOwner, ListAnalysed, AssertReady, RunStatement,
         ServeCall,
                  storage, vars
    <2> QED BY <1>2, <2>1
  <1> QED BY <1>6, <1>7, <1>8, <1>9 DEF Next

LEMMA ServedNext == QueryInv /\ ServedInv /\ [Next]_vars => ServedInv'
  <1> SUFFICES ASSUME QueryInv, ServedInv, [Next]_vars PROVE ServedInv'
    OBVIOUS
  <1>1. /\ Len(deletions') \in Nat /\ DOMAIN deletions' = 1..Len(deletions')
        /\ deletions' \in Seq(Range(deletions'))
        /\ Touched' = {} => UNCHANGED deletions /\ Touched = {}
        /\ via = "studio" /\ Touched' = {} /\ ReadyInv => UNCHANGED <<status, objects>>
    BY DeletionsNext
  <1>2. SUFFICES ASSUME via' = "studio", ~Padded(form')
                 PROVE  /\ pc' # "form" => Accepted(query')
                        /\ Touched' = {} => ReadyInv'
    BY <1>1 DEF ServedInv
  <1>3. via = "studio" /\ ~Padded(form)
    BY <1>2 DEF Next, RunInStudio, CallApi, Send, RequireDataset, LoadSchema, AcquireLocalPath,
                ListColumns, CompileQuery, RunData, RunCount, AskAnalysis, RequireDatasetOwner,
                ListAnalysed, AssertReady, RunStatement, ServeCall, DeleteObject, FinishProcessing,
                ReleaseLocalPath, DeleteRow, vars
  <1>4. /\ pc # "form" => Accepted(query)
        /\ Touched' = {} => ReadyInv /\ UNCHANGED <<status, objects>>
        /\ pc \notin Analysing
        /\ pc # "done" => answer = Null
    BY <1>1, <1>3 DEF ServedInv, QueryInv
  <1>5. CASE RunInStudio
    <2>1. /\ pc = "form" /\ UNCHANGED <<k, loads>>
          /\ query' = Parsed(BuildDataMartQuery(form)) /\ ValidateQuery(form)
          /\ \/ pc' = "require" /\ UNCHANGED answer
             \/ /\ pc' = "done" /\ answer'.code = "VALIDATION_ERROR"
                /\ ~SchemaTakes(query')
      BY <1>5 DEF RunInStudio, Send, Refuse
    <2>2. form \in Forms /\ "call" \notin DOMAIN form
      BY <1>3 DEF QueryInv
    <2>3. Accepted(query')
      BY <1>3, <2>1, <2>2, StudioAccepts
    <2>5. answer = Null
      BY <1>4, <2>1
    <2>4. ASSUME Touched' = {} PROVE ReadyInv'
      <3>1. ReadyInv /\ UNCHANGED <<status, objects>>
        BY <1>4, <2>4
      <3>2. (\A d \in Ids : status[d] = "READY")' /\ objects' = Ids
        BY <3>1 DEF ReadyInv
      <3>3. k' = 0 /\ loads' = <<>>
        BY <2>1, <3>1 DEF ReadyInv
      <3> QED BY <2>1, <2>5, <3>2, <3>3 DEF ReadyInv, Loads, Compiled, Rejected
    <2> QED BY <2>3, <2>4
  <1>6. CASE CallApi
    BY <1>3, <1>6 DEF CallApi
  <1>7. CASE RequireDataset
    <2>1. pc = "require" /\ UNCHANGED <<query, k, loads, cached>>
      BY <1>7 DEF RequireDataset, storage
    <2>2. Accepted(query)
      BY <1>4, <2>1
    <2>3. ASSUME Touched' = {} PROVE ReadyInv'
      <3>1. ReadyInv /\ UNCHANGED <<status, objects>> /\ k = 0 /\ loads = <<>>
        BY <1>4, <2>1, <2>3 DEF ReadyInv
      <3>2. query.datasets[1] \in Ids /\ 0 \in 0..Len(query.datasets)
        <4>1. query.datasets \in Seq(Range(query.datasets)) /\ query.datasets # <<>>
              /\ Range(query.datasets) \subseteq Ids
          BY <2>2 DEF Accepted, IsSelection, Ids
        <4>2. 1 \in DOMAIN query.datasets /\ Len(query.datasets) \in Nat
          BY <4>1
        <4> QED BY <4>1, <4>2 DEF Range
      <3>3. status[query.datasets[1]] = "READY"
        BY <3>1, <3>2 DEF ReadyInv
      <3>4. pc' = "row" /\ UNCHANGED answer
        BY <1>7, <3>3 DEF RequireDataset, Usable
      <3>5. loads = Loaded(query.datasets, 0) /\ Held(query.datasets, 0) \subseteq cached
        BY <3>1, LoadedNone
      <3> QED BY <1>4, <2>1, <3>1, <3>2, <3>4, <3>5 DEF ReadyInv, Loads, Compiled, Rejected
    <2> QED BY <2>1, <2>2, <2>3
  <1>8. CASE LoadSchema
    <2>1. pc = "row" /\ UNCHANGED <<query, k, loads, cached>>
      BY <1>8 DEF LoadSchema, storage
    <2>2. Accepted(query)
      BY <1>4, <2>1
    <2>3. ASSUME Touched' = {} PROVE ReadyInv'
      <3>1. ReadyInv /\ UNCHANGED <<status, objects>>
        BY <1>4, <2>3
      <3>2. status[Loading] = "READY"
        BY <2>1, <2>2, <3>1, LoadingIs DEF Loads
      <3>3. pc' = "file" /\ UNCHANGED answer
        BY <1>8, <3>2 DEF LoadSchema, Usable
      <3> QED BY <1>4, <2>1, <3>1, <3>3 DEF ReadyInv, Loads, Compiled, Rejected
    <2> QED BY <2>1, <2>2, <2>3
  <1>9. CASE AcquireLocalPath
    <2>1. pc = "file" /\ UNCHANGED <<query, k, loads>>
      BY <1>9 DEF AcquireLocalPath
    <2>2. Accepted(query)
      BY <1>4, <2>1
    <2>3. ASSUME Touched' = {} PROVE ReadyInv'
      <3>1. ReadyInv /\ UNCHANGED <<status, objects>>
        BY <1>4, <2>3
      <3>2. Loading \in objects
        BY <2>1, <2>2, <3>1, LoadingIs DEF Loads
      <3>3. cached' = cached \cup {Loading} /\ pc' = "columns" /\ UNCHANGED answer
        BY <1>9, <3>2 DEF AcquireLocalPath
      <3>4. Loading' = Loading
        BY <2>1 DEF Loading
      <3> QED BY <1>4, <2>1, <3>1, <3>3, <3>4 DEF ReadyInv, Loads, Compiled, Rejected
    <2> QED BY <2>1, <2>2, <2>3
  <1>10. CASE ListColumns
    <2>1. pc = "columns" /\ UNCHANGED <<query, answer, cached>>
      BY <1>10 DEF ListColumns, storage
    <2>2. Accepted(query)
      BY <1>4, <2>1
    <2>3. ASSUME Touched' = {} PROVE ReadyInv'
      <3> DEFINE ds == query.datasets
                 n == Len(ds)
      <3>1. ReadyInv /\ UNCHANGED <<status, objects>> /\ answer = Null
        BY <1>4, <2>1, <2>3
      <3>2. /\ status[Loading] = "READY" /\ n \in Nat \ {0} /\ Loading = ds[IF k = 0 THEN 1 ELSE k]
            /\ k \in 0..n /\ Loading \in cached
        BY <2>1, <2>2, <3>1, LoadingIs DEF Loads, ReadyInv
      <3>3. loads' = IF k = 0 THEN loads ELSE Append(loads, [id |-> Loading, types |-> Types[Loading]])
        BY <1>10, <3>2 DEF ListColumns
      <3>4. /\ loads = Loaded(ds, IF k = 0 THEN 0 ELSE k - 1)
            /\ Held(ds, IF k = 0 THEN 0 ELSE k - 1) \subseteq cached
        BY <2>1, <3>1 DEF ReadyInv, Loads
      <3>5. loads' = Loaded(ds, k) /\ Held(ds, k) \subseteq cached
        <4>1. CASE k = 0
          BY <3>3, <3>4, <4>1
        <4>2. CASE k # 0
          <5>1. k \in 1..n /\ IsSelection(ds)
            BY <2>2, <3>2, <4>2 DEF Accepted
          <5>2. /\ Append(Loaded(ds, k - 1), [id |-> ds[k], types |-> Types[ds[k]]]) = Loaded(ds, k)
                /\ Held(ds, k) = Held(ds, k - 1) \cup {ds[k]}
            BY <5>1, LoadedNext
          <5> QED BY <3>2, <3>3, <3>4, <4>2, <5>2
        <4> QED BY <4>1, <4>2
      <3>6. CASE k = n
        <4>1. pc' = "compile"
          BY <1>10, <3>6 DEF ListColumns
        <4>2. loads' = Full(ds)
          BY <3>5, <3>6 DEF Full
        <4>3. Range(ds) \subseteq cached
          <5>1. \A d \in Range(ds) : \E i \in 1..n : d = ds[i]
            <6>1. DOMAIN ds = 1..n
              BY <2>2, LoadedIs DEF Accepted
            <6> QED BY <6>1 DEF Range
          <5> QED BY <3>5, <3>6, <5>1 DEF Held
        <4> HIDE DEF n
        <4> QED BY <2>1, <3>1, <4>1, <4>2, <4>3 DEF ReadyInv, Loads, Compiled, Rejected
      <3>7. CASE k # n
        <4>1. pc' = "row" /\ k' = k + 1 /\ k' \in 0..n /\ k' # 0 /\ k' - 1 = k
          BY <1>10, <3>2, <3>7 DEF ListColumns
        <4> QED BY <2>1, <3>1, <3>5, <4>1 DEF ReadyInv, Loads, Compiled, Rejected
      <3> QED BY <3>6, <3>7
    <2> QED BY <2>1, <2>2, <2>3
  <1>11. CASE CompileQuery
    <2>1. pc = "compile" /\ UNCHANGED <<query, k, loads, cached>>
      BY <1>11 DEF CompileQuery, storage
    <2>2. Accepted(query)
      BY <1>4, <2>1
    <2>3. ASSUME Touched' = {} PROVE ReadyInv'
      <3>1. /\ ReadyInv /\ UNCHANGED <<status, objects>> /\ answer = Null
            /\ loads = Full(query.datasets) /\ Range(query.datasets) \subseteq cached
        BY <1>4, <2>1, <2>3 DEF ReadyInv, Compiled
      <3>2. CASE QueryFault(query, loads) = Fine
        <4>1. pc' = "run" /\ UNCHANGED answer
          BY <1>11, <3>2 DEF CompileQuery
        <4> QED BY <2>1, <3>1, <4>1 DEF ReadyInv, Loads, Compiled, Rejected
      <3>3. CASE QueryFault(query, loads) # Fine
        <4>1. pc' = "done" /\ answer'.code = QueryFault(query, loads)
          BY <1>11, <3>3 DEF CompileQuery, Refuse
        <4> QED BY <2>1, <3>1, <3>3, <4>1 DEF ReadyInv, Loads, Compiled, Rejected
      <3> QED BY <3>2, <3>3
    <2> QED BY <2>1, <2>2, <2>3
  <1>12. CASE RunData
    <2>1. pc = "run" /\ UNCHANGED <<query, k, loads, cached>>
      BY <1>12 DEF RunData, storage
    <2>2. Accepted(query)
      BY <1>4, <2>1
    <2>3. ASSUME Touched' = {} PROVE ReadyInv'
      <3>1. /\ ReadyInv /\ UNCHANGED <<status, objects>> /\ answer = Null
            /\ loads = Full(query.datasets) /\ Range(query.datasets) \subseteq cached
        BY <1>4, <2>1, <2>3 DEF ReadyInv, Compiled
      <3>2. CASE Binds(plan) /\ Reads(plan) \subseteq cached
        <4>1. \/ pc' = "count" /\ UNCHANGED answer
              \/ pc' = "done" /\ answer'.kind = "rows"
          BY <1>12, <3>2 DEF RunData, Answer
        <4>2. ~Rejected'
          BY <3>1, <4>1 DEF Rejected
        <4> QED BY <2>1, <3>1, <4>1, <4>2 DEF ReadyInv, Loads, Compiled
      <3>3. CASE ~(Binds(plan) /\ Reads(plan) \subseteq cached)
        <4>1. pc' = "done" /\ answer'.code = "QUERY_FAILED"
          BY <1>12, <3>3 DEF RunData, Refuse
        <4>2. QueryFault(query, loads) = Fine /\ plan = Compile(query, loads)
          BY <2>1 DEF QueryInv
        <4>3. ~(LET compiled == Compile(query, loads)
                IN  Binds(compiled) /\ Reads(compiled) \subseteq Range(query.datasets))
          BY <3>1, <3>3, <4>2
        <4> QED BY <2>1, <3>1, <4>1, <4>2, <4>3 DEF ReadyInv, Loads, Compiled
      <3> QED BY <3>2, <3>3
    <2> QED BY <2>1, <2>2, <2>3
  <1>13. CASE RunCount
    <2>1. /\ pc = "count" /\ UNCHANGED <<query, k, loads, cached>>
          /\ pc' = "done" /\ answer'.kind = "rows"
      BY <1>13 DEF RunCount, Answer, storage
    <2>2. Accepted(query)
      BY <1>4, <2>1
    <2>3. ~Rejected'
      BY <2>1 DEF Rejected
    <2> QED BY <1>4, <2>1, <2>2, <2>3 DEF ReadyInv, Loads, Compiled
  <1>14. CASE AskAnalysis
    BY <1>3, <1>14 DEF AskAnalysis
  <1>15. CASE RequireDatasetOwner \/ ListAnalysed \/ AssertReady \/ RunStatement
    BY <1>4, <1>15
       DEF RequireDatasetOwner, ListAnalysed, AssertReady, RunStatement, ServeCall, Analysing
  <1>16. CASE \E d \in Range(form.datasets) : DeleteObject(d) \/ FinishProcessing(d)
    <2>1. CASE \E d \in Range(form.datasets) : DeleteObject(d)
      <3>1. PICK d \in Range(form.datasets) : DeleteObject(d)
        BY <2>1
      <3>2. deletions' # deletions
        <4>1. deletions' = Append(deletions, [of |-> d, next |-> "cache"])
          BY <3>1 DEF DeleteObject
        <4>2. Len(deletions') = Len(deletions) + 1 /\ Len(deletions) \in Nat
          BY <4>1 DEF ServedInv
        <4> QED BY <4>2
      <3>3. UNCHANGED <<pc, query>>
        BY <3>1 DEF DeleteObject, serving
      <3> QED BY <1>1, <1>4, <3>2, <3>3
    <2>2. CASE \E d \in Range(form.datasets) : FinishProcessing(d)
      <3>1. UNCHANGED <<pc, query, k, loads, answer, cached>>
        BY <2>2 DEF FinishProcessing, serving
      <3>2. Touched' = {} => ReadyInv'
        BY <1>4, <3>1 DEF ReadyInv, Loads, Compiled, Rejected, Loading
      <3> QED BY <1>4, <3>1, <3>2
    <2> QED BY <1>16, <2>1, <2>2
  <1>17. CASE \E i \in DOMAIN deletions : ReleaseLocalPath(i) \/ DeleteRow(i)
    <2>1. UNCHANGED <<pc, query>>
      BY <1>17 DEF ReleaseLocalPath, DeleteRow, serving
    <2>2. Touched' # {}
      <3>1. PICK i \in DOMAIN deletions, field \in {"row", "done"} :
               deletions' = [deletions EXCEPT ![i].next = field]
        BY <1>17 DEF ReleaseLocalPath, DeleteRow
      <3>2. DOMAIN deletions' = DOMAIN deletions
        BY <3>1
      <3> QED BY <3>2 DEF Touched
    <2> QED BY <1>4, <2>1, <2>2
  <1>18. CASE UNCHANGED vars
    <2>1. UNCHANGED <<pc, query, k, loads, answer, cached>>
      BY <1>18 DEF vars, serving, storage
    <2>2. Touched' = {} => ReadyInv'
      BY <1>4, <2>1 DEF ReadyInv, Loads, Compiled, Rejected, Loading
    <2> QED BY <1>4, <2>1, <2>2
  <1> QED BY <1>5, <1>6, <1>7, <1>8, <1>9, <1>10, <1>11, <1>12, <1>13, <1>14, <1>15,
             <1>16, <1>17, <1>18 DEF Next

\* Joins that bring in, each once and in order, the datasets of the names that have one
LEMMA WiredIs ==
    ASSUME NEW q, IsSelection(q.datasets), q.datasets # <<>>, q.joins \in Seq(Range(q.joins)),
           \A i \in DOMAIN q.joins :
              LET join == q.joins[i]
              IN  /\ join.right \notin BroughtBy(q, i - 1) /\ join.left \in BroughtBy(q, i)
                  /\ Types[join.left][join.leftColumn] = Types[join.right][join.rightColumn],
           \A name \in NamesIn(q) : \A d \in Range(q.datasets) :
              {e \in Range(q.datasets) : name \in DOMAIN Types[e]} = {d} =>
                 d \in {q.datasets[1]} \cup {q.joins[i].right : i \in DOMAIN q.joins}
    PROVE  Wired(q)
  <1>1. DOMAIN q.joins = 1..Len(q.joins)
    BY IsList
  <1>2. BroughtBy(q, Len(q.joins)) = {q.datasets[1]} \cup {q.joins[i].right : i \in DOMAIN q.joins}
    BY <1>1 DEF BroughtBy
  <1> QED BY <1>2 DEF Wired

\* The dataset of a name that only one has
LEMMA OwnerIs ==
    ASSUME NEW name, IsSelection(query.datasets), loads = Full(query.datasets),
           NEW d \in Range(query.datasets),
           {e \in Range(query.datasets) : name \in DOMAIN Types[e]} = {d}
    PROVE  Owner(name) = d /\ Owned(name) = 1
  <1> DEFINE ds == query.datasets
             owners == Owners(loads, name)
  <1>1. /\ DOMAIN ds = 1..Len(ds) /\ owners = {i \in 1..Len(ds) : name \in DOMAIN Types[ds[i]]}
        /\ \A i \in 1..Len(ds) : ds[i] \in Range(ds) /\ loads[i].id = ds[i]
    BY LoadedIs
  <1>2. PICK i \in 1..Len(ds) : ds[i] = d
    BY <1>1 DEF Range
  <1> HIDE DEF owners
  <1>3. {loads[j].id : j \in owners} = {d}
    <2>1. i \in owners /\ loads[i].id = d
      BY <1>1, <1>2
    <2>2. ASSUME NEW j \in owners PROVE loads[j].id = d
      BY <1>1
    <2> QED BY <2>1, <2>2
  <1>4. Owner(name) = d
    BY <1>3 DEF Owner, owners
  <1>5. Cardinality({d}) = 1
    BY FS_Singleton
  <1> QED BY <1>4, <1>5 DEF Owned

\* Its type
LEMMA TypeIs ==
    ASSUME NEW name, IsSelection(query.datasets), loads = Full(query.datasets),
           Resolve(loads, name) = Fine
    PROVE  name \in Names(loads) /\ ColumnTypes[name] = TypeOf(loads, name)
  <1> DEFINE ds == query.datasets
  <1>1. PICK i \in 1..Len(ds) : /\ {d \in Range(ds) : name \in DOMAIN Types[d]} = {ds[i]}
                               /\ TypeOf(loads, name) = Types[ds[i]][name]
    BY ResolveLoaded
  <1>2. name \in Names(loads)
    BY ResolveLoaded DEF Fine
  <1>3. ds[i] \in Range(ds)
    BY <1>1
  <1>4. Owner(name) = ds[i]
    BY <1>1, <1>3, OwnerIs
  <1> QED BY <1>1, <1>2, <1>4 DEF ColumnTypes

LEMMA InvServes == QueryInv /\ ServedInv => AcceptedIsServed
  <1> SUFFICES ASSUME QueryInv, ServedInv, via = "studio", Rejected, Touched = {}, ~Padded(form)
               PROVE  AcceptedIsServed
    BY DEF AcceptedIsServed
  <1> DEFINE ds == query.datasets
             code == answer.code
             Brings(i) == {query.datasets[1]} \cup {query.joins[j].right : j \in 1..i}
             named == {query.dimensions[i].column : i \in DOMAIN query.dimensions}
                        \cup {query.metrics[i].column : i \in DOMAIN query.metrics}
                        \cup FilterColumns(query.filters) \cup UNION {Range(f) : f \in Formulas}
             Compares(j) == Types[j.left][j.leftColumn] = Types[j.right][j.rightColumn]
             wired == /\ \A i \in DOMAIN query.joins :
                            /\ query.joins[i].right \notin Brings(i - 1)
                            /\ query.joins[i].left \in Brings(i)
                            /\ Compares(query.joins[i])
                      /\ \A name \in named : Owned(name) = 1 => Owner(name) \in Joined
             runnable == \A i \in DOMAIN query.filters :
                ~IsGroup(query.filters[i]) => ~Unrunnable(query.filters[i], ColumnTypes)
             fault == QueryFault(query, loads)
             compiled == Compile(query, loads)
  <1>1. pc = "done"
    BY DEF QueryInv, Rejected
  <1>2. Accepted(query) /\ ReadyInv
    BY <1>1 DEF ServedInv
  <1>8. CASE code = "VALIDATION_ERROR" /\ ~SchemaTakes(query)
    <2>1. /\ ds # <<>>
          /\ \A i \in DOMAIN query.metrics : query.metrics[i].formula = <<>> =>
                query.metrics[i].column # "none" /\ query.metrics[i].aggregation # "none"
          /\ query.limit \in 1..MaxLimit \cup {Junk} /\ query.offset \in 0..MaxOffset \cup {Junk}
      BY <1>2 DEF Accepted
    <2>2. ~WithinBounds(query) \/ Junk \in {query.limit, query.offset}
      BY <1>8, <2>1 DEF SchemaTakes
    <2> QED BY <1>8, <2>2 DEF AcceptedIsServed
  <1>9. SUFFICES ASSUME ~(code = "VALIDATION_ERROR" /\ ~SchemaTakes(query))
                 PROVE  AcceptedIsServed
    BY <1>8
  <1>3. /\ loads = Full(ds)
        /\ \/ code = fault /\ fault # Fine
           \/ /\ code = "QUERY_FAILED" /\ fault = Fine
              /\ ~(Binds(compiled) /\ Reads(compiled) \subseteq Range(ds))
    BY <1>2, <1>9 DEF ReadyInv
  <1>4. Formulas = FormulasOf(query) /\ named = NamesIn(query)
    BY DEF Formulas, FormulasOf, NamesIn
  <1>5. \A name : Owned(name) = OwnedBy(ds, name)
    BY DEF Owned, OwnedBy
  <1>6. CASE code = fault /\ fault # Fine
    <2>1. \/ code = "INVALID_METRIC" /\ FormulasOf(query) # {}
          \/ /\ code = "AMBIGUOUS_COLUMN"
             /\ \E name \in NamesIn(query) : OwnedBy(ds, name) > 1
          \/ /\ code = "COLUMN_NOT_FOUND"
             /\ \E name \in FilterColumns(query.filters) : OwnedBy(ds, name) = 0
      BY <1>2, <1>3, <1>6, AcceptedFault
    <2> HIDE DEF ds, code, named, wired, fault, compiled
    <2>2. \/ code = "INVALID_METRIC" /\ Formulas # {}
          \/ code = "AMBIGUOUS_COLUMN" /\ \E name \in named : Owned(name) > 1
          \/ /\ code = "COLUMN_NOT_FOUND"
             /\ \E name \in FilterColumns(query.filters) : Owned(name) = 0
      BY <1>4, <1>5, <2>1
    <2>3. CASE code = "INVALID_METRIC" /\ Formulas # {}
      BY <2>3 DEF AcceptedIsServed, code
    <2>4. CASE code = "AMBIGUOUS_COLUMN" /\ \E name \in named : Owned(name) > 1
      BY <2>4 DEF AcceptedIsServed, code, named
    <2>5. CASE /\ code = "COLUMN_NOT_FOUND"
               /\ \E name \in FilterColumns(query.filters) : Owned(name) = 0
      BY <2>5 DEF AcceptedIsServed, code
    <2> QED BY <2>2, <2>3, <2>4, <2>5
  <1>7. CASE /\ code = "QUERY_FAILED" /\ fault = Fine
             /\ ~(Binds(compiled) /\ Reads(compiled) \subseteq Range(ds))
    <2>1. ~wired \/ ~runnable \/ \E f \in Formulas : ~StarFits(Meaning(f))
      <3> SUFFICES ASSUME wired, runnable, \A f \in Formulas : StarFits(Meaning(f)) PROVE FALSE
        OBVIOUS
      <3>1. /\ IsSelection(ds) /\ ds # <<>> /\ query.joins \in Seq(Range(query.joins))
            /\ \A f \in FormulasOf(query) : StarFits(Meaning(f))
        BY <1>2, <1>4 DEF Accepted, IsQuery
      <3>2. \A i \in DOMAIN query.joins : /\ query.joins[i].right \notin BroughtBy(query, i - 1)
                                          /\ query.joins[i].left \in BroughtBy(query, i)
                                          /\ Compares(query.joins[i])
        BY DEF BroughtBy
      <3>3. ASSUME NEW name \in NamesIn(query), NEW d \in Range(ds),
                   {e \in Range(ds) : name \in DOMAIN Types[e]} = {d}
            PROVE  d \in {query.datasets[1]} \cup {query.joins[i].right : i \in DOMAIN query.joins}
        <4>1. Owner(name) = d /\ Owned(name) = 1
          BY <1>3, <3>1, <3>3, OwnerIs
        <4>2. name \in named
          BY <1>4, <3>3
        <4>3. Owner(name) \in Joined
          BY <4>1, <4>2
        <4> QED BY <4>1, <4>3 DEF Joined
      <3>4. Wired(query)
        BY <3>1, <3>2, <3>3, WiredIs
      <3>6. Runnable(query)
        <4>1. ASSUME NEW i \in DOMAIN query.filters, ~IsGroup(query.filters[i])
              PROVE  ~Unrunnable(query.filters[i], TypesOf(query))
          <5> DEFINE name == query.filters[i].column
          <5>1. FilterFault(query.filters[i], loads) = Fine
            BY <1>2, <1>3, <1>7, QueryFaultIs DEF Accepted
          <5>2. Resolve(loads, name) = Fine
            BY <4>1, <5>1 DEF FilterFault
          <5>3. ColumnTypes[name] = TypesOf(query)[name]
            BY <1>3, <3>1, <5>2, TypeIs DEF TypesOf
          <5> QED BY <4>1, <5>3 DEF Unrunnable
        <4> QED BY <4>1 DEF Runnable
      <3>5. Binds(compiled) /\ Reads(compiled) \subseteq Range(ds)
        BY <1>2, <1>3, <1>7, <3>1, <3>4, <3>6, AcceptedBinds
      <3> QED BY <1>7, <3>5
    <2> HIDE DEF fault, compiled, ds
    <2> QED BY <1>7, <2>1 DEF AcceptedIsServed
  <1> QED BY <1>3, <1>6, <1>7

\* Whatever the studio accepts is answered, unless a dataset of it is being deleted, a
\* column has spaces around its name, a list, a name or a formula is empty or too long or
\* a number a fraction, a name belongs to two datasets, a formula means nothing, a filter
\* names a column that no chosen dataset has or has a value that cannot be cast, or the
\* joins do not bring in what is named or compare columns of two types (validateQuery,
\* executeQuery, compile, runCompiled).
THEOREM AcceptedAreServed == Spec => []AcceptedIsServed
  <1> QED BY QueryInit, QueryNext, ServedInit, ServedNext, InvServes, PTL DEF Spec
-----------------------------------------------------------------------------
(* Folds over sets                                                           *)

\* A recursion over the subsets of a finite set, each taking one element away
Unfolds(f, S, base, pick, step) ==
    /\ f[{}] = base
    /\ \A s \in (SUBSET S) \ {{}} : pick[s] \in s /\ f[s] = step[pick[s]][f[s \ {pick[s]}]]

\* What is left of a finite set without one of its elements
LEMMA OneLess ==
    ASSUME NEW S, IsFiniteSet(S), NEW s \in SUBSET S, NEW x \in s
    PROVE  /\ s \ {x} \in SUBSET S /\ IsFiniteSet(s) /\ s # {}
           /\ Cardinality(s) \in Nat \ {0} /\ Cardinality(s \ {x}) = Cardinality(s) - 1
  <1>1. IsFiniteSet(s)
    BY FS_Subset
  <1>2. Cardinality(s) \in Nat /\ Cardinality(s) # 0
    BY <1>1, FS_CardinalityType, FS_EmptySet
  <1>3. Cardinality(s \ {x}) = Cardinality(s) - 1
    BY <1>1, FS_RemoveElement
  <1> QED BY <1>1, <1>2, <1>3

\* Induction over the subsets of a finite set, each one element larger
LEMMA SetInduction ==
    ASSUME NEW S, IsFiniteSet(S), NEW T, {} \in T,
           \A s \in (SUBSET S) \ {{}} : (\A x \in s : s \ {x} \in T) => s \in T
    PROVE  \A s \in SUBSET S : s \in T
  <1> DEFINE M == {m \in Nat : \A s \in SUBSET S : Cardinality(s) = m => s \in T}
  <1>1. ASSUME NEW m \in Nat, \A l \in 0..(m - 1) : l \in M PROVE m \in M
    <2> SUFFICES ASSUME NEW s \in SUBSET S, Cardinality(s) = m, s # {} PROVE s \in T
      OBVIOUS
    <2>1. ASSUME NEW x \in s PROVE s \ {x} \in T
      <3>1. s \ {x} \in SUBSET S /\ Cardinality(s \ {x}) = m - 1 /\ m \in Nat \ {0}
        BY OneLess
      <3>2. m - 1 \in 0..(m - 1)
        BY <3>1
      <3> QED BY <1>1, <3>1, <3>2
    <2> QED BY <2>1
  <1>2. \A m \in Nat : m \in M
    <2> HIDE DEF M
    <2> QED BY <1>1, Induction
  <1>3. ASSUME NEW s \in SUBSET S PROVE Cardinality(s) \in Nat
    BY FS_Subset, FS_CardinalityType
  <1> QED BY <1>2, <1>3

\* There is a fold over the subsets of a finite set, in the order of any choice.
LEMMA FoldExists ==
    ASSUME NEW S, IsFiniteSet(S), NEW V, NEW base \in V,
           NEW pick, \A s \in (SUBSET S) \ {{}} : pick[s] \in s,
           NEW step, \A x \in S, v \in V : step[x][v] \in V
    PROVE  \E f \in [SUBSET S -> V] : Unfolds(f, S, base, pick, step)
  <1> DEFINE n == Cardinality(S)
             Holds(f, m) == \A s \in SUBSET S : Cardinality(s) <= m =>
                               f[s] = IF s = {} THEN base
                                      ELSE step[pick[s]][f[s \ {pick[s]}]]
             M == {m \in 0..n : \E f \in [SUBSET S -> V] : Holds(f, m)}
  <1>1. n \in Nat /\ \A s \in SUBSET S : Cardinality(s) \in 0..n
    <2>1. \A s \in SUBSET S : Cardinality(s) \in Nat /\ Cardinality(s) <= n
      BY FS_Subset, FS_CardinalityType
    <2>2. n \in Nat
      BY FS_CardinalityType
    <2> QED BY <2>1, <2>2
  <1>2. 0 \in M
    <2> DEFINE f == [s \in SUBSET S |-> base]
    <2>1. f \in [SUBSET S -> V]
      OBVIOUS
    <2>2. \A s \in SUBSET S : Cardinality(s) <= 0 => s = {}
      <3>1. ASSUME NEW s \in SUBSET S, Cardinality(s) <= 0 PROVE s = {}
        <4>1. IsFiniteSet(s) /\ Cardinality(s) = 0
          BY <1>1, <3>1, FS_Subset
        <4> QED BY <4>1, FS_EmptySet
      <3> QED BY <3>1
    <2>3. Holds(f, 0)
      BY <2>2
    <2> HIDE DEF f, Holds
    <2> QED BY <1>1, <2>1, <2>3
  <1>3. ASSUME NEW m \in 1..n, m - 1 \in M PROVE m \in M
    <2>1. PICK f \in [SUBSET S -> V] : Holds(f, m - 1)
      BY <1>3
    <2> DEFINE g == [s \in SUBSET S |-> IF s = {} THEN base ELSE step[pick[s]][f[s \ {pick[s]}]]]
    <2>2. g \in [SUBSET S -> V]
      <3>1. ASSUME NEW s \in (SUBSET S) \ {{}} PROVE step[pick[s]][f[s \ {pick[s]}]] \in V
        <4>1. pick[s] \in S /\ s \ {pick[s]} \in SUBSET S
          OBVIOUS
        <4>2. f[s \ {pick[s]}] \in V
          BY <4>1
        <4> QED BY <4>1, <4>2
      <3> QED BY <3>1
    <2>3. ASSUME NEW s \in SUBSET S, Cardinality(s) <= m - 1 PROVE g[s] = f[s]
      BY <2>1, <2>3
    <2>4. ASSUME NEW s \in (SUBSET S) \ {{}}, Cardinality(s) <= m
          PROVE  g[s \ {pick[s]}] = f[s \ {pick[s]}]
      <3>1. s \ {pick[s]} \in SUBSET S /\ Cardinality(s \ {pick[s]}) = Cardinality(s) - 1
        BY OneLess
      <3>2. Cardinality(s \ {pick[s]}) <= m - 1
        BY <1>1, <2>4, <3>1
      <3> HIDE DEF g
      <3> QED BY <2>3, <3>1, <3>2
    <2>5. Holds(g, m)
      <3>1. \A s \in SUBSET S : g[s] = IF s = {} THEN base ELSE step[pick[s]][f[s \ {pick[s]}]]
        OBVIOUS
      <3> HIDE DEF g
      <3> QED BY <2>4, <3>1
    <2>6. m \in 0..n
      BY <1>1
    <2> HIDE DEF g, Holds
    <2> QED BY <2>2, <2>5, <2>6
  <1>4. n \in M
    <2> HIDE DEF M, n
    <2>1. \A m \in 0..n : m \in M
      BY <1>1, <1>2, <1>3, StepInduction
    <2> QED BY <1>1, <2>1
  <1>5. PICK f \in [SUBSET S -> V] : Holds(f, n)
    BY <1>4
  <1>6. \A s \in SUBSET S : Cardinality(s) <= n
    BY <1>1
  <1>7. f[{}] = base /\ \A s \in (SUBSET S) \ {{}} : f[s] = step[pick[s]][f[s \ {pick[s]}]]
    BY <1>5, <1>6
  <1> HIDE DEF Holds
  <1> QED BY <1>7 DEF Unfolds

\* A sum over subsets that takes away some element of each
IsSumOf(f, h, S) ==
    /\ f \in [SUBSET S -> Int] /\ \A x \in S : h[x] \in Int
    /\ \A s \in (SUBSET S) \ {{}} : \E x \in s : f[s] = h[x] + f[s \ {x}]

\* The same, whichever element is taken away
Grows(f, h, S) == \A s \in SUBSET S : \A x \in s : f[s] = h[x] + f[s \ {x}]

\* A sum over a set, in whatever order, grows by what is added.
LEMMA SumGrows ==
    ASSUME NEW S, IsFiniteSet(S), NEW h, NEW f, IsSumOf(f, h, S)
    PROVE  Grows(f, h, S)
  <1> DEFINE T == {s \in SUBSET S : \A x \in s : f[s] = h[x] + f[s \ {x}]}
  <1>1. {} \in T
    OBVIOUS
  <1>2. ASSUME NEW s \in (SUBSET S) \ {{}}, \A x \in s : s \ {x} \in T PROVE s \in T
    <2>1. PICK c \in s : f[s] = h[c] + f[s \ {c}]
      BY DEF IsSumOf
    <2>2. ASSUME NEW x \in s PROVE f[s] = h[x] + f[s \ {x}]
      <3>1. CASE x = c
        BY <2>1, <3>1
      <3>2. CASE x # c
        <4> DEFINE r == s \ {x, c}
        <4>1. x \in s \ {c} /\ c \in s \ {x} /\ (s \ {c}) \ {x} = r /\ (s \ {x}) \ {c} = r
          BY <3>2
        <4>2. f[s \ {c}] = h[x] + f[r] /\ f[s \ {x}] = h[c] + f[r]
          BY <1>2, <4>1
        <4>3. f[r] \in Int /\ h[x] \in Int /\ h[c] \in Int
          BY DEF IsSumOf
        <4> HIDE DEF r
        <4> QED BY <2>1, <4>2, <4>3
      <3> QED BY <3>1, <3>2
    <2> QED BY <2>2
  <1> HIDE DEF T
  <1>3. \A s \in SUBSET S : s \in T
    BY <1>1, <1>2, SetInduction
  <1> QED BY <1>3 DEF T, Grows

-----------------------------------------------------------------------------
(* A recursion that looks forward                                            *)

\* Each step, G[i], looks only at what is behind i.
Forward(G, n, V) ==
    \A i \in 1..n : \A f \in [1..n -> V] :
       /\ G[i][f] \in V
       /\ \A g \in [1..n -> V] :
             (\A j \in (i + 1)..n : f[j] = g[j]) => G[i][f] = G[i][g]

\* f is defined by the steps of G.
Recursive(f, G, n, V) == f \in [1..n -> V] /\ \A i \in 1..n : f[i] = G[i][f]

\* Steps that look forward define a function.
LEMMA ForwardExists ==
    ASSUME NEW n \in Nat, NEW V, V # {}, NEW G, Forward(G, n, V)
    PROVE  \E f : Recursive(f, G, n, V)
  <1> DEFINE Upto(f, m) == \A i \in 1..n : n - i < m => f[i] = G[i][f]
             M == {m \in 0..n : \E f \in [1..n -> V] : Upto(f, m)}
  <1>1. 0 \in M
    <2>0. PICK v0 \in V : TRUE
      OBVIOUS
    <2> DEFINE f == [i \in 1..n |-> v0]
    <2>1. f \in [1..n -> V] /\ Upto(f, 0)
      OBVIOUS
    <2> HIDE DEF f, Upto
    <2> QED BY <2>1
  <1>2. ASSUME NEW m \in 1..n, m - 1 \in M PROVE m \in M
    <2>1. PICK f \in [1..n -> V] : Upto(f, m - 1)
      BY <1>2
    <2> DEFINE g == [i \in 1..n |-> IF n - i < m - 1 THEN f[i] ELSE G[i][f]]
    <2>2. g \in [1..n -> V]
      BY DEF Forward
    <2>3. ASSUME NEW i \in 1..n, n - i < m PROVE g[i] = G[i][g]
      <3>1. g[i] = G[i][f]
        BY <2>1
      <3>2. \A j \in (i + 1)..n : j \in 1..n /\ n - j < m - 1
        BY <2>3
      <3>3. \A j \in (i + 1)..n : f[j] = g[j]
        BY <3>2
      <3> HIDE DEF g
      <3> QED BY <2>2, <3>1, <3>3 DEF Forward
    <2>4. Upto(g, m)
      BY <2>3
    <2> HIDE DEF g, Upto
    <2> QED BY <2>2, <2>4
  <1>3. n \in M
    <2> HIDE DEF M
    <2>1. \A m \in 0..n : m \in M
      BY <1>1, <1>2, StepInduction
    <2> QED BY <2>1
  <1>4. PICK f \in [1..n -> V] : Upto(f, n)
    BY <1>3
  <1>5. \A i \in 1..n : n - i < n
    OBVIOUS
  <1>6. \A i \in 1..n : f[i] = G[i][f]
    BY <1>4, <1>5
  <1> QED BY <1>6 DEF Recursive
-----------------------------------------------------------------------------
(* Lists put together                                                        *)

\* flat[i] is what the first i lists are together.
Flattened(flat, seqs, n, W) ==
    /\ seqs \in [1..n -> Seq(W)] /\ flat \in [0..n -> Seq(W)]
    /\ flat[0] = <<>> /\ \A i \in 1..n : flat[i] = flat[i - 1] \o seqs[i]

\* Lists are put together one after another.
LEMMA FlatteningIs ==
    ASSUME NEW n \in Nat, NEW seqs, NEW W, seqs \in [1..n -> Seq(W)]
    PROVE  \E flat :
              /\ Flattened(flat, seqs, n, W)
              /\ \A i \in 0..n : FlattenSeq(SubSeq(seqs, 1, i)) = flat[i]
              /\ FlattenSeq(seqs) = flat[n]
  <1> DEFINE M == {m \in 0..n : \E f \in [0..n -> Seq(W)] :
                      f[0] = <<>> /\ \A i \in 1..m : f[i] = f[i - 1] \o seqs[i]}
  <1>1. 0 \in M
    <2> DEFINE f == [i \in 0..n |-> <<>>]
    <2>1. f \in [0..n -> Seq(W)] /\ f[0] = <<>>
      BY EmptySeq
    <2>2. 0 \in 0..n /\ 1..0 = {}
      OBVIOUS
    <2> HIDE DEF f
    <2> QED BY <2>1, <2>2
  <1>2. ASSUME NEW m \in 1..n, m - 1 \in M PROVE m \in M
    <2>1. PICK f \in [0..n -> Seq(W)] : f[0] = <<>> /\ \A i \in 1..(m - 1) : f[i] = f[i - 1] \o seqs[i]
      BY <1>2
    <2>2. m - 1 \in 0..n /\ m \in 0..n
      OBVIOUS
    <2>3. f[m - 1] \o seqs[m] \in Seq(W)
      <3>1. f[m - 1] \in Seq(W) /\ seqs[m] \in Seq(W)
        BY <2>2
      <3> QED BY <3>1, ConcatProperties
    <2> DEFINE g == [f EXCEPT ![m] = f[m - 1] \o seqs[m]]
    <2>4. g \in [0..n -> Seq(W)] /\ g[m] = f[m - 1] \o seqs[m] /\ \A i \in 0..n : i # m => g[i] = f[i]
      BY <2>2, <2>3
    <2> HIDE DEF g
    <2>5. g[0] = <<>> /\ \A i \in 1..m : g[i] = g[i - 1] \o seqs[i]
      <3>1. \A i \in 1..m : i \in 0..n /\ i - 1 \in 0..n /\ i - 1 # m /\ (i # m => i \in 1..(m - 1))
        OBVIOUS
      <3>2. 0 \in 0..n /\ 0 # m
        OBVIOUS
      <3> QED BY <2>1, <2>4, <3>1, <3>2
    <2> QED BY <2>2, <2>4, <2>5
  <1>3. n \in M
    <2> HIDE DEF M
    <2>1. \A m \in 0..n : m \in M
      BY <1>1, <1>2, StepInduction
    <2> QED BY <2>1
  <1>4. PICK flat \in [0..n -> Seq(W)] :
           flat[0] = <<>> /\ \A i \in 1..n : flat[i] = flat[i - 1] \o seqs[i]
    BY <1>3
  <1>5. ASSUME NEW m \in 0..n, NEW s, Len(s) = m, \A i \in 1..m : s[i] = seqs[i], m = 0 => s = <<>>
        PROVE  FlattenSeq(s) = flat[m]
    <2>1. CASE m = 0
      BY <1>4, <1>5, <2>1 DEF FlattenSeq
    <2>2. CASE m # 0
      <3> DEFINE Body(f) == [i \in 1..m |-> IF i = 1 THEN s[i] ELSE f[i - 1] \o s[i]]
                 flatten == CHOOSE f : f = Body(f)
                 g == [i \in 1..m |-> flat[i]]
      <3>1. ASSUME NEW i \in 1..m PROVE g[i] = Body(g)[i]
        <4>0. i \in 1..n /\ i \in 0..n
          OBVIOUS
        <4>1. i \in 1..n /\ i \in 0..n /\ s[i] = seqs[i] /\ flat[i] = flat[i - 1] \o seqs[i]
          <5> HIDE DEF g, Body
          <5> QED BY <1>4, <1>5, <4>0
        <4>2. CASE i = 1
          <5>1. flat[1] = <<>> \o seqs[1] /\ seqs[1] \in Seq(W)
            <6>1. i - 1 = 0 /\ seqs[i] \in Seq(W)
              BY <4>1, <4>2
            <6> HIDE DEF g, Body
            <6> QED BY <1>4, <4>1, <4>2, <6>1
          <5>2. flat[1] = seqs[1]
            BY <5>1, ConcatEmptySeq
          <5> QED BY <4>1, <4>2, <5>2
        <4>3. CASE i # 1
          <5>1. i - 1 \in 1..m
            BY <4>3
          <5> QED BY <4>1, <4>3, <5>1
        <4> QED BY <4>2, <4>3
      <3>2. g = Body(g)
        <4>1. g = [i \in 1..m |-> g[i]] /\ Body(g) = [i \in 1..m |-> Body(g)[i]]
          OBVIOUS
        <4> HIDE DEF g, Body
        <4> QED BY <3>1, <4>1
      <3>3. flatten = Body(flatten)
        <4> HIDE DEF g, Body
        <4> QED BY <3>2
      <3>4. FlattenSeq(s) = flatten[m]
        BY <1>5, <2>2 DEF FlattenSeq
      <3> HIDE DEF flatten
      <3>5. \A i \in 1..m : flatten[i] = IF i = 1 THEN s[i] ELSE flatten[i - 1] \o s[i]
        BY <3>3
      <3> DEFINE T == {i \in 0..m : i = 0 \/ flatten[i] = flat[i]}
      <3>6. 0 \in T
        OBVIOUS
      <3>7. ASSUME NEW i \in 1..m, i - 1 \in T PROVE i \in T
        <4>0. g[i] = flat[i] /\ i \in 0..m
          OBVIOUS
        <4>1. g[i] = Body(g)[i] /\ g[i] = flat[i] /\ i \in 0..m
          <5> HIDE DEF g, Body
          <5> QED BY <3>1, <4>0
        <4>2. CASE i = 1
          BY <3>5, <4>1, <4>2
        <4>3. CASE i # 1
          <5>1. i - 1 \in 1..m /\ flatten[i - 1] = flat[i - 1]
            BY <3>7, <4>3
          <5>2. flatten[i] = flat[i - 1] \o s[i] /\ Body(g)[i] = flat[i - 1] \o s[i]
            BY <3>5, <4>3, <5>1
          <5> QED BY <4>1, <5>2
        <4> QED BY <4>2, <4>3
      <3>8. m \in T
        <4> HIDE DEF T
        <4>1. m \in Nat
          OBVIOUS
        <4>2. \A i \in 0..m : i \in T
          BY <3>6, <3>7, <4>1, StepInduction
        <4> QED BY <4>1, <4>2
      <3> QED BY <2>2, <3>4, <3>8
    <2> QED BY <2>1, <2>2
  <1>6. seqs \in Seq(Seq(W)) /\ Len(seqs) = n
    OBVIOUS
  <1>7. ASSUME NEW i \in 0..n PROVE FlattenSeq(SubSeq(seqs, 1, i)) = flat[i]
    <2>1. /\ Len(SubSeq(seqs, 1, i)) = i /\ SubSeq(seqs, 1, i) \in Seq(Seq(W))
          /\ \A j \in 1..i : SubSeq(seqs, 1, i)[j] = seqs[j]
      BY <1>6, SubSeqProperties
    <2>2. i = 0 => SubSeq(seqs, 1, i) = <<>>
      BY <2>1
    <2> QED BY <1>5, <2>1, <2>2
  <1>8. FlattenSeq(seqs) = flat[n]
    <2>1. n = 0 => seqs = <<>>
      BY <1>6
    <2> QED BY <1>5, <1>6, <2>1
  <1> QED BY <1>4, <1>7, <1>8 DEF Flattened

\* The list of lists put together is the last of its beginnings.
LEMMA FlatIs ==
    ASSUME NEW n \in Nat, NEW seqs, NEW W, seqs \in [1..n -> Seq(W)]
    PROVE  \E flat : Flattened(flat, seqs, n, W) /\ FlattenSeq(seqs) = flat[n]
  <1>1. \E flat : /\ Flattened(flat, seqs, n, W)
                  /\ \A i \in 0..n : FlattenSeq(SubSeq(seqs, 1, i)) = flat[i]
                  /\ FlattenSeq(seqs) = flat[n]
    BY FlatteningIs
  <1> QED BY <1>1, Zenon

\* Where a list is in what the lists are together
Placed(part, whole, o) ==
    o + Len(part) <= Len(whole) /\ \A i \in 1..Len(part) : whole[o + i] = part[i]

\* Each list is in the whole, and in each beginning that it is part of.
LEMMA PlacesIn ==
    ASSUME NEW n \in Nat, NEW W, NEW seqs, NEW flat, Flattened(flat, seqs, n, W)
    PROVE  \A m \in 0..n : \A i \in 1..m :
              /\ Len(flat[i]) = Len(flat[i - 1]) + Len(seqs[i])
              /\ Placed(seqs[i], flat[m], Len(flat[i - 1]))
  <1>0. /\ seqs \in [1..n -> Seq(W)] /\ flat \in [0..n -> Seq(W)]
        /\ \A i \in 1..n : flat[i] = flat[i - 1] \o seqs[i]
    BY DEF Flattened
  <1> DEFINE T == {m \in 0..n : \A i \in 1..m :
                      /\ Len(flat[i]) = Len(flat[i - 1]) + Len(seqs[i])
                      /\ Placed(seqs[i], flat[m], Len(flat[i - 1]))}
  <1>1. 0 \in T
    <2>1. 0 \in 0..n /\ 1..0 = {}
      OBVIOUS
    <2> QED BY <2>1
  <1>2. ASSUME NEW m \in 1..n, m - 1 \in T PROVE m \in T
    <2>1. m - 1 \in 0..n /\ m \in 0..n
      OBVIOUS
    <2> DEFINE a == flat[m - 1]
               b == seqs[m]
               c == flat[m]
    <2>2. a \in Seq(W) /\ b \in Seq(W) /\ c = a \o b
      BY <1>0, <2>1
    <2> HIDE DEF a, b, c
    <2>3. /\ Len(a) \in Nat /\ Len(b) \in Nat /\ Len(c) = Len(a) + Len(b)
          /\ \A j \in 1..Len(a) : c[j] = a[j]
          /\ \A j \in 1..Len(b) : c[Len(a) + j] = b[j]
      BY <2>2
    <2>4. Placed(b, c, Len(a))
      BY <2>3 DEF Placed
    <2>5. ASSUME NEW i \in 1..(m - 1)
          PROVE  /\ Len(flat[i]) = Len(flat[i - 1]) + Len(seqs[i])
                 /\ Placed(seqs[i], c, Len(flat[i - 1]))
      <3> DEFINE o == Len(flat[i - 1])
                 l == Len(seqs[i])
      <3>1. Len(flat[i]) = o + l /\ Placed(seqs[i], a, o)
        BY <1>2 DEF a
      <3>2. flat[i - 1] \in Seq(W) /\ seqs[i] \in Seq(W)
        <4>1. i - 1 \in 0..n /\ i \in 1..n
          OBVIOUS
        <4> QED BY <1>0, <4>1
      <3>3. o \in Nat /\ l \in Nat
        BY <3>2
      <3> HIDE DEF o, l
      <3>4. o + l <= Len(a) /\ \A j \in 1..l : a[o + j] = seqs[i][j]
        BY <3>1 DEF Placed, l
      <3>5. \A j \in 1..l : o + j \in 1..Len(a)
        BY <2>3, <3>3, <3>4
      <3>6. o + l <= Len(c) /\ \A j \in 1..l : c[o + j] = seqs[i][j]
        <4>1. o + l <= Len(c)
          BY <2>3, <3>3, <3>4
        <4>2. \A j \in 1..l : c[o + j] = a[o + j]
          BY <2>3, <3>5
        <4> QED BY <3>4, <4>1, <4>2
      <3> QED BY <3>1, <3>6 DEF Placed, o, l
    <2>6. \A i \in 1..m : i = m \/ i \in 1..(m - 1)
      OBVIOUS
    <2> QED BY <2>1, <2>3, <2>4, <2>5, <2>6 DEF a, b, c
  <1> HIDE DEF T
  <1>3. \A m \in 0..n : m \in T
    BY <1>1, <1>2, StepInduction
  <1> QED BY <1>3 DEF T

-----------------------------------------------------------------------------
(* What a clause holds of a row                                              *)

\* What a condition can be of a row
Truths == {"true", "false", "unknown"}

\* Tests, and what they are together, are true, false or unknown.
LEMMA TruthsOnly ==
    /\ \A S : AllOf(S) \in Truths /\ AnyOf(S) \in Truths
    /\ \A conjunction, S : Together(conjunction, S) \in Truths
    /\ \A op, cell, vs : Test(op, cell, vs) \in Truths
  <1>1. \A b : Truth(b) \in Truths /\ Not(b) \in Truths
    BY DEF Truth, Not, Truths
  <1>2. \A S : AllOf(S) \in Truths
    BY DEF AllOf, Truths
  <1>3. \A S : AnyOf(S) \in Truths
    BY <1>1 DEF AnyOf
  <1>4. \A op, a, b : Compare(op, a, b) \in Truths
    <2>1. "unknown" \in Truths
      BY DEF Truths
    <2> QED BY <1>1, <2>1 DEF Compare
  <1>5. \A conjunction, S : Together(conjunction, S) \in Truths
    BY <1>2, <1>3 DEF Together
  <1>6. ASSUME NEW op, NEW cell, NEW vs PROVE Test(op, cell, vs) \in Truths
    <2>0. "unknown" \in Truths
      BY DEF Truths
    <2>1. CASE op \in {"is_null", "is_not_null", "neq"}
      BY <1>1, <2>1 DEF Test
    <2>2. CASE op \in {"in", "not_in"}
      BY <1>1, <1>3, <2>2 DEF Test
    <2>3. CASE op = "between"
      BY <1>2, <2>3 DEF Test
    <2>4. CASE op \in {"contains", "not_contains"}
      BY <1>1, <2>0, <2>4 DEF Test
    <2>5. CASE op \notin {"is_null", "is_not_null", "neq", "in", "not_in", "between",
                          "contains", "not_contains"}
      BY <1>4, <2>5 DEF Test
    <2> QED BY <2>1, <2>2, <2>3, <2>4, <2>5
  <1> QED BY <1>2, <1>3, <1>5, <1>6

\* The holes of a node: a group has none of its own.
HolesAt(clause, i) == IF IsGroup(clause[i]) THEN 0 ELSE clause[i].holes

\* A tree of conditions with holes
IsClause(clause) ==
    /\ clause \in Seq(Range(clause)) /\ IsTree(clause)
    /\ \A i \in DOMAIN clause : HolesAt(clause, i) \in Nat

\* How many holes are before each node
Tally(clause, T) ==
    /\ T \in [1..(Len(clause) + 1) -> Nat] /\ T[1] = 0
    /\ \A i \in 1..Len(clause) : T[i + 1] = T[i] + HolesAt(clause, i)

\* The holes before a node, as Where counts them
TakenIn(clause, i) ==
    MapThenSumSet(LAMBDA m : IF IsGroup(clause[m]) THEN 0 ELSE clause[m].holes, 1..(i - 1))

\* There is a tally, and it counts as Where does.
LEMMA TakenIs ==
    ASSUME NEW clause, IsClause(clause)
    PROVE  \E T : Tally(clause, T) /\ \A i \in 1..Len(clause) : TakenIn(clause, i) = T[i]
  <1> DEFINE n == Len(clause)
             S == 1..n
             h == [x \in S |-> HolesAt(clause, x)]
             pick == [s \in SUBSET S |-> CHOOSE x \in s : TRUE]
             step == [x \in S |-> [v \in Nat |-> h[x] + v]]
  <1>1. n \in Nat /\ DOMAIN clause = S /\ IsFiniteSet(S)
    <2>1. n \in Nat /\ DOMAIN clause = S
      BY IsList DEF IsClause
    <2> QED BY <2>1, FS_Interval
  <1>2. \A x \in S : h[x] = HolesAt(clause, x) /\ h[x] \in Nat
    BY <1>1 DEF IsClause
  <1>3. \A s \in (SUBSET S) \ {{}} : pick[s] \in s /\ pick[s] = CHOOSE x \in s : TRUE
    OBVIOUS
  <1>4. \A x \in S, v \in Nat : step[x][v] = h[x] + v /\ step[x][v] \in Nat
    BY <1>2
  <1> HIDE DEF h, pick, step, S
  <1>5. PICK F \in [SUBSET S -> Nat] : Unfolds(F, S, 0, pick, step)
    BY <1>1, <1>3, <1>4, FoldExists
  <1>6. \A s \in (SUBSET S) \ {{}} : F[s] = h[pick[s]] + F[s \ {pick[s]}]
    <2>1. ASSUME NEW s \in (SUBSET S) \ {{}} PROVE F[s] = h[pick[s]] + F[s \ {pick[s]}]
      <3>1. pick[s] \in S /\ F[s \ {pick[s]}] \in Nat
        BY <1>3
      <3>2. F[s] = step[pick[s]][F[s \ {pick[s]}]]
        BY <1>5 DEF Unfolds
      <3> QED BY <1>4, <3>1, <3>2
    <2> QED BY <2>1
  <1>7. \A s \in SUBSET S : \A x \in s : F[s] = h[x] + F[s \ {x}]
    <2>1. F \in [SUBSET S -> Int] /\ \A x \in S : h[x] \in Int
      BY <1>2
    <2>2. \A s \in (SUBSET S) \ {{}} : \E x \in s : F[s] = h[x] + F[s \ {x}]
      BY <1>3, <1>6
    <2>3. IsSumOf(F, h, S)
      BY <2>1, <2>2 DEF IsSumOf
    <2>4. Grows(F, h, S)
      BY <1>1, <2>3, SumGrows
    <2> QED BY <2>4 DEF Grows
  <1> DEFINE T == [i \in 1..(n + 1) |-> F[1..(i - 1)]]
  <1>8. ASSUME NEW i \in 1..n PROVE TakenIn(clause, i) = F[1..(i - 1)]
    <2> DEFINE R == 1..(i - 1)
               Body(f) == [s \in SUBSET R |-> IF s = {} THEN 0
                              ELSE LET x == CHOOSE x \in s : TRUE
                                   IN  (IF IsGroup(clause[x]) THEN 0 ELSE clause[x].holes)
                                         + f[s \ {x}]]
               iter == CHOOSE f : f = Body(f)
               G == [s \in SUBSET R |-> F[s]]
    <2>1. R \in SUBSET S /\ IsFiniteSet(R)
      <3>1. R \in SUBSET S
        BY <1>1 DEF S
      <3> QED BY <1>1, <3>1, FS_Subset
    <2>2. TakenIn(clause, i) = iter[R]
      BY DEF TakenIn, MapThenSumSet, MapThenFoldSet
    <2> HIDE DEF R
    <2>3. ASSUME NEW f PROVE Body(f) = [s \in SUBSET R |-> IF s = {} THEN 0
                                           ELSE h[pick[s]] + f[s \ {pick[s]}]]
      <3>1. ASSUME NEW s \in SUBSET R, s # {}
            PROVE  /\ pick[s] = CHOOSE x \in s : TRUE
                   /\ h[pick[s]] = IF IsGroup(clause[pick[s]]) THEN 0 ELSE clause[pick[s]].holes
        <4>1. s \in (SUBSET S) \ {{}}
          BY <2>1, <3>1
        <4>2. pick[s] \in S /\ pick[s] = CHOOSE x \in s : TRUE
          BY <1>3, <4>1
        <4>3. h[pick[s]] = HolesAt(clause, pick[s])
          BY <1>2, <4>2
        <4> QED BY <4>2, <4>3 DEF HolesAt
      <3> DEFINE U(s) == IF s = {} THEN 0
                         ELSE LET x == CHOOSE x \in s : TRUE
                              IN  (IF IsGroup(clause[x]) THEN 0 ELSE clause[x].holes) + f[s \ {x}]
                 W(s) == IF s = {} THEN 0 ELSE h[pick[s]] + f[s \ {pick[s]}]
      <3>2. ASSUME NEW s \in SUBSET R PROVE U(s) = W(s)
        <4>1. CASE s = {}
          BY <4>1
        <4>2. CASE s # {}
          <5> DEFINE x == CHOOSE x \in s : TRUE
          <5>1. pick[s] = x /\ h[x] = IF IsGroup(clause[x]) THEN 0 ELSE clause[x].holes
            BY <3>1, <4>2
          <5>2. W(s) = h[x] + f[s \ {x}]
            BY <4>2, <5>1
          <5>3. U(s) = (IF IsGroup(clause[x]) THEN 0 ELSE clause[x].holes) + f[s \ {x}]
            BY <4>2
          <5> HIDE DEF x, U, W
          <5> QED BY <5>1, <5>2, <5>3
        <4> QED BY <4>1, <4>2
      <3> HIDE DEF U, W
      <3>3. [s \in SUBSET R |-> U(s)] = [s \in SUBSET R |-> W(s)]
        BY <3>2
      <3> QED BY <3>3 DEF U, W
    <2>4. G = Body(G)
      <3>1. ASSUME NEW s \in SUBSET R
            PROVE  F[s] = IF s = {} THEN 0 ELSE h[pick[s]] + G[s \ {pick[s]}]
        <4>1. s \in SUBSET S /\ s \ {pick[s]} \in SUBSET R
          BY <2>1
        <4> QED BY <1>5, <1>6, <4>1 DEF Unfolds
      <3> HIDE DEF Body
      <3> QED BY <2>3, <3>1
    <2>5. iter = Body(iter)
      <3> HIDE DEF Body, G
      <3> QED BY <2>4
    <2> HIDE DEF iter, Body
    <2> DEFINE E == {s \in SUBSET R : iter[s] = F[s]}
    <2>6. {} \in E
      BY <1>5, <2>3, <2>5 DEF Unfolds
    <2>7. ASSUME NEW s \in (SUBSET R) \ {{}}, \A x \in s : s \ {x} \in E PROVE s \in E
      <3>1. pick[s] \in s /\ s \in (SUBSET S) \ {{}}
        BY <1>3, <2>1
      <3>2. iter[s] = h[pick[s]] + iter[s \ {pick[s]}]
        BY <2>3, <2>5
      <3>3. iter[s \ {pick[s]}] = F[s \ {pick[s]}]
        BY <2>7, <3>1
      <3>4. iter[s] = F[s]
        BY <1>6, <3>1, <3>2, <3>3
      <3> QED BY <3>4
    <2> HIDE DEF E
    <2>8. \A s \in SUBSET R : s \in E
      BY <2>1, <2>6, <2>7, SetInduction
    <2> QED BY <2>2, <2>8 DEF E, R
  <1>9. Tally(clause, T)
    <2>1. \A i \in 1..(n + 1) : 1..(i - 1) \in SUBSET S
      BY <1>1 DEF S
    <2>2. T \in [1..(n + 1) -> Nat]
      BY <2>1
    <2>3. T[1] = 0
      <3>1. 1 \in 1..(n + 1) /\ 1..(1 - 1) = {}
        BY <1>1
      <3>2. F[{}] = 0
        BY <1>5 DEF Unfolds
      <3>3. T[1] = F[1..(1 - 1)]
        BY <3>1
      <3> HIDE DEF T
      <3> QED BY <3>1, <3>2, <3>3
    <2>4. ASSUME NEW i \in 1..n PROVE T[i + 1] = T[i] + HolesAt(clause, i)
      <3>1. /\ i \in 1..(n + 1) /\ i + 1 \in 1..(n + 1) /\ (i + 1) - 1 = i
            /\ i \in 1..i /\ (1..i) \ {i} = 1..(i - 1) /\ i \in S
        BY <1>1 DEF S
      <3>2. 1..i \in SUBSET S /\ 1..(i - 1) \in SUBSET S
        BY <2>1, <3>1
      <3>3. F[1..i] = h[i] + F[1..(i - 1)]
        BY <1>7, <3>1, <3>2
      <3>4. T[i + 1] = F[1..i] /\ T[i] = F[1..(i - 1)]
        BY <3>1
      <3>5. F[1..(i - 1)] \in Nat /\ h[i] = HolesAt(clause, i) /\ h[i] \in Nat
        BY <1>2, <3>1, <3>2
      <3> HIDE DEF T
      <3> QED BY <3>3, <3>4, <3>5
    <2> HIDE DEF T
    <2> QED BY <2>2, <2>3, <2>4 DEF Tally
  <1>10. \A i \in 1..n : T[i] = F[1..(i - 1)]
    BY <1>1
  <1> HIDE DEF T
  <1> QED BY <1>8, <1>9, <1>10

\* What a node is of a row, by what its parts are, the parameters put in by a tally
HoldsAt(clause, T, params, row, holds, i) ==
    LET node == clause[i]
    IN  IF IsGroup(node)
        THEN Together(node.conjunction, {holds[i + node.at[m]] : m \in DOMAIN node.at})
        ELSE Test(node.op, row[node.column], SubSeq(params, T[i] + 1, T[i] + node.holes))

\* What all the nodes of a clause are of a row
Evaluates(clause, T, params, row, holds) ==
    /\ Tally(clause, T)
    /\ \A i \in 1..Len(clause) : holds[i] = HoldsAt(clause, T, params, row, holds, i)

\* A clause is of a row what its first node is.
LEMMA WhereIs ==
    ASSUME NEW clause, IsClause(clause), NEW params, NEW row
    PROVE  \E T, holds : /\ Evaluates(clause, T, params, row, holds)
                         /\ Where(clause, params, row) = holds[1]
  <1> DEFINE n == Len(clause)
             Body(f) == [i \in DOMAIN clause |->
                LET node == clause[i]
                IN  IF IsGroup(node)
                    THEN Together(node.conjunction, {f[i + node.at[m]] : m \in DOMAIN node.at})
                    ELSE Test(node.op, row[node.column],
                              SubSeq(params, TakenIn(clause, i) + 1,
                                             TakenIn(clause, i) + node.holes))]
             holds == CHOOSE f : f = Body(f)
  <1>1. n \in Nat /\ DOMAIN clause = 1..n
    BY IsList DEF IsClause
  <1>2. PICK T : Tally(clause, T) /\ \A i \in 1..n : TakenIn(clause, i) = T[i]
    BY TakenIs
  <1>3. \A f : Body(f) = [i \in 1..n |-> HoldsAt(clause, T, params, row, f, i)]
    BY <1>1, <1>2 DEF HoldsAt
  <1>4. Where(clause, params, row) = holds[1]
    BY DEF Where, TakenIn
  <1> DEFINE G == [i \in 1..n |-> [f \in [1..n -> Truths] |->
                                      HoldsAt(clause, T, params, row, f, i)]]
  <1>5. \A i \in 1..n : \A f \in [1..n -> Truths] :
           G[i][f] = HoldsAt(clause, T, params, row, f, i) /\ G[i][f] \in Truths
    BY TruthsOnly DEF HoldsAt
  <1>6. ASSUME NEW i \in 1..n, NEW f, NEW g, \A j \in (i + 1)..n : f[j] = g[j]
        PROVE  HoldsAt(clause, T, params, row, f, i) = HoldsAt(clause, T, params, row, g, i)
    <2>1. CASE IsGroup(clause[i])
      <3> DEFINE at == clause[i].at
      <3>1. at \in Seq(1..(n - i))
        BY <1>1, <2>1 DEF IsClause, IsTree
      <3>2. \A m \in DOMAIN at : at[m] \in 1..(n - i)
        <4> DEFINE reach == 1..(n - i)
        <4> HIDE DEF reach, at
        <4>1. at \in Seq(reach)
          BY <3>1 DEF reach
        <4>2. \A m \in DOMAIN at : at[m] \in reach
          BY <4>1
        <4> QED BY <4>2 DEF reach
      <3> HIDE DEF at
      <3>3. \A m \in DOMAIN at : i + at[m] \in (i + 1)..n
        BY <1>1, <3>2
      <3>4. {f[i + at[m]] : m \in DOMAIN at} = {g[i + at[m]] : m \in DOMAIN at}
        BY <1>6, <3>3
      <3> QED BY <2>1, <3>4 DEF HoldsAt, at
    <2>2. CASE ~IsGroup(clause[i])
      BY <2>2 DEF HoldsAt
    <2> QED BY <2>1, <2>2
  <1>7. PICK f \in [1..n -> Truths] : \A i \in 1..n : f[i] = G[i][f]
    <2>1. \A i \in 1..n : \A u, g \in [1..n -> Truths] :
             (\A j \in (i + 1)..n : u[j] = g[j]) => G[i][u] = G[i][g]
      <3> HIDE DEF G
      <3> QED BY <1>5, <1>6
    <2>2. \A i \in 1..n : \A u \in [1..n -> Truths] : G[i][u] \in Truths
      BY <1>5
    <2>3. Truths # {}
      BY DEF Truths
    <2> HIDE DEF G, n
    <2>4. Forward(G, n, Truths)
      BY <2>1, <2>2 DEF Forward
    <2>5. PICK u : Recursive(u, G, n, Truths)
      BY <1>1, <2>3, <2>4, ForwardExists
    <2> QED BY <2>5 DEF Recursive
  <1>8. f = Body(f)
    <2> HIDE DEF G, Body
    <2> QED BY <1>3, <1>5, <1>7
  <1>9. holds = Body(holds)
    <2> HIDE DEF Body, G
    <2> QED BY <1>8
  <1> HIDE DEF holds, Body, G
  <1>10. \A i \in 1..n : holds[i] = HoldsAt(clause, T, params, row, holds, i)
    <2>1. holds = [i \in 1..n |-> HoldsAt(clause, T, params, row, holds, i)]
      BY <1>3, <1>9
    <2> QED BY <2>1
  <1>11. Evaluates(clause, T, params, row, holds)
    BY <1>2, <1>10 DEF Evaluates
  <1> QED BY <1>4, <1>11

-----------------------------------------------------------------------------
(* A clause inside another                                                   *)

\* A tally goes up by the holes of each node.
LEMMA TallyGrows ==
    ASSUME NEW clause, IsClause(clause), NEW T, Tally(clause, T)
    PROVE  /\ Len(clause) \in Nat \ {0} /\ T[Len(clause) + 1] \in Nat
           /\ \A i \in 1..Len(clause) :
                 /\ T[i] \in Nat /\ HolesAt(clause, i) \in Nat
                 /\ T[i + 1] = T[i] + HolesAt(clause, i)
                 /\ T[i + 1] <= T[Len(clause) + 1]
  <1> DEFINE n == Len(clause)
             S == {m \in 0..n : T[n + 1 - m] <= T[n + 1]}
  <1>1. n \in Nat \ {0} /\ DOMAIN clause = 1..n
    <2>1. n \in Nat /\ DOMAIN clause = 1..n /\ clause # <<>>
      BY IsList DEF IsClause, IsTree
    <2>2. n # 0
      BY <2>1 DEF IsClause
    <2> QED BY <2>1, <2>2
  <1>2. \A i \in 1..(n + 1) : T[i] \in Nat
    BY DEF Tally
  <1>3. \A i \in 1..n : T[i + 1] = T[i] + HolesAt(clause, i) /\ HolesAt(clause, i) \in Nat
    BY <1>1 DEF Tally, IsClause
  <1> HIDE DEF n
  <1>4. 0 \in S
    BY <1>1, <1>2
  <1>5. ASSUME NEW m \in 1..n, m - 1 \in S PROVE m \in S
    <2> DEFINE i == n + 1 - m
    <2>1. i \in 1..n /\ i \in 1..(n + 1) /\ i + 1 = n + 1 - (m - 1) /\ m \in 0..n
      BY <1>1
    <2>2. T[i + 1] <= T[n + 1] /\ i + 1 \in 1..(n + 1) /\ n + 1 \in 1..(n + 1)
      BY <1>1, <1>5, <2>1
    <2> HIDE DEF i
    <2>3. T[i] \in Nat /\ T[i + 1] \in Nat /\ T[n + 1] \in Nat /\ HolesAt(clause, i) \in Nat
          /\ T[i + 1] = T[i] + HolesAt(clause, i)
      BY <1>2, <1>3, <2>1, <2>2
    <2>4. T[i] <= T[n + 1]
      BY <2>2, <2>3
    <2> QED BY <2>1, <2>4 DEF i
  <1>6. \A m \in 0..n : m \in S
    <2> HIDE DEF S
    <2> QED BY <1>1, <1>4, <1>5, StepInduction
  <1>7. ASSUME NEW i \in 1..n PROVE T[i + 1] <= T[n + 1]
    <2>1. n - i \in 0..n /\ n + 1 - (n - i) = i + 1
      BY <1>1
    <2> QED BY <1>6, <2>1
  <1>8. \A i \in 1..n : i \in 1..(n + 1)
    BY <1>1
  <1>9. n + 1 \in 1..(n + 1)
    BY <1>1
  <1> HIDE DEF S
  <1> QED BY <1>1, <1>2, <1>3, <1>7, <1>8, <1>9 DEF n

\* U tallies from o + 1 as T does from 1.
Moved(T, U, n, o) == \A i \in 1..(n + 1) : U[o + i] = U[o + 1] + T[i] /\ U[o + i] \in Nat

\* A clause inside another is tallied as by itself.
LEMMA TallyMoves ==
    ASSUME NEW part, IsClause(part), NEW whole, IsClause(whole),
           NEW T, Tally(part, T), NEW U, Tally(whole, U),
           NEW o \in Nat, Placed(part, whole, o)
    PROVE  Moved(T, U, Len(part), o)
  <1> DEFINE n == Len(part)
             l == Len(whole)
             S == {m \in 0..n : U[o + (m + 1)] = U[o + 1] + T[m + 1]}
  <1>1. n \in Nat \ {0} /\ l \in Nat \ {0} /\ o + n <= l
    BY TallyGrows DEF Placed
  <1>2. ASSUME NEW i \in 1..n
        PROVE  /\ o + i \in 1..l /\ HolesAt(whole, o + i) = HolesAt(part, i)
               /\ T[i + 1] = T[i] + HolesAt(part, i) /\ T[i] \in Nat /\ HolesAt(part, i) \in Nat
               /\ U[(o + i) + 1] = U[o + i] + HolesAt(part, i) /\ U[o + i] \in Nat
    <2>1. o + i \in 1..l
      BY <1>1
    <2>2. HolesAt(whole, o + i) = HolesAt(part, i)
      BY DEF Placed, HolesAt
    <2> QED BY <2>1, <2>2, TallyGrows
  <1>3. T[1] = 0 /\ \A i \in 1..(l + 1) : U[i] \in Nat
    BY DEF Tally
  <1> HIDE DEF n, l
  <1>4. 0 \in S
    <2>1. o + 1 \in 1..(l + 1) /\ 0 + 1 = 1
      BY <1>1
    <2> QED BY <1>1, <1>3, <2>1
  <1>5. ASSUME NEW m \in 1..n, m - 1 \in S PROVE m \in S
    <2>1. U[o + m] = U[o + 1] + T[m] /\ (o + m) + 1 = o + (m + 1) /\ m \in 0..n
          /\ o + 1 \in 1..(l + 1)
      BY <1>1, <1>5
    <2>2. U[o + 1] \in Nat
      BY <1>3, <2>1
    <2>3. U[o + (m + 1)] = U[o + 1] + T[m + 1]
      BY <1>2, <2>1, <2>2
    <2> QED BY <2>1, <2>3
  <1>6. \A m \in 0..n : m \in S
    <2> HIDE DEF S
    <2> QED BY <1>1, <1>4, <1>5, StepInduction
  <1>7. ASSUME NEW i \in 1..(n + 1) PROVE U[o + i] = U[o + 1] + T[i] /\ U[o + i] \in Nat
    <2>1. i - 1 \in 0..n /\ (i - 1) + 1 = i /\ o + i \in 1..(l + 1)
      BY <1>1
    <2>2. i - 1 \in S
      BY <1>6, <2>1
    <2> QED BY <1>3, <2>1, <2>2
  <1> QED BY <1>7 DEF Moved, n

\* There is one parameter for each hole.
Fits(clause, params) ==
    /\ params \in Seq(Range(params))
    /\ \A T : Tally(clause, T) => T[Len(clause) + 1] = Len(params)

\* The nodes behind o are of the row what those of the part are.
Same(holds, wholes, n, o) == \A i \in 1..n : wholes[o + i] = holds[i]

\* A clause inside another, with its parameters in place, is of a row what it is by itself.
LEMMA PartHolds ==
    ASSUME NEW part, IsClause(part), NEW whole, IsClause(whole), NEW row,
           NEW ps, Fits(part, ps), NEW qs, Fits(whole, qs),
           NEW T, NEW holds, Evaluates(part, T, ps, row, holds),
           NEW U, NEW wholes, Evaluates(whole, U, qs, row, wholes),
           NEW o \in Nat, Placed(part, whole, o), Placed(ps, qs, U[o + 1])
    PROVE  Same(holds, wholes, Len(part), o)
  <1> DEFINE n == Len(part)
             a == U[o + 1]
  <1>0. Tally(part, T) /\ Tally(whole, U)
    BY DEF Evaluates
  <1>1. n \in Nat \ {0} /\ Len(whole) \in Nat \ {0} /\ o + n <= Len(whole)
    BY <1>0, TallyGrows DEF Placed
  <1>2. \A i \in 1..n : T[i] \in Nat /\ HolesAt(part, i) \in Nat /\ T[i] + HolesAt(part, i) <= Len(ps)
    <2>1. T[n + 1] = Len(ps)
      BY <1>0 DEF Fits
    <2> QED BY <1>0, <2>1, TallyGrows
  <1>3. \A i \in 1..(n + 1) : U[o + i] = a + T[i] /\ U[o + i] \in Nat
    BY <1>0, TallyMoves DEF Moved
  <1>4. a \in Nat /\ a + Len(ps) <= Len(qs) /\ \A i \in 1..Len(ps) : qs[a + i] = ps[i]
    <2>1. 1 \in 1..(n + 1)
      BY <1>1
    <2> QED BY <1>3, <2>1 DEF Placed
  <1>5. ps \in Seq(Range(ps)) /\ qs \in Seq(Range(qs)) /\ Len(ps) \in Nat /\ Len(qs) \in Nat
    BY IsList DEF Fits
  <1>6. \A i \in 1..n : whole[o + i] = part[i] /\ o + i \in 1..Len(whole)
    BY <1>1 DEF Placed
  <1> HIDE DEF a, n
  <1>7. ASSUME NEW i \in 1..n, ~IsGroup(part[i]) PROVE wholes[o + i] = holds[i]
    <2> DEFINE h == part[i].holes
               t == T[i]
    <2>1. h \in Nat /\ t \in Nat /\ t + h <= Len(ps) /\ U[o + i] = a + t
      <3>1. HolesAt(part, i) = h /\ i \in 1..(n + 1)
        BY <1>1, <1>7 DEF HolesAt
      <3> QED BY <1>2, <1>3, <3>1
    <2> HIDE DEF h, t
    <2>2. SubSeq(ps, t + 1, t + h) = SubSeq(qs, (a + t) + 1, (a + t) + h)
      <3> DEFINE s == SubSeq(ps, t + 1, t + h)
                 r == SubSeq(qs, (a + t) + 1, (a + t) + h)
      <3>1. Len(s) = h /\ s \in Seq(Range(ps)) /\ \A j \in 1..h : s[j] = ps[t + j]
        <4>1. \A j \in 1..h : (t + 1) + j - 1 = t + j
          BY <2>1
        <4>2. t + 1 \in 1..(Len(ps) + 1) /\ t + h \in 0..Len(ps) /\ t + 1 <= (t + h) + 1
              /\ (t + h) - (t + 1) + 1 = h
          BY <1>5, <2>1
        <4>3. \A j \in 1..((t + h) - (t + 1) + 1) : s[j] = ps[(t + 1) + j - 1]
          BY <1>5, <2>1
        <4> QED BY <1>5, <2>1, <4>1, <4>2, <4>3
      <3>2. Len(r) = h /\ r \in Seq(Range(qs)) /\ \A j \in 1..h : r[j] = qs[(a + t) + j]
        <4> DEFINE b == a + t
        <4>0. b \in Nat /\ b + h <= Len(qs)
          BY <1>4, <1>5, <2>1
        <4> HIDE DEF b
        <4>1. \A j \in 1..h : (b + 1) + j - 1 = b + j
          BY <2>1, <4>0
        <4>2. (b + h) - (b + 1) + 1 = h
          BY <2>1, <4>0
        <4>3. /\ SubSeq(qs, b + 1, b + h) \in Seq(Range(qs))
              /\ Len(SubSeq(qs, b + 1, b + h)) = h
              /\ \A j \in 1..((b + h) - (b + 1) + 1) : SubSeq(qs, b + 1, b + h)[j] = qs[(b + 1) + j - 1]
          BY <1>5, <2>1, <4>0
        <4> QED BY <4>1, <4>2, <4>3 DEF b
      <3>3. \A j \in 1..h : t + j \in 1..Len(ps) /\ a + (t + j) = (a + t) + j
        BY <1>4, <1>5, <2>1
      <3>4. \A j \in 1..h : s[j] = r[j]
        BY <1>4, <3>1, <3>2, <3>3
      <3> HIDE DEF s, r
      <3>5. s = r
        <4>1. s = [j \in 1..h |-> s[j]] /\ r = [j \in 1..h |-> r[j]]
          BY <3>1, <3>2
        <4> QED BY <3>4, <4>1
      <3> QED BY <3>5 DEF s, r
    <2>3. holds[i] = Test(part[i].op, row[part[i].column], SubSeq(ps, t + 1, t + h))
      BY <1>7 DEF Evaluates, HoldsAt, n, t, h
    <2>4. wholes[o + i] = Test(part[i].op, row[part[i].column],
                               SubSeq(qs, U[o + i] + 1, U[o + i] + h))
      BY <1>6, <1>7 DEF Evaluates, HoldsAt, h
    <2> QED BY <2>1, <2>2, <2>3, <2>4
  <1> DEFINE S == {m \in Nat : m < n => wholes[o + (n - m)] = holds[n - m]}
  <1>8. ASSUME NEW m \in Nat, \A j \in 0..(m - 1) : j \in S PROVE m \in S
    <2> SUFFICES ASSUME m < n PROVE wholes[o + (n - m)] = holds[n - m]
      OBVIOUS
    <2> DEFINE i == n - m
    <2>1. i \in 1..n
      BY <1>1
    <2>2. ASSUME NEW j \in (i + 1)..n PROVE wholes[o + j] = holds[j]
      <3>1. n - j \in 0..(m - 1) /\ n - j < n /\ n - (n - j) = j
        BY <1>1, <2>1, <2>2
      <3>2. n - j \in S
        BY <1>8, <3>1
      <3> QED BY <3>1, <3>2
    <2> HIDE DEF i, S
    <2>3. wholes[o + i] = holds[i]
      <3>1. CASE ~IsGroup(part[i])
        BY <1>7, <2>1, <3>1
      <3>2. CASE IsGroup(part[i])
        <4> DEFINE at == part[i].at
                   reach == 1..(n - i)
        <4>1. at \in Seq(1..(n - i))
          <5>1. i \in DOMAIN part
            BY <2>1, IsList DEF IsClause, n
          <5> QED BY <3>2, <5>1 DEF IsClause, IsTree, n
        <4> HIDE DEF at, reach
        <4>2. at \in Seq(reach)
          BY <4>1 DEF reach
        <4>3. \A x \in DOMAIN at : at[x] \in reach
          BY <4>2
        <4>4. \A x \in DOMAIN at : i + at[x] \in (i + 1)..n /\ o + (i + at[x]) = (o + i) + at[x]
          BY <1>1, <2>1, <4>3 DEF reach
        <4>5. {wholes[(o + i) + at[x]] : x \in DOMAIN at} = {holds[i + at[x]] : x \in DOMAIN at}
          <5>1. \A x \in DOMAIN at : wholes[(o + i) + at[x]] = holds[i + at[x]]
            BY <2>2, <4>4
          <5> QED BY <5>1
        <4>6. holds[i] = Together(part[i].conjunction, {holds[i + at[x]] : x \in DOMAIN at})
          BY <2>1, <3>2 DEF Evaluates, HoldsAt, n, at
        <4>7. wholes[o + i] = Together(part[i].conjunction,
                                       {wholes[(o + i) + at[x]] : x \in DOMAIN at})
          <5>1. /\ wholes[o + i] = HoldsAt(whole, U, qs, row, wholes, o + i)
                /\ whole[o + i] = part[i]
            BY <1>6, <2>1 DEF Evaluates
          <5> QED BY <3>2, <5>1 DEF HoldsAt, at
        <4> QED BY <4>5, <4>6, <4>7
      <3> QED BY <3>1, <3>2
    <2> QED BY <2>3 DEF i
  <1>9. \A m \in Nat : m \in S
    <2> HIDE DEF S
    <2> QED BY <1>8, Induction
  <1>10. ASSUME NEW i \in 1..n PROVE wholes[o + i] = holds[i]
    <2>1. n - i \in Nat /\ n - i < n /\ n - (n - i) = i
      BY <1>1
    <2>2. n - i \in S
      BY <1>9, <2>1
    <2> QED BY <2>1, <2>2
  <1> HIDE DEF S
  <1> QED BY <1>10 DEF Same, n

-----------------------------------------------------------------------------
(* A group of clauses                                                        *)

\* ends: where each clause of the group ends
Layout(g, conjunction, clauses, n, ends) ==
    /\ IsClause(g) /\ IsGroup(g[1]) /\ g[1].conjunction = conjunction /\ DOMAIN g[1].at = 1..n
    /\ ends \in [0..n -> Nat] /\ ends[0] = 0 /\ Len(g) = 1 + ends[n]
    /\ \A p \in 1..n : /\ g[1].at[p] = 1 + ends[p - 1]
                       /\ ends[p] = ends[p - 1] + Len(clauses[p])
                       /\ Placed(clauses[p], g, 1 + ends[p - 1])

\* Each group is before its parts, and no part is beyond the end.
Forest(nodes) ==
    \A i \in DOMAIN nodes : /\ HolesAt(nodes, i) \in Nat
                            /\ IsGroup(nodes[i]) => nodes[i].at \in Seq(1..(Len(nodes) - i))

\* Trees put together keep their parts.
LEMMA ForestsTogether ==
    ASSUME NEW W, NEW a \in Seq(W), NEW b \in Seq(W), Forest(a), Forest(b)
    PROVE  Forest(a \o b)
  <1> DEFINE c == a \o b
             m == Len(a)
             n == Len(b)
  <1>1. /\ m \in Nat /\ n \in Nat /\ DOMAIN a = 1..m /\ DOMAIN b = 1..n
        /\ Len(c) = m + n /\ DOMAIN c = 1..(m + n)
        /\ \A i \in 1..m : c[i] = a[i]
        /\ \A i \in 1..n : c[m + i] = b[i]
    OBVIOUS
  <1> HIDE DEF c, m, n
  <1>2. ASSUME NEW i \in DOMAIN c
        PROVE  HolesAt(c, i) \in Nat /\ (IsGroup(c[i]) => c[i].at \in Seq(1..((m + n) - i)))
    <2>1. CASE i <= m
      <3>1. i \in 1..m /\ 1..(m - i) \subseteq 1..((m + n) - i)
        BY <1>1, <2>1
      <3>2. c[i] = a[i] /\ HolesAt(a, i) \in Nat /\ (IsGroup(a[i]) => a[i].at \in Seq(1..(m - i)))
        BY <1>1, <3>1 DEF Forest, m
      <3>3. Seq(1..(m - i)) \subseteq Seq(1..((m + n) - i))
        BY <3>1, SeqMonotonic
      <3>4. HolesAt(c, i) \in Nat
        BY <3>2 DEF HolesAt
      <3> QED BY <3>2, <3>3, <3>4
    <2>2. CASE ~(i <= m)
      <3> DEFINE j == i - m
      <3>1. j \in 1..n /\ i = m + j /\ n - j = (m + n) - i
        BY <1>1, <2>2
      <3> HIDE DEF j
      <3>2. c[i] = b[j] /\ HolesAt(b, j) \in Nat /\ (IsGroup(b[j]) => b[j].at \in Seq(1..(n - j)))
        BY <1>1, <3>1 DEF Forest, n
      <3>3. HolesAt(c, i) \in Nat
        BY <3>2 DEF HolesAt
      <3> QED BY <3>1, <3>2, <3>3
    <2> QED BY <2>1, <2>2
  <1> QED BY <1>1, <1>2 DEF Forest, c

\* A list behind one element
LEMMA OneMore ==
    ASSUME NEW X, NEW one \in Seq(X), Len(one) = 1, NEW f \in Seq(X)
    PROVE  /\ one \o f \in Seq(X) /\ Len(one \o f) = 1 + Len(f) /\ (one \o f)[1] = one[1]
           /\ \A i \in 1..Len(f) : (one \o f)[1 + i] = f[i]
  <1>a. /\ one \o f \in Seq(X) /\ Len(one \o f) = Len(one) + Len(f)
        /\ \A i \in 1..(Len(one) + Len(f)) :
              (one \o f)[i] = IF i <= Len(one) THEN one[i] ELSE f[i - Len(one)]
    BY ConcatProperties, Zenon
  <1>b. Len(f) \in Nat
    OBVIOUS
  <1>1. /\ one \o f \in Seq(X) /\ Len(one \o f) = 1 + Len(f) /\ Len(f) \in Nat
        /\ \A i \in 1..(1 + Len(f)) : (one \o f)[i] = IF i <= 1 THEN one[i] ELSE f[i - 1]
    BY <1>a, <1>b, Zenon
  <1> DEFINE n == Len(f)
             both == one \o f
  <1> HIDE DEF n, both
  <1>2. /\ n \in Nat /\ \A i \in 1..(1 + n) : both[i] = IF i <= 1 THEN one[i] ELSE f[i - 1]
    BY <1>1 DEF n, both
  <1>3. 1 \in 1..(1 + n) /\ \A i \in 1..n : 1 + i \in 1..(1 + n) /\ ~(1 + i <= 1) /\ (1 + i) - 1 = i
    BY <1>2
  <1>4. both[1] = one[1] /\ \A i \in 1..n : both[1 + i] = f[i]
    BY <1>2, <1>3
  <1> QED BY <1>1, <1>4 DEF n, both

\* In a group each clause is where the group says.
LEMMA GroupLayout ==
    ASSUME NEW n \in Nat, NEW clauses, clauses = [p \in 1..n |-> clauses[p]],
           \A p \in 1..n : IsClause(clauses[p]), NEW conjunction
    PROVE  \E ends : Layout(Group(conjunction, clauses), conjunction, clauses, n, ends)
  <1> DEFINE W == UNION {Range(clauses[p]) : p \in 1..n}
             node == [conjunction |-> conjunction,
                      at |-> [p \in DOMAIN clauses |->
                                 1 + Len(FlattenSeq(SubSeq(clauses, 1, p - 1)))]]
             g == Group(conjunction, clauses)
  <1>1. clauses \in [1..n -> Seq(W)]
    <2>1. ASSUME NEW p \in 1..n PROVE clauses[p] \in Seq(W)
      <3>1. clauses[p] \in Seq(Range(clauses[p]))
        BY DEF IsClause
      <3>2. Range(clauses[p]) \subseteq W
        OBVIOUS
      <3> QED BY <3>1, <3>2, SeqMonotonic
    <2> HIDE DEF W
    <2> QED BY <2>1
  <1> HIDE DEF W
  <1>a. PICK flat :
              /\ Flattened(flat, clauses, n, W)
              /\ \A i \in 0..n : FlattenSeq(SubSeq(clauses, 1, i)) = flat[i]
              /\ FlattenSeq(clauses) = flat[n]
    BY <1>1, FlatteningIs
  <1>2. /\ flat \in [0..n -> Seq(W)]
        /\ flat[0] = <<>> /\ \A i \in 1..n : flat[i] = flat[i - 1] \o clauses[i]
        /\ \A i \in 0..n : FlattenSeq(SubSeq(clauses, 1, i)) = flat[i]
        /\ FlattenSeq(clauses) = flat[n]
    BY <1>a DEF Flattened
  <1>3. \A p \in 1..n : p \in 0..n /\ p - 1 \in 0..n /\ flat[p] \in Seq(W) /\ flat[p - 1] \in Seq(W)
    BY <1>2
  <1>4. \A p \in 1..n : /\ Len(flat[p]) = Len(flat[p - 1]) + Len(clauses[p])
                        /\ Placed(clauses[p], flat[n], Len(flat[p - 1]))
    <2>1. n \in 0..n
      OBVIOUS
    <2> QED BY <1>a, <2>1, PlacesIn
  <1>5. ASSUME NEW p \in 1..n PROVE Len(clauses[p]) \in Nat \ {0}
    <2>1. clauses[p] \in Seq(Range(clauses[p])) /\ clauses[p] # <<>>
      BY <1>1 DEF IsClause, IsTree
    <2> QED BY <2>1
  <1> DEFINE ends == [p \in 0..n |-> Len(flat[p])]
  <1>6. ends \in [0..n -> Nat] /\ ends[0] = 0 /\ ends[n] = Len(flat[n])
    <2>1. \A p \in 0..n : Len(flat[p]) \in Nat
      BY <1>2
    <2> QED BY <1>2, <2>1
  <1>7. \A p \in 1..n : ends[p] = Len(flat[p]) /\ ends[p - 1] = Len(flat[p - 1])
    BY <1>3
  <1> HIDE DEF ends
  <1>8. \A p \in 1..n : node.at[p] = 1 + ends[p - 1]
    <2>1. ASSUME NEW p \in 1..n PROVE node.at[p] = 1 + ends[p - 1]
      <3>1. node.at[p] = 1 + Len(FlattenSeq(SubSeq(clauses, 1, p - 1)))
        BY <1>1
      <3> HIDE DEF node
      <3> QED BY <1>2, <1>3, <1>7, <3>1
    <2> QED BY <2>1
  <1>9. node.conjunction = conjunction /\ IsGroup(node) /\ DOMAIN node.at = 1..n
        /\ node.at = [p \in 1..n |-> node.at[p]]
    BY <1>1 DEF IsGroup
  <1>10. g = <<node>> \o flat[n]
    BY <1>2 DEF Group
  <1> HIDE DEF node, g
  <1>11. /\ Len(g) = 1 + ends[n] /\ DOMAIN g = 1..Len(g) /\ g[1] = node
         /\ \A i \in 1..ends[n] : g[1 + i] = flat[n][i]
         /\ g \in Seq(Range(g))
    <2> DEFINE f == flat[n]
    <2>1. f \in Seq(W) /\ Len(f) = ends[n] /\ Len(f) \in Nat
      BY <1>2, <1>6
    <2> HIDE DEF f
    <2> DEFINE X == W \cup {node}
    <2>2. f \in Seq(X)
      BY <2>1, SeqMonotonic
    <2>3. <<node>> \in Seq(X) /\ Len(<<node>>) = 1 /\ <<node>>[1] = node
      OBVIOUS
    <2> HIDE DEF X
    <2> DEFINE one == <<node>>
    <2>4. one \in Seq(X) /\ Len(one) = 1 /\ one[1] = node
      BY <2>3
    <2> HIDE DEF one
    <2>5. /\ one \o f \in Seq(X) /\ Len(one \o f) = 1 + Len(f) /\ (one \o f)[1] = node
          /\ \A i \in 1..Len(f) : (one \o f)[1 + i] = f[i]
      BY <2>2, <2>4, OneMore
    <2>6. g = one \o f
      BY <1>10 DEF one, f
    <2> QED BY <2>1, <2>5, <2>6, IsList DEF f
  <1>12. ASSUME NEW p \in 1..n
         PROVE  /\ ends[p] = ends[p - 1] + Len(clauses[p])
                /\ Placed(clauses[p], g, 1 + ends[p - 1])
    <2> DEFINE o == ends[p - 1]
               l == Len(clauses[p])
    <2>1. o \in Nat /\ l \in Nat \ {0} /\ ends[p] = o + l /\ ends[n] \in Nat
      <3>1. o \in Nat /\ ends[n] \in Nat
        BY <1>3, <1>6
      <3>2. ends[p] = o + l
        BY <1>4, <1>7
      <3> QED BY <1>5, <3>1, <3>2
    <2>2. o + l <= ends[n] /\ \A i \in 1..l : flat[n][o + i] = clauses[p][i]
      <3>1. Placed(clauses[p], flat[n], o) /\ Len(flat[n]) = ends[n]
        BY <1>4, <1>6, <1>7
      <3> HIDE DEF o
      <3> QED BY <3>1 DEF Placed
    <2> HIDE DEF o, l
    <2>3. \A i \in 1..l : o + i \in 1..ends[n] /\ 1 + (o + i) = (1 + o) + i
      BY <2>1, <2>2
    <2>4. \A i \in 1..l : g[(1 + o) + i] = clauses[p][i]
      BY <1>11, <2>2, <2>3
    <2>5. (1 + o) + l <= Len(g)
      BY <1>11, <2>1, <2>2
    <2> QED BY <2>1, <2>4, <2>5 DEF Placed, o, l
  <1>13. \A p \in 0..n : Forest(flat[p])
    <2> DEFINE S == {p \in 0..n : Forest(flat[p])}
    <2>1. 0 \in S
      <3>1. 0 \in 0..n /\ DOMAIN flat[0] = {}
        BY <1>2
      <3> QED BY <3>1 DEF Forest
    <2>2. ASSUME NEW p \in 1..n, p - 1 \in S PROVE p \in S
      <3>1. Forest(clauses[p])
        <4>1. IsClause(clauses[p])
          OBVIOUS
        <4> HIDE DEF S
        <4> QED BY <4>1 DEF Forest, IsClause, IsTree
      <3>2. flat[p] = flat[p - 1] \o clauses[p] /\ clauses[p] \in Seq(W) /\ Forest(flat[p - 1])
        BY <1>1, <1>2, <2>2
      <3> QED BY <1>3, <3>1, <3>2, ForestsTogether
    <2> HIDE DEF S
    <2>3. \A p \in 0..n : p \in S
      BY <2>1, <2>2, StepInduction
    <2> QED BY <2>3 DEF S
  <1>14. IsClause(g)
    <2>1. node.at \in Seq(1..(Len(g) - 1))
      <3>1. ASSUME NEW p \in 1..n PROVE node.at[p] \in 1..(Len(g) - 1)
        <4>1. /\ ends[p - 1] \in Nat /\ Len(clauses[p]) \in Nat \ {0} /\ Len(g) \in Nat
              /\ 1 + ends[p - 1] + Len(clauses[p]) <= Len(g)
          <5>1. ends[p - 1] \in Nat /\ ends[n] \in Nat
            BY <1>3, <1>6
          <5> QED BY <1>5, <1>11, <1>12, <5>1 DEF Placed
        <4> QED BY <1>8, <4>1
      <3> DEFINE reach == 1..(Len(g) - 1)
      <3> HIDE DEF reach
      <3>2. \A p \in 1..n : node.at[p] \in reach
        BY <3>1 DEF reach
      <3>3. [p \in 1..n |-> node.at[p]] \in Seq(reach)
        BY <3>2
      <3> QED BY <1>9, <3>3 DEF reach
    <2>2. ASSUME NEW i \in DOMAIN g
          PROVE  HolesAt(g, i) \in Nat /\ (IsGroup(g[i]) => g[i].at \in Seq(1..(Len(g) - i)))
      <3>1. CASE i = 1
        <4>1. HolesAt(g, i) = 0
          BY <1>9, <1>11, <3>1 DEF HolesAt
        <4> QED BY <1>11, <2>1, <3>1, <4>1
      <3>2. CASE i # 1
        <4> DEFINE j == i - 1
                   f == flat[n]
        <4>1. j \in 1..ends[n] /\ i = 1 + j /\ ends[n] - j = Len(g) - i
          BY <1>6, <1>11, <3>2
        <4> HIDE DEF j, f
        <4>2. Forest(f) /\ j \in DOMAIN f /\ Len(f) = ends[n] /\ g[i] = f[j]
          <5>1. n \in 0..n /\ flat[n] \in Seq(W)
            BY <1>2
          <5> QED BY <1>6, <1>11, <1>13, <4>1, <5>1 DEF f
        <4>3. HolesAt(f, j) \in Nat /\ (IsGroup(f[j]) => f[j].at \in Seq(1..(ends[n] - j)))
          BY <4>2 DEF Forest
        <4>4. HolesAt(g, i) \in Nat
          BY <4>2, <4>3 DEF HolesAt
        <4> QED BY <4>1, <4>2, <4>3, <4>4
      <3> QED BY <3>1, <3>2
    <2>3. g # <<>>
      <3>1. Len(g) # 0
        BY <1>6, <1>11
      <3> QED BY <3>1
    <2> QED BY <1>11, <2>2, <2>3 DEF IsClause, IsTree
  <1>15. Layout(g, conjunction, clauses, n, ends)
    BY <1>6, <1>8, <1>9, <1>11, <1>12, <1>14 DEF Layout
  <1> QED BY <1>15 DEF g

\* The parts of a group, each with its parameters
ClauseList(n, clauses, pss) ==
    /\ clauses = [p \in 1..n |-> clauses[p]] /\ pss = [p \in 1..n |-> pss[p]]
    /\ \A p \in 1..n : IsClause(clauses[p]) /\ Fits(clauses[p], pss[p])

\* Before a clause of a group are the holes of those before it, one for each of their parameters.
LEMMA GroupParams ==
    ASSUME NEW n \in Nat, NEW clauses, NEW pss, ClauseList(n, clauses, pss),
           NEW g, NEW conjunction, NEW ends, Layout(g, conjunction, clauses, n, ends),
           NEW flat, NEW W, Flattened(flat, pss, n, W), NEW U, Tally(g, U)
    PROVE  \A p \in 0..n : U[2 + ends[p]] = Len(flat[p])
  <1> DEFINE S == {p \in 0..n : U[2 + ends[p]] = Len(flat[p])}
  <1>0. IsClause(g)
    BY DEF Layout
  <1>1. 0 \in S
    <2>1. Len(g) \in Nat \ {0} /\ HolesAt(g, 1) = 0
      BY <1>0, TallyGrows DEF Layout, HolesAt
    <2>2. U[1 + 1] = U[1] + HolesAt(g, 1) /\ U[1] = 0
      BY <2>1 DEF Tally
    <2>3. U[2] = 0
      BY <2>1, <2>2
    <2>4. ends[0] = 0 /\ 0 \in 0..n /\ Len(flat[0]) = 0
      BY DEF Layout, Flattened
    <2> QED BY <2>3, <2>4
  <1>2. ASSUME NEW p \in 1..n, p - 1 \in S PROVE p \in S
    <2> DEFINE o == 1 + ends[p - 1]
               l == Len(clauses[p])
    <2>0. /\ p - 1 \in 0..n /\ p \in 0..n /\ IsClause(clauses[p]) /\ Fits(clauses[p], pss[p])
          /\ flat[p - 1] \in Seq(W) /\ pss[p] \in Seq(W) /\ flat[p] = flat[p - 1] \o pss[p]
      BY DEF ClauseList, Flattened
    <2>1. o \in Nat /\ Placed(clauses[p], g, o) /\ ends[p] = ends[p - 1] + l /\ ends[p - 1] \in Nat
      <3>1. ends[p - 1] \in Nat
        BY <2>0 DEF Layout
      <3> QED BY <3>1 DEF Layout
    <2>2. PICK T : Tally(clauses[p], T)
      BY <2>0, TakenIs
    <2>3. l \in Nat \ {0} /\ T[l + 1] = Len(pss[p])
      BY <2>0, <2>2, TallyGrows DEF Fits
    <2>4. U[o + (l + 1)] = U[o + 1] + T[l + 1]
      <3>1. l + 1 \in 1..(l + 1)
        BY <2>3
      <3> HIDE DEF o
      <3>2. Moved(T, U, l, o)
        BY <1>0, <2>0, <2>1, <2>2, TallyMoves
      <3> QED BY <3>1, <3>2 DEF Moved
    <2>5. o + (l + 1) = 2 + ends[p] /\ o + 1 = 2 + ends[p - 1]
      <3> DEFINE before == ends[p - 1]
      <3>1. o = 1 + before /\ before \in Nat /\ l \in Nat /\ ends[p] = before + l
        BY <2>1, <2>3
      <3> HIDE DEF before, o, l
      <3>2. o + (l + 1) = 2 + ends[p] /\ o + 1 = 2 + before
        BY <3>1
      <3> QED BY <3>2 DEF before
    <2>6. U[2 + ends[p - 1]] = Len(flat[p - 1])
      BY <1>2
    <2>7. Len(flat[p]) = Len(flat[p - 1]) + Len(pss[p])
      <3>1. Len(flat[p - 1] \o pss[p]) = Len(flat[p - 1]) + Len(pss[p])
        BY <2>0, ConcatProperties
      <3> QED BY <2>0, <3>1
    <2> HIDE DEF o, l, S
    <2>8. U[2 + ends[p]] = Len(flat[p])
      BY <2>3, <2>4, <2>5, <2>6, <2>7
    <2> QED BY <2>0, <2>8 DEF S
  <1> HIDE DEF S
  <1>3. \A p \in 0..n : p \in S
    BY <1>1, <1>2, StepInduction
  <1> QED BY <1>3 DEF S

\* A group is of a row what its parts are together.
IsTrueAs(g, params, conjunction, n, clauses, pss, row) ==
    /\ IsClause(g) /\ Fits(g, params) /\ (n # 0 => g # NoFilter)
    /\ Where(g, params, row)
         = Together(conjunction, {Where(clauses[p], pss[p], row) : p \in 1..n})

\* A group is true of a row as its parts are, each with its own parameters.
LEMMA GroupWhere ==
    ASSUME NEW n \in Nat, NEW clauses, NEW pss, ClauseList(n, clauses, pss),
           NEW conjunction, NEW row
    PROVE  IsTrueAs(Group(conjunction, clauses), FlattenSeq(pss), conjunction, n, clauses, pss, row)
  <1> DEFINE g == Group(conjunction, clauses)
             W == UNION {Range(pss[p]) : p \in 1..n}
             qs == FlattenSeq(pss)
  <1>1. PICK ends : Layout(g, conjunction, clauses, n, ends)
    BY GroupLayout DEF ClauseList
  <1> HIDE DEF g
  <1>2. IsClause(g) /\ ends \in [0..n -> Nat] /\ ends[0] = 0 /\ Len(g) = 1 + ends[n]
    BY <1>1 DEF Layout
  <1>3. pss \in [1..n -> Seq(W)]
    <2>1. ASSUME NEW p \in 1..n PROVE pss[p] \in Seq(W)
      <3>1. pss[p] \in Seq(Range(pss[p])) /\ Range(pss[p]) \subseteq W
        BY DEF Fits, ClauseList
      <3> QED BY <3>1, SeqMonotonic
    <2> HIDE DEF W
    <2> QED BY <2>1 DEF ClauseList
  <1> HIDE DEF W
  <1>4. PICK flat : Flattened(flat, pss, n, W) /\ qs = flat[n]
    BY <1>3, FlatIs, Zenon
  <1> HIDE DEF qs
  <1>5. n \in 0..n /\ qs \in Seq(W)
    BY <1>4 DEF Flattened
  <1>6. \A p \in 1..n : Placed(pss[p], qs, Len(flat[p - 1]))
    BY <1>4, <1>5, PlacesIn
  <1>7. ASSUME NEW U, Tally(g, U) PROVE \A p \in 0..n : U[2 + ends[p]] = Len(flat[p])
    BY <1>1, <1>4, <1>7, GroupParams
  <1>8. Fits(g, qs)
    <2>1. ASSUME NEW U, Tally(g, U) PROVE U[Len(g) + 1] = Len(qs)
      <3>1. Len(g) + 1 = 2 + ends[n]
        BY <1>2
      <3> QED BY <1>4, <1>5, <1>7, <2>1, <3>1
    <2>2. qs \in Seq(Range(qs))
      BY <1>5, IsList
    <2> QED BY <2>1, <2>2 DEF Fits
  <1>9. n # 0 => g # NoFilter
    <2>1. ASSUME n # 0 PROVE Len(g) # 1
      <3>1. 1 \in 1..n /\ 1 - 1 = 0
        BY <2>1
      <3>2. Placed(clauses[1], g, 1) /\ Len(clauses[1]) \in Nat \ {0}
        <4>1. Placed(clauses[1], g, 1 + ends[0])
          BY <1>1, <3>1 DEF Layout
        <4>2. clauses[1] \in Seq(Range(clauses[1])) /\ clauses[1] # <<>>
          BY <3>1 DEF IsClause, IsTree, ClauseList
        <4> QED BY <1>2, <4>1, <4>2
      <3>3. Len(g) \in Nat
        BY <1>2, IsList DEF IsClause
      <3>4. 1 + Len(clauses[1]) <= Len(g)
        BY <3>2 DEF Placed
      <3> DEFINE part == Len(clauses[1])
                 whole == Len(g)
      <3>5. part \in Nat \ {0} /\ whole \in Nat /\ 1 + part <= whole
        BY <3>2, <3>3, <3>4
      <3> HIDE DEF part, whole
      <3>6. whole # 1
        BY <3>5
      <3> QED BY <3>6 DEF whole
    <2>2. Len(NoFilter) = 1
      <3>1. PICK e : Layout(NoFilter, "AND", <<>>, 0, e)
        <4>1. 0 \in Nat /\ <<>> = [p \in 1..0 |-> <<>>[p]] /\ \A p \in 1..0 : IsClause(<<>>[p])
          OBVIOUS
        <4>2. \E e : Layout(Group("AND", <<>>), "AND", <<>>, 0, e)
          BY <4>1, GroupLayout
        <4> QED BY <4>2 DEF NoFilter
      <3> QED BY <3>1 DEF Layout
    <2> QED BY <2>1, <2>2
  <1>10. Where(g, qs, row) = Together(conjunction, {Where(clauses[p], pss[p], row) : p \in 1..n})
    <2>1. PICK U, wholes : Evaluates(g, U, qs, row, wholes) /\ Where(g, qs, row) = wholes[1]
      BY <1>2, WhereIs
    <2>2. ASSUME NEW p \in 1..n PROVE wholes[1 + g[1].at[p]] = Where(clauses[p], pss[p], row)
      <3>1. PICK T, holds : /\ Evaluates(clauses[p], T, pss[p], row, holds)
                            /\ Where(clauses[p], pss[p], row) = holds[1]
        <4>1. IsClause(clauses[p])
          BY DEF ClauseList
        <4> QED BY <4>1, WhereIs
      <3> DEFINE o == 1 + ends[p - 1]
      <3>2. o \in Nat /\ Placed(clauses[p], g, o) /\ g[1].at[p] = o /\ p - 1 \in 0..n
            /\ 2 + ends[p - 1] = o + 1
        <4>1. p - 1 \in 0..n
          OBVIOUS
        <4>2. ends[p - 1] \in Nat
          BY <1>2, <4>1
        <4> QED BY <1>1, <4>1, <4>2 DEF Layout
      <3> HIDE DEF o
      <3>3. Tally(g, U)
        BY <2>1 DEF Evaluates
      <3>4. U[o + 1] = Len(flat[p - 1])
        BY <1>7, <3>2, <3>3
      <3>5. Placed(pss[p], qs, U[o + 1])
        BY <1>6, <3>4
      <3>6. Same(holds, wholes, Len(clauses[p]), o)
        <4>1. IsClause(clauses[p]) /\ Fits(clauses[p], pss[p])
          BY DEF ClauseList
        <4> QED BY <1>2, <1>8, <2>1, <3>1, <3>2, <3>5, <4>1, PartHolds
      <3>7. 1 \in 1..Len(clauses[p])
        <4>1. clauses[p] \in Seq(Range(clauses[p])) /\ clauses[p] # <<>>
          BY DEF IsClause, IsTree, ClauseList
        <4> QED BY <4>1
      <3>8. wholes[o + 1] = holds[1] /\ o + 1 = 1 + o
        BY <3>2, <3>6, <3>7 DEF Same
      <3> QED BY <3>1, <3>2, <3>8
    <2>3. wholes[1] = Together(conjunction, {wholes[1 + g[1].at[p]] : p \in 1..n})
      <3>1. 1 \in 1..Len(g)
        BY <1>2, TallyGrows, <2>1 DEF Evaluates
      <3>2. wholes[1] = HoldsAt(g, U, qs, row, wholes, 1)
        BY <2>1, <3>1 DEF Evaluates
      <3> QED BY <1>1, <3>2 DEF HoldsAt, Layout
    <2>4. {wholes[1 + g[1].at[p]] : p \in 1..n} = {Where(clauses[p], pss[p], row) : p \in 1..n}
      BY <2>2
    <2> QED BY <2>1, <2>3, <2>4
  <1> QED BY <1>2, <1>8, <1>9, <1>10 DEF g, qs, IsTrueAs

-----------------------------------------------------------------------------
(* A condition                                                               *)

\* A test reads as many values as its operator takes.
LEMMA TestReads ==
    ASSUME NEW node, NEW cell, NEW vs, NEW us, \A i \in 1..Holes(node) : vs[i] = us[i],
           node.op \in {"in", "not_in"} =>
              DOMAIN vs = 1..Holes(node) /\ DOMAIN us = 1..Holes(node)
    PROVE  Test(node.op, cell, vs) = Test(node.op, cell, us)
  <1> DEFINE op == node.op
  <1>1. CASE op \in {"is_null", "is_not_null"}
    BY <1>1 DEF Test
  <1>2. CASE op = "between"
    <2>1. Holes(node) = 2
      BY <1>2 DEF Holes
    <2>2. vs[1] = us[1] /\ vs[2] = us[2]
      BY <2>1
    <2>3. \A s : Test("between", cell, s)
                   = AllOf({Compare("gte", cell, s[1]), Compare("lte", cell, s[2])})
      BY DEF Test
    <2> QED BY <1>2, <2>2, <2>3
  <1>3. CASE op \in {"in", "not_in"}
    <2>1. {Compare("eq", cell, vs[i]) : i \in DOMAIN vs} = {Compare("eq", cell, us[i]) : i \in DOMAIN us}
      BY <1>3
    <2>2. \A s : Test("in", cell, s) = AnyOf({Compare("eq", cell, s[i]) : i \in DOMAIN s})
      BY DEF Test
    <2>3. \A s : Test("not_in", cell, s) = Not(AnyOf({Compare("eq", cell, s[i]) : i \in DOMAIN s}))
      BY DEF Test
    <2> QED BY <1>3, <2>1, <2>2, <2>3
  <1>4. CASE op \notin {"is_null", "is_not_null", "between", "in", "not_in"}
    <2>1. Holes(node) = 1
      BY <1>4 DEF Holes
    <2>2. vs[1] = us[1]
      BY <2>1
    <2>3. CASE op = "neq"
      BY <2>2, <2>3 DEF Test
    <2>4. CASE op \in {"contains", "not_contains"}
      BY <2>2, <2>4 DEF Test
    <2>5. CASE op \notin {"neq", "contains", "not_contains"}
      <3>1. \A s : Test(op, cell, s) = Compare(op, cell, s[1])
        BY <1>4, <2>5 DEF Test
      <3> QED BY <2>2, <3>1
    <2> QED BY <2>3, <2>4, <2>5
  <1> QED BY <1>1, <1>2, <1>3, <1>4

\* The values of a condition, by the type of its column
Coerced(node, types) == [m \in DOMAIN node.values |-> Coerce(types[node.column], node.values[m])]

\* The clause of a condition is of a row what the condition is, if no text is escaped.
LEMMA ConditionWhere ==
    ASSUME NEW node, HasValues(node), ~IsGroup(node), NEW types, NEW row,
           Looks(node.op) =>
              Param(node, types, 1) = Coerce(types[node.column], node.values[1])
    PROVE  LET built == BuildCondition(node, types)
           IN  /\ IsClause(built.clause) /\ Fits(built.clause, built.params)
               /\ built.clause # NoFilter
               /\ Where(built.clause, built.params, row)
                    = Test(node.op, row[node.column], Coerced(node, types))
  <1> DEFINE h == Holes(node)
             part == [column |-> node.column, op |-> node.op, holes |-> h]
             clause == <<part>>
             params == [i \in 1..h |-> Coerce(types[node.column], node.values[i])]
  <1>1. BuildCondition(node, types) = [clause |-> clause, params |-> params]
    <2>1. Looks(node.op) => h = 1
      BY DEF Looks, Holes
    <2>2. ~Looks(node.op) =>
             \A i \in 1..h : Param(node, types, i) = Coerce(types[node.column], node.values[i])
      BY DEF Param
    <2> HIDE DEF h
    <2>3. \A i \in 1..h : Param(node, types, i) = Coerce(types[node.column], node.values[i])
      BY <2>1, <2>2
    <2> QED BY <2>3 DEF BuildCondition, h
  <1>2. h \in Nat /\ DOMAIN node.values = 1..Len(node.values) /\ h <= Len(node.values)
        /\ Len(node.values) \in Nat
    <2>1. node.values \in Seq(Range(node.values)) /\ h <= Len(node.values)
      BY DEF HasValues
    <2>2. Len(node.values) \in Nat /\ DOMAIN node.values = 1..Len(node.values)
      BY <2>1
    <2>3. h \in {0, 1, 2, Len(node.values)}
      BY DEF Holes
    <2> QED BY <2>1, <2>2, <2>3
  <1>3. ~IsGroup(part) /\ part.holes = h /\ part.op = node.op /\ part.column = node.column
    BY DEF IsGroup
  <1>4. params \in Seq(Range(params)) /\ Len(params) = h /\ DOMAIN params = 1..h
        /\ \A i \in 1..h : params[i] = Coerced(node, types)[i]
    <2>1. params \in Seq(Range(params)) /\ Len(params) = h
      <3>1. DOMAIN params = 1..h /\ params = [i \in DOMAIN params |-> params[i]]
        OBVIOUS
      <3> HIDE DEF params
      <3> QED BY <1>2, <3>1, ListOf
    <2>2. \A i \in 1..h : params[i] = Coerced(node, types)[i]
      BY <1>2 DEF Coerced
    <2> QED BY <2>1, <2>2
  <1> HIDE DEF params, part, h
  <1>5. clause \in Seq(Range(clause)) /\ Len(clause) = 1 /\ DOMAIN clause = 1..1 /\ clause[1] = part
    <2>1. Range(clause) = {part}
      BY DEF Range
    <2> QED BY <2>1
  <1> HIDE DEF clause
  <1>6. IsClause(clause)
    <2>1. \A i \in DOMAIN clause : i = 1
      BY <1>5
    <2>2. HolesAt(clause, 1) \in Nat /\ ~IsGroup(clause[1])
      BY <1>2, <1>3, <1>5 DEF HolesAt
    <2>3. clause # <<>>
      <3>1. Len(clause) = 1
        BY <1>5
      <3> QED BY <3>1
    <2> QED BY <1>5, <2>1, <2>2, <2>3 DEF IsClause, IsTree
  <1>7. Fits(clause, params)
    <2>1. ASSUME NEW T, Tally(clause, T) PROVE T[Len(clause) + 1] = Len(params)
      <3>1. T[1] = 0 /\ T[1 + 1] = T[1] + HolesAt(clause, 1) /\ HolesAt(clause, 1) = h
        BY <1>3, <1>5, <2>1 DEF Tally, HolesAt
      <3> QED BY <1>2, <1>4, <1>5, <3>1
    <2> QED BY <1>4, <2>1 DEF Fits
  <1>8. clause # NoFilter
    <2>1. NoFilter[1] = [conjunction |-> "AND", at |-> NoFilter[1].at]
      <3> DEFINE none == [conjunction |-> "AND",
                          at |-> [m \in DOMAIN <<>> |-> 1 + Len(FlattenSeq(SubSeq(<<>>, 1, m - 1)))]]
      <3>1. NoFilter = <<none>> \o FlattenSeq(<<>>) /\ FlattenSeq(<<>>) = <<>>
        BY DEF NoFilter, Group, FlattenSeq
      <3>2. none.at = [m \in DOMAIN <<>> |-> 1 + Len(FlattenSeq(SubSeq(<<>>, 1, m - 1)))]
        OBVIOUS
      <3>3. none = [conjunction |-> "AND", at |-> none.at]
        BY <3>2
      <3> HIDE DEF none
      <3>4. NoFilter[1] = none
        <4>1. <<none>> \in Seq({none}) /\ <<none>>[1] = none
          OBVIOUS
        <4>2. NoFilter = <<none>>
          BY <3>1, <4>1, ConcatEmptySeq
        <4> QED BY <4>1, <4>2
      <3> QED BY <3>3, <3>4
    <2>2. IsGroup(NoFilter[1])
      BY <2>1 DEF IsGroup
    <2> QED BY <1>3, <1>5, <2>2
  <1>9. Where(clause, params, row) = Test(node.op, row[node.column], Coerced(node, types))
    <2>1. PICK T, holds : /\ Evaluates(clause, T, params, row, holds)
                          /\ Where(clause, params, row) = holds[1]
      BY <1>6, WhereIs
    <2>2. holds[1] = HoldsAt(clause, T, params, row, holds, 1) /\ T[1] = 0
      BY <1>5, <2>1 DEF Evaluates, Tally
    <2>3. holds[1] = Test(node.op, row[node.column], SubSeq(params, T[1] + 1, T[1] + h))
      BY <1>3, <1>5, <2>2 DEF HoldsAt
    <2>4. SubSeq(params, T[1] + 1, T[1] + h) = params
      <3> DEFINE s == SubSeq(params, 1, h)
      <3>1. T[1] + 1 = 1 /\ T[1] + h = h
        BY <1>2, <2>2
      <3>2. Len(s) = h /\ s \in Seq(Range(params)) /\ \A i \in 1..h : s[i] = params[i]
        <4>1. \A i \in 1..h : 1 + i - 1 = i
          OBVIOUS
        <4>2. h - 1 + 1 = h
          BY <1>2
        <4> QED BY <1>2, <1>4, <4>1, <4>2
      <3> HIDE DEF s
      <3>3. s = params
        <4>1. s = [i \in 1..h |-> s[i]] /\ params = [i \in 1..h |-> params[i]]
          BY <1>4, <3>2
        <4> QED BY <3>2, <4>1
      <3> QED BY <3>1, <3>3 DEF s
    <2>5. node.op \in {"in", "not_in"} => h = Len(node.values)
      BY DEF Holes, h
    <2>6. DOMAIN Coerced(node, types) = 1..Len(node.values)
      BY <1>2 DEF Coerced
    <2> HIDE DEF h
    <2>7. Test(node.op, row[node.column], params)
            = Test(node.op, row[node.column], Coerced(node, types))
      BY <1>4, <2>5, <2>6, TestReads DEF h
    <2> QED BY <2>1, <2>3, <2>4, <2>7
  <1> QED BY <1>1, <1>6, <1>7, <1>8, <1>9
-----------------------------------------------------------------------------
(* What a filter asks for, and what it keeps                                 *)

\* What Asks says of a node, by what it says of its parts
AskAt(filter, asks, i) ==
    ~IsGroup(filter[i]) \/ \E m \in DOMAIN filter[i].at : asks[i + filter[i].at[m]]

\* The parts of a group are after it.
LEMMA PartsAfter ==
    ASSUME NEW filter, filter \in Seq(Range(filter)), IsTree(filter),
           NEW i \in 1..Len(filter), IsGroup(filter[i])
    PROVE  /\ filter[i].at \in Seq(1..(Len(filter) - i))
           /\ \A m \in DOMAIN filter[i].at : i + filter[i].at[m] \in (i + 1)..Len(filter)
  <1> DEFINE at == filter[i].at
             n == Len(filter)
             reach == 1..(n - i)
  <1>1. n \in Nat /\ DOMAIN filter = 1..n
    BY IsList
  <1>2. at \in Seq(reach)
    BY <1>1 DEF IsTree
  <1> HIDE DEF at, reach, n
  <1>3. \A m \in DOMAIN at : at[m] \in reach
    BY <1>2
  <1>4. \A x \in reach : i + x \in (i + 1)..n
    BY <1>1 DEF reach
  <1> QED BY <1>2, <1>3, <1>4 DEF at, reach, n

\* The recursion of Asks
LEMMA AsksIs ==
    ASSUME NEW filter, filter \in Seq(Range(filter)), IsTree(filter)
    PROVE  \A i \in 1..Len(filter) : Asks(filter)[i] = AskAt(filter, Asks(filter), i)
  <1> DEFINE n == Len(filter)
             Body(f) == [i \in DOMAIN filter |->
                            ~IsGroup(filter[i]) \/ \E m \in DOMAIN filter[i].at : f[i + filter[i].at[m]]]
             asks == CHOOSE f : f = Body(f)
             G == [i \in 1..n |-> [f \in [1..n -> BOOLEAN] |-> AskAt(filter, f, i)]]
  <1>1. n \in Nat /\ DOMAIN filter = 1..n
    BY IsList
  <1>2. Asks(filter) = asks
    BY DEF Asks
  <1>3. \A f : Body(f) = [i \in 1..n |-> AskAt(filter, f, i)]
    BY <1>1 DEF AskAt
  <1>4. ASSUME NEW i \in 1..n, NEW f, NEW g, \A j \in (i + 1)..n : f[j] = g[j]
        PROVE  AskAt(filter, f, i) = AskAt(filter, g, i)
    <2>1. CASE ~IsGroup(filter[i])
      BY <2>1 DEF AskAt
    <2>2. CASE IsGroup(filter[i])
      <3>1. \A m \in DOMAIN filter[i].at : f[i + filter[i].at[m]] = g[i + filter[i].at[m]]
        BY <1>4, <2>2, PartsAfter
      <3> QED BY <3>1, Zenon DEF AskAt
    <2> QED BY <2>1, <2>2
  <1>5. Forward(G, n, BOOLEAN)
    <2>1. \A i \in 1..n : \A f \in [1..n -> BOOLEAN] : G[i][f] = AskAt(filter, f, i)
      BY Zenon
    <2>2. \A i, f : AskAt(filter, f, i) \in BOOLEAN
      BY DEF AskAt
    <2> HIDE DEF G, n
    <2>3. ASSUME NEW i \in 1..n, NEW f \in [1..n -> BOOLEAN]
          PROVE  /\ G[i][f] \in BOOLEAN
                 /\ \A g \in [1..n -> BOOLEAN] :
                       (\A j \in (i + 1)..n : f[j] = g[j]) => G[i][f] = G[i][g]
      <3>1. G[i][f] \in BOOLEAN
        BY <2>1, <2>2, Zenon
      <3>2. ASSUME NEW g \in [1..n -> BOOLEAN], \A j \in (i + 1)..n : f[j] = g[j]
            PROVE  G[i][f] = G[i][g]
        <4>1. AskAt(filter, f, i) = AskAt(filter, g, i)
          BY <1>4, <3>2
        <4> QED BY <2>1, <4>1, Zenon
      <3> QED BY <3>1, <3>2, Zenon
    <2> QED BY <2>3, Zenon DEF Forward
  <1>6. PICK f : Recursive(f, G, n, BOOLEAN)
    <2> HIDE DEF G, n
    <2>1. BOOLEAN # {}
      OBVIOUS
    <2> QED BY <1>1, <1>5, <2>1, ForwardExists
  <1>7. f = Body(f)
    <2>1. \A i \in 1..n : f[i] = AskAt(filter, f, i)
      <3>1. \A i \in 1..n : G[i][f] = AskAt(filter, f, i)
        BY <1>6, Zenon DEF Recursive
      <3> HIDE DEF G
      <3> QED BY <1>6, <3>1, Zenon DEF Recursive
    <2>2. f = [i \in 1..n |-> f[i]]
      BY <1>6 DEF Recursive
    <2>3. f = [i \in 1..n |-> AskAt(filter, f, i)]
      <3> HIDE DEF Body, G, n
      <3> QED BY <2>1, <2>2, Zenon
    <2> HIDE DEF Body
    <2> QED BY <1>3, <2>3
  <1>8. asks = Body(asks)
    <2> HIDE DEF Body, G
    <2> QED BY <1>7
  <1> HIDE DEF asks, Body, G
  <1>9. asks = [i \in 1..n |-> AskAt(filter, asks, i)]
    BY <1>3, <1>8
  <1> QED BY <1>2, <1>9, Zenon

\* What Keeps says of a node, by what it says of its parts
KeepAt(filter, types, row, keeps, i) ==
    LET node == filter[i]
        asking == {j \in {i + node.at[m] : m \in DOMAIN node.at} : Asks(filter)[j]}
    IN  IF ~IsGroup(node) THEN Test(node.op, row[node.column], Coerced(node, types))
        ELSE IF asking = {} THEN "true"
        ELSE Together(node.conjunction, {keeps[j] : j \in asking})

\* The recursion of Keeps
LEMMA KeepsIs ==
    ASSUME NEW filter, filter \in Seq(Range(filter)), IsTree(filter), NEW types, NEW row
    PROVE  \E keeps : /\ Keeps(filter, types, row) = keeps[1]
                      /\ \A i \in 1..Len(filter) : keeps[i] = KeepAt(filter, types, row, keeps, i)
  <1> DEFINE n == Len(filter)
             Body(f) == [i \in DOMAIN filter |->
                LET node == filter[i]
                    parts == {i + node.at[m] : m \in DOMAIN node.at}
                    asking == {j \in parts : Asks(filter)[j]}
                IN  IF ~IsGroup(node)
                    THEN Test(node.op, row[node.column],
                              [m \in DOMAIN node.values |->
                                  Coerce(types[node.column], node.values[m])])
                    ELSE IF asking = {} THEN "true"
                    ELSE Together(node.conjunction, {f[j] : j \in asking})]
             keeps == CHOOSE f : f = Body(f)
             At(f, i) == KeepAt(filter, types, row, f, i)
             G == [i \in 1..n |-> [f \in [1..n -> Truths] |-> At(f, i)]]
  <1>1. n \in Nat /\ DOMAIN filter = 1..n
    BY IsList
  <1>2. Keeps(filter, types, row) = keeps[1]
    BY DEF Keeps
  <1>3. \A f : Body(f) = [i \in 1..n |-> At(f, i)]
    BY <1>1 DEF KeepAt, Coerced
  <1>4. ASSUME NEW i \in 1..n, NEW f, NEW g, \A j \in (i + 1)..n : f[j] = g[j]
        PROVE  At(f, i) = At(g, i)
    <2>1. CASE ~IsGroup(filter[i])
      BY <2>1 DEF KeepAt
    <2>2. CASE IsGroup(filter[i])
      <3> DEFINE asking == {j \in {i + filter[i].at[m] : m \in DOMAIN filter[i].at} : Asks(filter)[j]}
      <3>1. \A j \in asking : j \in (i + 1)..n
        BY <2>2, PartsAfter
      <3>2. {f[j] : j \in asking} = {g[j] : j \in asking}
        <4> HIDE DEF asking
        <4> QED BY <1>4, <3>1
      <3> QED BY <2>2, <3>2 DEF KeepAt
    <2> QED BY <2>1, <2>2
  <1>5. Forward(G, n, Truths)
    <2>1. \A i \in 1..n : \A f \in [1..n -> Truths] : G[i][f] = At(f, i)
      BY Zenon
    <2>2. \A i, f : At(f, i) \in Truths
      <3>1. "true" \in Truths
        BY DEF Truths
      <3> QED BY <3>1, TruthsOnly DEF KeepAt
    <2> HIDE DEF G, n, At
    <2>3. ASSUME NEW i \in 1..n, NEW f \in [1..n -> Truths]
          PROVE  /\ G[i][f] \in Truths
                 /\ \A g \in [1..n -> Truths] :
                       (\A j \in (i + 1)..n : f[j] = g[j]) => G[i][f] = G[i][g]
      <3>1. G[i][f] \in Truths
        BY <2>1, <2>2, Zenon
      <3>2. ASSUME NEW g \in [1..n -> Truths], \A j \in (i + 1)..n : f[j] = g[j]
            PROVE  G[i][f] = G[i][g]
        <4>1. At(f, i) = At(g, i)
          BY <1>4, <3>2
        <4> QED BY <2>1, <4>1, Zenon
      <3> QED BY <3>1, <3>2, Zenon
    <2> QED BY <2>3, Zenon DEF Forward
  <1>6. PICK f : Recursive(f, G, n, Truths)
    <2> HIDE DEF G, n
    <2>1. Truths # {}
      BY DEF Truths
    <2> QED BY <1>1, <1>5, <2>1, ForwardExists
  <1>7. f = Body(f)
    <2>1. \A i \in 1..n : f[i] = At(f, i)
      <3>1. \A i \in 1..n : G[i][f] = At(f, i)
        BY <1>6, Zenon DEF Recursive
      <3> HIDE DEF G, At
      <3> QED BY <1>6, <3>1 DEF Recursive
    <2>2. f = [i \in 1..n |-> f[i]]
      BY <1>6 DEF Recursive
    <2>3. f = [i \in 1..n |-> At(f, i)]
      <3> HIDE DEF Body, G, At
      <3> QED BY <2>1, <2>2
    <2> HIDE DEF Body, At
    <2> QED BY <1>3, <2>3
  <1>8. keeps = Body(keeps)
    <2> HIDE DEF Body, G
    <2> QED BY <1>7
  <1> HIDE DEF keeps, Body, G, At
  <1>9. keeps = [i \in 1..n |-> At(keeps, i)]
    BY <1>3, <1>8
  <1>10. \A i \in 1..n : keeps[i] = At(keeps, i)
    BY <1>9
  <1> QED BY <1>2, <1>10 DEF At

\* A filter whose conditions have the values that their operators take
Complete(filter) ==
    /\ filter \in Seq(Range(filter)) /\ IsTree(filter)
    /\ \A i \in DOMAIN filter : ~IsGroup(filter[i]) => HasValues(filter[i])

\* Types and rows that say the same of the columns of a filter
Agree(filter, types, row, types2, row2) ==
    \A column \in FilterColumns(filter) :
        types[column] = types2[column] /\ row[column] = row2[column]

\* What is built at a node of a filter stands for what the node asks.
Means(built, asks, keeps, row) ==
    /\ built.clause # NoFilter <=> asks
    /\ asks => /\ IsClause(built.clause) /\ Fits(built.clause, built.params)
               /\ Where(built.clause, built.params, row) = keeps

\* A clause and its parameters, put into its holes from left to right, are true of a row
\* exactly when the filter they are built from keeps the row, whatever the tree of the
\* filter, its operators and values and the types, as long as it looks for no text that
\* escapeLike changes; the clause is empty only if the filter asks nothing
\* (buildFilterWhere, buildConditionWhere, coerceFilterValue).  The row of the joins, which
\* the clause is about, has to say of the columns of the filter what row2 says.
THEOREM ClauseMeansFilter ==
    ASSUME NEW filter, Complete(filter), NEW types, NEW row, NEW types2, NEW row2,
           Agree(filter, types, row, types2, row2), Literal(filter, types2)
    PROVE  LET built == BuildFilterWhere(filter, types)
           IN  /\ built.clause # NoFilter <=> Asks(filter)[1]
               /\ built.clause # NoFilter => IsClause(built.clause)
               /\ Keeps(filter, types2, row2) =
                     IF built.clause = NoFilter THEN "true"
                     ELSE Where(built.clause, built.params, row)
  <1> DEFINE n == Len(filter)
             asks == Asks(filter)
  <1>0. filter \in Seq(Range(filter)) /\ IsTree(filter)
    BY DEF Complete
  <1>1. n \in Nat \ {0} /\ DOMAIN filter = 1..n
    BY <1>0, IsList DEF IsTree
  <1>2. PICK built : /\ BuildFilterWhere(filter, types) = built[1]
                     /\ \A i \in 1..n : built[i] = BuiltAt(filter, types, built, i)
    BY <1>0, BuiltIs
  <1>3. PICK keeps : /\ Keeps(filter, types2, row2) = keeps[1]
                     /\ \A i \in 1..n : keeps[i] = KeepAt(filter, types2, row2, keeps, i)
    BY <1>0, KeepsIs
  <1>4. \A i \in 1..n : asks[i] = AskAt(filter, asks, i)
    BY <1>0, AsksIs
  <1> HIDE DEF n, asks
  <1> DEFINE Claim(i) == Means(built[i], asks[i], keeps[i], row)
  <1>5. ASSUME NEW i \in 1..n, ~IsGroup(filter[i]) PROVE Claim(i)
    <2> DEFINE node == filter[i]
    <2>1. HasValues(node) /\ node.column \in FilterColumns(filter)
      BY <1>1, <1>5 DEF Complete, FilterColumns
    <2>2. built[i] = BuildCondition(node, types)
      BY <1>2, <1>5, Zenon DEF BuiltAt
    <2>3. types[node.column] = types2[node.column] /\ row[node.column] = row2[node.column]
      BY <2>1 DEF Agree
    <2>4. keeps[i] = Test(node.op, row[node.column], Coerced(node, types))
      <3>1. keeps[i] = Test(node.op, row2[node.column], Coerced(node, types2))
        BY <1>3, <1>5 DEF KeepAt
      <3>2. Coerced(node, types) = Coerced(node, types2)
        BY <2>3 DEF Coerced
      <3> QED BY <2>3, <3>1, <3>2
    <2>5. asks[i]
      BY <1>4, <1>5, Zenon DEF AskAt
    <2>7. Looks(node.op) =>
             Param(node, types, 1) = Coerce(types[node.column], node.values[1])
      BY <1>1, <1>5, <2>3 DEF Literal, Param
    <2> HIDE DEF node
    <2>6. /\ IsClause(built[i].clause) /\ Fits(built[i].clause, built[i].params)
          /\ built[i].clause # NoFilter
          /\ Where(built[i].clause, built[i].params, row)
               = Test(node.op, row[node.column], Coerced(node, types))
      BY <1>5, <2>1, <2>2, <2>7, ConditionWhere DEF node
    <2> QED BY <2>4, <2>5, <2>6, Zenon DEF Means
  <1>6. ASSUME NEW i \in 1..n, IsGroup(filter[i]), \A j \in (i + 1)..n : Claim(j) PROVE Claim(i)
    <2> DEFINE at == filter[i].at
               places == {i + at[m] : m \in DOMAIN at}
               asking == {j \in places : asks[j]}
               all == [m \in DOMAIN at |-> built[i + at[m]]]
               parts == Picked(all, {m \in DOMAIN all : all[m].clause # NoFilter})
               clauses == [p \in DOMAIN parts |-> parts[p].clause]
               pss == [p \in DOMAIN parts |-> parts[p].params]
               conjunction == filter[i].conjunction
    <2>1. at \in Seq(1..(n - i)) /\ \A m \in DOMAIN at : i + at[m] \in (i + 1)..n
      BY <1>0, <1>6, PartsAfter DEF n
    <2>2. built[i] = IF parts = <<>> THEN Nowhere
                     ELSE [clause |-> Group(conjunction, clauses), params |-> FlattenParams(parts)]
      BY <1>2, <1>6, Zenon DEF BuiltAt
    <2>3. keeps[i] = IF asking = {} THEN "true"
                     ELSE Together(conjunction, {keeps[j] : j \in asking})
      BY <1>3, <1>6 DEF KeepAt, asks
    <2>4. asks[i] <=> asking # {}
      <3>1. asks[i] = \E m \in DOMAIN at : asks[i + at[m]]
        BY <1>4, <1>6, Zenon DEF AskAt
      <3> QED BY <3>1, Zenon
    <2>5. \A m \in DOMAIN at : Claim(i + at[m])
      <3> HIDE DEF Claim
      <3> QED BY <1>6, <2>1
    <2> HIDE DEF Claim, conjunction
    <2>6. all \in Seq(Range(all)) /\ DOMAIN all = DOMAIN at
      <3>1. Len(at) \in Nat /\ DOMAIN at = 1..Len(at)
        BY <2>1
      <3> HIDE DEF at
      <3> QED BY <3>1, ListOf
    <2>7. \A m \in DOMAIN all : all[m] = built[i + at[m]]
      OBVIOUS
    <2>8. parts \in Seq(Range(parts))
          /\ Range(parts) = {all[m] : m \in {m \in DOMAIN all : all[m].clause # NoFilter}}
      <3> DEFINE there == {m \in DOMAIN all : all[m].clause # NoFilter}
      <3>1. there \cap DOMAIN all = there
        OBVIOUS
      <3> HIDE DEF all, there
      <3>2. /\ Picked(all, there) \in Seq(Range(Picked(all, there)))
            /\ Range(Picked(all, there)) = {all[m] : m \in there \cap DOMAIN all}
        BY <2>6, PickedIs
      <3> QED BY <3>1, <3>2 DEF there
    <2> HIDE DEF all, parts
    <2>9. Range(parts) = {built[j] : j \in asking}
      <3>1. \A m \in DOMAIN at : all[m].clause # NoFilter <=> asks[i + at[m]]
        BY <2>5, <2>6, <2>7, Zenon DEF Claim, Means
      <3>2. \A b : b \in Range(parts) <=> \E m \in DOMAIN at : asks[i + at[m]] /\ b = built[i + at[m]]
        BY <2>6, <2>7, <2>8, <3>1, Zenon
      <3>3. \A b : b \in {built[j] : j \in asking}
                     <=> \E m \in DOMAIN at : asks[i + at[m]] /\ b = built[i + at[m]]
        BY Zenon
      <3> QED BY <3>2, <3>3, Zenon
    <2>10. \A j \in asking : Claim(j) /\ asks[j]
      BY <2>5, Zenon
    <2>11. Len(parts) \in Nat /\ DOMAIN parts = 1..Len(parts)
           /\ \A p \in 1..Len(parts) : parts[p] \in Range(parts)
      BY <2>8, IsList
    <2>12. parts = <<>> <=> asking = {}
      <3>1. parts = <<>> <=> Range(parts) = {}
        <4>1. CASE parts = <<>>
          BY <4>1 DEF Range
        <4>2. CASE parts # <<>>
          <5>1. Len(parts) # 0
            BY <2>8, <4>2
          <5>2. 1 \in 1..Len(parts)
            BY <2>11, <5>1
          <5> QED BY <2>11, <4>2, <5>2
        <4> QED BY <4>1, <4>2
      <3> HIDE DEF asking
      <3>2. Range(parts) = {} <=> asking = {}
        BY <2>9
      <3> QED BY <3>1, <3>2
    <2> HIDE DEF asking
    <2>13. CASE asking = {}
      <3>1. built[i] = Nowhere /\ ~asks[i]
        BY <2>2, <2>4, <2>12, <2>13, Zenon
      <3>2. built[i].clause = NoFilter
        BY <3>1 DEF Nowhere
      <3> QED BY <3>1, <3>2, Zenon DEF Claim, Means
    <2>14. CASE asking # {}
      <3> DEFINE l == Len(parts)
      <3>1. ClauseList(l, clauses, pss)
        <4>1. ASSUME NEW p \in 1..l
              PROVE  IsClause(parts[p].clause) /\ Fits(parts[p].clause, parts[p].params)
          <5>1. PICK j \in asking : parts[p] = built[j]
            BY <2>9, <2>11
          <5> QED BY <2>10, <5>1, Zenon DEF Claim, Means
        <4> QED BY <2>11, <4>1 DEF ClauseList
      <3>2. \A p \in 1..l : clauses[p] = parts[p].clause /\ pss[p] = parts[p].params
        BY <2>11
      <3>3. FlattenParams(parts) = FlattenSeq(pss)
        BY DEF FlattenParams
      <3> DEFINE g == Group(conjunction, clauses)
                 qs == FlattenSeq(pss)
      <3>4. built[i].clause = g /\ built[i].params = qs /\ l # 0
        <4>1. parts # <<>>
          BY <2>12, <2>14
        <4>2. l # 0
          BY <2>8, <4>1
        <4> HIDE DEF g, qs
        <4>3. built[i] = [clause |-> g, params |-> qs]
          BY <2>2, <3>3, <4>1 DEF g, qs
        <4> QED BY <4>2, <4>3
      <3> HIDE DEF clauses, pss
      <3>5. /\ IsClause(g) /\ Fits(g, qs) /\ (l # 0 => g # NoFilter)
            /\ Where(g, qs, row)
                 = Together(conjunction, {Where(clauses[p], pss[p], row) : p \in 1..l})
        <4>1. IsTrueAs(g, qs, conjunction, l, clauses, pss, row)
          <5>1. l \in Nat
            BY <2>11
          <5> HIDE DEF l
          <5> QED BY <3>1, <5>1, GroupWhere
        <4> HIDE DEF g, qs, l
        <4> QED BY <4>1 DEF IsTrueAs
      <3> HIDE DEF g, qs, l
      <3>6. {Where(clauses[p], pss[p], row) : p \in 1..l} = {keeps[j] : j \in asking}
        <4>1. {Where(clauses[p], pss[p], row) : p \in 1..l}
                = {Where(parts[p].clause, parts[p].params, row) : p \in 1..l}
          BY <3>2
        <4>2. {Where(parts[p].clause, parts[p].params, row) : p \in 1..l}
                = {Where(b.clause, b.params, row) : b \in Range(parts)}
          <5>1. Range(parts) = {parts[p] : p \in 1..l}
            BY <2>11 DEF Range, l
          <5> QED BY <5>1
        <4>3. {Where(b.clause, b.params, row) : b \in Range(parts)}
                = {Where(built[j].clause, built[j].params, row) : j \in asking}
          BY <2>9
        <4>4. \A j \in asking : Where(built[j].clause, built[j].params, row) = keeps[j]
          BY <2>10, Zenon DEF Claim, Means
        <4>5. {Where(built[j].clause, built[j].params, row) : j \in asking} = {keeps[j] : j \in asking}
          BY <4>4
        <4> QED BY <4>1, <4>2, <4>3, <4>5
      <3>7. asks[i] /\ keeps[i] = Together(conjunction, {keeps[j] : j \in asking})
        BY <2>3, <2>4, <2>14, Zenon
      <3> QED BY <3>4, <3>5, <3>6, <3>7, Zenon DEF Claim, Means
    <2> QED BY <2>13, <2>14
  <1> DEFINE S == {m \in Nat : m < n => Claim(n - m)}
  <1> HIDE DEF Claim
  <1>7. ASSUME NEW m \in Nat, \A l \in 0..(m - 1) : l \in S PROVE m \in S
    <2> SUFFICES ASSUME m < n PROVE Claim(n - m)
      OBVIOUS
    <2> DEFINE i == n - m
    <2>1. i \in 1..n
      BY <1>1
    <2>2. ASSUME NEW j \in (i + 1)..n PROVE Claim(j)
      <3>1. n - j \in 0..(m - 1) /\ n - j < n /\ n - (n - j) = j
        BY <1>1, <2>1, <2>2
      <3>2. n - j \in S
        BY <1>7, <3>1
      <3> QED BY <3>1, <3>2
    <2> HIDE DEF i, S
    <2>3. Claim(i)
      BY <1>5, <1>6, <2>1, <2>2
    <2> QED BY <2>3 DEF i
  <1>8. Claim(1)
    <2>1. \A m \in Nat : m \in S
      <3> HIDE DEF S
      <3> QED BY <1>7, Induction
    <2>2. n - 1 \in Nat /\ n - 1 < n /\ n - (n - 1) = 1
      BY <1>1
    <2>3. n - 1 \in S
      BY <2>1, <2>2
    <2> QED BY <2>2, <2>3
  <1>9. ~asks[1] => keeps[1] = "true"
    <2>1. 1 \in 1..n
      BY <1>1
    <2>2. asks[1] = AskAt(filter, asks, 1) /\ keeps[1] = KeepAt(filter, types2, row2, keeps, 1)
      BY <1>3, <1>4, <2>1, Zenon
    <2>3. ASSUME ~asks[1] PROVE keeps[1] = "true"
      <3>1. IsGroup(filter[1]) /\ \A m \in DOMAIN filter[1].at : ~asks[1 + filter[1].at[m]]
        BY <2>2, <2>3, Zenon DEF AskAt
      <3>2. {j \in {1 + filter[1].at[m] : m \in DOMAIN filter[1].at} : asks[j]} = {}
        BY <3>1, Zenon
      <3> QED BY <2>2, <3>1, <3>2 DEF KeepAt, asks
    <2> QED BY <2>3
  <1> DEFINE b == built[1]
  <1>10. /\ b.clause # NoFilter <=> asks[1]
         /\ b.clause # NoFilter => IsClause(b.clause)
         /\ keeps[1] = IF b.clause = NoFilter THEN "true" ELSE Where(b.clause, b.params, row)
    BY <1>8, <1>9, Zenon DEF Claim, Means
  <1> HIDE DEF b
  <1>11. b = BuildFilterWhere(filter, types)
    BY <1>2 DEF b
  <1> QED BY <1>3, <1>10, <1>11, Zenon DEF asks
=============================================================================
