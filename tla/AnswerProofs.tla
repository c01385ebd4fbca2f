----------------------------- MODULE AnswerProofs -----------------------------
(***************************************************************************)
(* What a query answers, for any datasets, rows, joins and filters: the    *)
(* rows that the plan joins, keeps and groups are those that the query     *)
(* asks for, and their number is the total that the answer gives.          *)
(***************************************************************************)
EXTENDS QueriesProofs
-----------------------------------------------------------------------------
(* The joins of a plan                                                       *)

\* The rows of the table on the right that a combination meets
PartnersIn(plan2, c, join) ==
    LET left == plan2.tables[join.left]
        right == plan2.tables[join.right]
        Met(i) == Cell(left, IF join.left = join.right THEN i ELSE c[join.left], join.leftColumn)
    IN  {i \in DOMAIN Tables[right] : Met(i) # Null /\ Met(i) = Cell(right, i, join.rightColumn)}

FitsIn(plan2, c, join) ==
    LET partners == PartnersIn(plan2, c, join)
    IN  IF partners = {} THEN join.type = "left" /\ c[join.right] = 0
        ELSE c[join.right] \in partners

\* A row of each table that the first j joins bring in, each of which fits its join
IsChoice(plan2, j, c) ==
    /\ c = [t \in Bound(plan2, j) |-> c[t]]
    /\ c[1] \in DOMAIN Tables[plan2.tables[1]]
    /\ \A i \in 1..j : FitsIn(plan2, c, plan2.joins[i])

AreChoices(plan2, j, combos) == \A c : c \in combos <=> IsChoice(plan2, j, c)

\* Joins that bring in one table each, after those it is joined on
Joins(plan2) ==
    /\ plan2.joins \in Seq(Range(plan2.joins))
    /\ 1 \in DOMAIN plan2.tables
    /\ \A t \in DOMAIN plan2.tables : plan2.tables[t] \in DOMAIN Tables
    /\ \A j \in 1..Len(plan2.joins) : /\ plan2.joins[j].right \in DOMAIN plan2.tables
                                     /\ plan2.joins[j].right \notin Bound(plan2, j - 1)
                                     /\ plan2.joins[j].left \in Bound(plan2, j)

LEMMA FitsAlike ==
    ASSUME NEW plan2, NEW join, NEW c, NEW d,
           join.left = join.right \/ c[join.left] = d[join.left]
    PROVE  /\ PartnersIn(plan2, c, join) = PartnersIn(plan2, d, join)
           /\ c[join.right] = d[join.right] => (FitsIn(plan2, c, join) <=> FitsIn(plan2, d, join))
  <1>1. PartnersIn(plan2, c, join) = PartnersIn(plan2, d, join)
    BY DEF PartnersIn
  <1> QED BY <1>1 DEF FitsIn

LEMMA BoundGrows ==
    ASSUME NEW plan2, NEW n \in Nat, NEW j \in 1..n
    PROVE  /\ Bound(plan2, j) = Bound(plan2, j - 1) \cup {plan2.joins[j].right}
           /\ \A i \in 1..(j - 1) : plan2.joins[i].right \in Bound(plan2, j - 1)
           /\ \A i \in 1..(j - 1) : Bound(plan2, i) \subseteq Bound(plan2, j - 1)
           /\ 1 \in Bound(plan2, j - 1)
  <1>1. 1..j = (1..(j - 1)) \cup {j}
    OBVIOUS
  <1>2. \A i \in 1..(j - 1) : 1..i \subseteq 1..(j - 1)
    OBVIOUS
  <1> QED BY <1>1, <1>2 DEF Bound

\* A combination has a row of one more table beside it when the row fits the join.
With(plan2, c, join) ==
    LET partners == PartnersIn(plan2, c, join)
    IN  IF partners = {} /\ join.type = "left" THEN {0} ELSE partners

LEMMA JoinIs ==
    ASSUME NEW plan2, NEW combos, NEW join,
           \A c \in combos : join.right \notin DOMAIN c /\ join.left \in DOMAIN c \cup {join.right}
    PROVE  Join(plan2, combos, join)
             = UNION {{Beside(c, join.right, i) : i \in With(plan2, c, join)} : c \in combos}
  <1> DEFINE left == plan2.tables[join.left]
             right == plan2.tables[join.right]
             On(c, i) ==
                LET d == Beside(c, join.right, i)
                IN  /\ Cell(left, d[join.left], join.leftColumn) # Null
                    /\ Cell(left, d[join.left], join.leftColumn) = Cell(right, i, join.rightColumn)
             Matches(c) == {i \in DOMAIN Tables[right] : On(c, i)}
             W(c) == IF Matches(c) = {} /\ join.type = "left" THEN {0} ELSE Matches(c)
  <1>1. ASSUME NEW c \in combos PROVE W(c) = With(plan2, c, join)
    <2>1. ASSUME NEW i
          PROVE  Beside(c, join.right, i)[join.left]
                   = IF join.left = join.right THEN i ELSE c[join.left]
      BY DEF Beside
    <2>2. Matches(c) = PartnersIn(plan2, c, join)
      BY <2>1 DEF PartnersIn
    <2> HIDE DEF Matches
    <2> QED BY <2>2 DEF With
  <1>2. Join(plan2, combos, join) = UNION {{Beside(c, join.right, i) : i \in W(c)} : c \in combos}
    BY DEF Join
  <1> HIDE DEF W
  <1> QED BY <1>1, <1>2

\* One more join turns the choices of the tables before it into those with its own.
LEMMA JoinChoices ==
    ASSUME NEW plan2, Joins(plan2), NEW j \in 1..Len(plan2.joins),
           NEW combos, AreChoices(plan2, j - 1, combos)
    PROVE  AreChoices(plan2, j, Join(plan2, combos, plan2.joins[j]))
  <1> DEFINE join == plan2.joins[j]
             right == join.right
             left == join.left
             b == Bound(plan2, j - 1)
             joined == Join(plan2, combos, join)
  <1>1. /\ Len(plan2.joins) \in Nat /\ j \in Nat /\ j - 1 \in Nat
        /\ right \notin b /\ left \in Bound(plan2, j)
    BY IsList DEF Joins
  <1>2. /\ Bound(plan2, j) = b \cup {right} /\ 1 \in b
        /\ \A i \in 1..(j - 1) : plan2.joins[i].right \in b /\ Bound(plan2, i) \subseteq b
    BY <1>1, BoundGrows
  <1>3. \A i \in 1..(j - 1) : plan2.joins[i].left \in b /\ i \in 1..j
    <2>1. ASSUME NEW i \in 1..(j - 1) PROVE plan2.joins[i].left \in b /\ i \in 1..j
      <3>1. i \in 1..Len(plan2.joins) /\ i \in 1..j
        BY <1>1
      <3> QED BY <1>2, <3>1 DEF Joins
    <2> QED BY <2>1
  <1>4. 1..j = (1..(j - 1)) \cup {j}
    BY <1>1
  <1> HIDE DEF b, right, left, join
  <1>5. \A c \in combos : IsChoice(plan2, j - 1, c) /\ DOMAIN c = b
    BY DEF AreChoices, IsChoice, b
  <1>6. joined = UNION {{Beside(c, right, i) : i \in With(plan2, c, join)} : c \in combos}
    <2>1. \A c \in combos : right \notin DOMAIN c /\ left \in DOMAIN c \cup {right}
      BY <1>1, <1>2, <1>5
    <2> QED BY <2>1, JoinIs DEF right, left
  <1> HIDE DEF joined
  <1>7. ASSUME NEW c, NEW d, \A t \in b : c[t] = d[t]
        PROVE  /\ \A i \in 1..(j - 1) :
                     FitsIn(plan2, c, plan2.joins[i]) <=> FitsIn(plan2, d, plan2.joins[i])
               /\ PartnersIn(plan2, c, join) = PartnersIn(plan2, d, join)
    <2>1. ASSUME NEW i \in 1..(j - 1)
          PROVE  FitsIn(plan2, c, plan2.joins[i]) <=> FitsIn(plan2, d, plan2.joins[i])
      <3>1. /\ c[plan2.joins[i].left] = d[plan2.joins[i].left]
           /\ c[plan2.joins[i].right] = d[plan2.joins[i].right]
        BY <1>2, <1>3, <1>7
      <3> QED BY <3>1, FitsAlike
    <2>2. left = right \/ c[left] = d[left]
      BY <1>1, <1>2, <1>7
    <2>3. PartnersIn(plan2, c, join) = PartnersIn(plan2, d, join)
      BY <2>2, FitsAlike DEF left, right
    <2> QED BY <2>1, <2>3
  <1>8. ASSUME NEW c, NEW d, \A t \in b : c[t] = d[t]
        PROVE  FitsIn(plan2, d, join) <=> d[right] \in With(plan2, c, join)
    <2>1. PartnersIn(plan2, c, join) = PartnersIn(plan2, d, join)
      BY <1>7, <1>8
    <2>2. PartnersIn(plan2, c, join) \subseteq DOMAIN Tables[plan2.tables[right]]
      BY DEF PartnersIn, right
    <2> QED BY <2>1, <2>2 DEF FitsIn, With, right
  <1>9. ASSUME NEW d \in joined PROVE IsChoice(plan2, j, d)
    <2>a. PICK c \in combos : d \in {Beside(c, right, i) : i \in With(plan2, c, join)}
      BY <1>6
    <2>1. PICK i \in With(plan2, c, join) : d = Beside(c, right, i)
      BY <2>a
    <2>2. d = [t \in b \cup {right} |-> IF t \in b THEN c[t] ELSE i]
      BY <1>5, <2>1 DEF Beside
    <2>3. d[right] = i /\ \A t \in b : c[t] = d[t]
      BY <1>1, <2>2
    <2>4. d = [t \in Bound(plan2, j) |-> d[t]]
      BY <1>2, <2>2
    <2>5. FitsIn(plan2, d, join)
      BY <1>8, <2>1, <2>3
    <2>6. ASSUME NEW m \in 1..j PROVE FitsIn(plan2, d, plan2.joins[m])
      <3>1. CASE m = j
        BY <2>5, <3>1 DEF join
      <3>2. CASE m \in 1..(j - 1)
        BY <1>5, <1>7, <2>3, <3>2 DEF IsChoice
      <3> QED BY <1>4, <3>1, <3>2
    <2>7. d[1] \in DOMAIN Tables[plan2.tables[1]]
      BY <1>2, <1>5, <2>3 DEF IsChoice
    <2> QED BY <2>4, <2>6, <2>7 DEF IsChoice
  <1>10. ASSUME NEW d, IsChoice(plan2, j, d) PROVE d \in joined
    <2> DEFINE c == [t \in b |-> d[t]]
    <2>1. \A t \in b : c[t] = d[t]
      OBVIOUS
    <2>2. c = [t \in b |-> c[t]]
      OBVIOUS
    <2> HIDE DEF c
    <2>3. \A i \in 1..(j - 1) : FitsIn(plan2, c, plan2.joins[i])
      BY <1>3, <1>7, <1>10, <2>1 DEF IsChoice
    <2>4. c[1] \in DOMAIN Tables[plan2.tables[1]]
      BY <1>2, <1>10, <2>1 DEF IsChoice
    <2>5. c \in combos
      BY <2>2, <2>3, <2>4 DEF AreChoices, IsChoice, b
    <2>6. FitsIn(plan2, d, join)
      BY <1>4, <1>10 DEF IsChoice, join
    <2>7. d[right] \in With(plan2, c, join)
      BY <1>8, <2>1, <2>6
    <2>8. d = Beside(c, right, d[right])
      <3>1. d = [t \in b \cup {right} |-> d[t]] /\ DOMAIN c = b
        BY <1>2, <1>10, <2>2 DEF IsChoice
      <3> QED BY <1>1, <2>1, <3>1 DEF Beside
    <2> QED BY <1>6, <2>5, <2>7, <2>8
  <1> QED BY <1>9, <1>10 DEF AreChoices, joined, join

\* A function of a finite set takes finitely many values.
LEMMA ImageFinite ==
    ASSUME NEW S, IsFiniteSet(S), NEW f
    PROVE  IsFiniteSet({f[x] : x \in S})
  <1> DEFINE g == [x \in S |-> f[x]]
             T == {f[x] : x \in S}
  <1>1. g \in Surjection(S, T)
    BY DEF Surjection
  <1> HIDE DEF g, T
  <1>2. IsFiniteSet(T)
    BY <1>1, FS_Surjection
  <1> QED BY <1>2 DEF T

LEMMA JoinFinite ==
    ASSUME NEW plan2, Joins(plan2), NEW j \in 1..Len(plan2.joins),
           NEW combos, AreChoices(plan2, j - 1, combos), IsFiniteSet(combos)
    PROVE  IsFiniteSet(Join(plan2, combos, plan2.joins[j]))
  <1> DEFINE join == plan2.joins[j]
             right == join.right
             left == join.left
             beside == [c \in combos |-> {Beside(c, right, i) : i \in With(plan2, c, join)}]
  <1>1. /\ right \notin Bound(plan2, j - 1) /\ left \in Bound(plan2, j)
        /\ plan2.tables[right] \in DOMAIN Tables
    BY DEF Joins
  <1>2. Bound(plan2, j) = Bound(plan2, j - 1) \cup {right}
    BY IsList, BoundGrows DEF Joins
  <1> HIDE DEF right, left, join
  <1>3. \A c \in combos : DOMAIN c = Bound(plan2, j - 1)
    BY DEF AreChoices, IsChoice
  <1>4. Join(plan2, combos, join) = UNION {beside[c] : c \in combos}
    <2>1. \A c \in combos : right \notin DOMAIN c /\ left \in DOMAIN c \cup {right}
      BY <1>1, <1>2, <1>3
    <2> QED BY <2>1, JoinIs DEF right, left
  <1>5. ASSUME NEW c \in combos PROVE IsFiniteSet(beside[c])
    <2> DEFINE W == With(plan2, c, join)
               f == [i \in W |-> Beside(c, right, i)]
    <2>1. IsFiniteSet(W)
      <3> DEFINE n == Len(Tables[plan2.tables[right]])
      <3>1. n \in Nat /\ DOMAIN Tables[plan2.tables[right]] = 1..n
        BY <1>1, TablesAreLists, IsList
      <3> HIDE DEF n
      <3>2. W \in SUBSET (0..n)
        BY <3>1 DEF With, PartnersIn, right
      <3>3. IsFiniteSet(0..n)
        BY <3>1, FS_Interval
      <3> HIDE DEF W
      <3> QED BY <3>2, <3>3, FS_Subset
    <2>2. beside[c] = {f[i] : i \in W}
      OBVIOUS
    <2> HIDE DEF W, f, beside
    <2> QED BY <2>1, <2>2, ImageFinite
  <1> HIDE DEF beside
  <1>6. IsFiniteSet({beside[c] : c \in combos})
    BY ImageFinite
  <1>7. IsFiniteSet(UNION {beside[c] : c \in combos})
    BY <1>5, <1>6, FS_UNION
  <1> QED BY <1>4, <1>7 DEF join

\* The base of the combinations
Firsts(plan2) == {[t \in {1} |-> i] : i \in DOMAIN Tables[plan2.tables[1]]}

Combos(plan2) ==
    FoldLeft(LAMBDA cs, join : Join(plan2, cs, join), Firsts(plan2), plan2.joins)

\* The sets that the fold goes through, from the first table to all of them
Joined2(plan2, iter) ==
    /\ iter[{}] = Firsts(plan2)
    /\ \A j \in 1..Len(plan2.joins) :
          iter[1..j] = Join(plan2, iter[1..(j - 1)], plan2.joins[j])

LEMMA CombosFold ==
    ASSUME NEW plan2, Joins(plan2)
    PROVE  \E iter : Joined2(plan2, iter) /\ Combos(plan2) = iter[1..Len(plan2.joins)]
  <1> DEFINE joins == plan2.joins
             n == Len(joins)
             S == 1..n
             base == Firsts(plan2)
             K == DOMAIN plan2.tables
             R == {0} \cup UNION {DOMAIN Tables[plan2.tables[t]] : t \in K}
             U == UNION {[D -> R] : D \in SUBSET K}
             V == SUBSET U
             pick == [s \in SUBSET S |-> Max(s)]
             step == [x \in S |-> [v \in V |-> Join(plan2, v, joins[x])]]
             Body(f) == [s \in SUBSET S |-> IF s = {} THEN base
                            ELSE LET x == Max(s) IN Join(plan2, f[s \ {x}], joins[x])]
             iter == CHOOSE f : f = Body(f)
  <1>1. n \in Nat /\ DOMAIN joins = S /\ IsFiniteSet(S)
    <2>1. n \in Nat /\ DOMAIN joins = S
      BY IsList DEF Joins
    <2> QED BY <2>1, FS_Interval
  <1>2. Combos(plan2) = iter[S]
    <2>1. Combos(plan2) = (CHOOSE f : f = [s \in SUBSET DOMAIN joins |->
                              IF s = {} THEN base
                              ELSE LET x == Max(s) IN Join(plan2, f[s \ {x}], joins[x])])[DOMAIN joins]
      BY DEF Combos, FoldLeft, MapThenFoldSet
    <2> QED BY <1>1, <2>1
  <1>3. \A s \in (SUBSET S) \ {{}} : pick[s] \in s /\ pick[s] = Max(s) /\ pick[s] \in S
    <2>1. ASSUME NEW s \in (SUBSET S) \ {{}} PROVE Max(s) \in s
      <3>1. n \in Int /\ 1 \in Int /\ s \in SUBSET (1..n) /\ s # {}
        BY <1>1
      <3> QED BY <3>1, MaxIsGreatest
    <2> QED BY <2>1
  <1>4. base \in V
    <2>1. ASSUME NEW i \in DOMAIN Tables[plan2.tables[1]] PROVE [t \in {1} |-> i] \in U
      <3>1. 1 \in K /\ i \in R
        BY DEF Joins
      <3> HIDE DEF R, K
      <3>2. [t \in {1} |-> i] \in [{1} -> R] /\ {1} \in SUBSET K
        BY <3>1
      <3> QED BY <3>2
    <2> HIDE DEF U
    <2> QED BY <2>1 DEF Firsts
  <1>5. ASSUME NEW x \in S, NEW v \in V PROVE Join(plan2, v, joins[x]) \in V
    <2> DEFINE join == joins[x]
               left == plan2.tables[join.left]
               right == plan2.tables[join.right]
               On(c, i) ==
                  LET d == Beside(c, join.right, i)
                  IN  /\ Cell(left, d[join.left], join.leftColumn) # Null
                      /\ Cell(left, d[join.left], join.leftColumn) = Cell(right, i, join.rightColumn)
               Matches(c) == {i \in DOMAIN Tables[right] : On(c, i)}
               W(c) == IF Matches(c) = {} /\ join.type = "left" THEN {0} ELSE Matches(c)
    <2>1. Join(plan2, v, join) = UNION {{Beside(c, join.right, i) : i \in W(c)} : c \in v}
      BY DEF Join
    <2>2. join.right \in K /\ \A i \in DOMAIN Tables[right] : i \in R
      <3>1. join.right \in K
        BY DEF Joins
      <3> QED BY <3>1
    <2>3. ASSUME NEW c PROVE W(c) \subseteq R
      <3>1. Matches(c) \subseteq R
        BY <2>2
      <3> HIDE DEF Matches
      <3> QED BY <3>1
    <2> HIDE DEF W, R, K, join
    <2>4. ASSUME NEW c \in v, NEW i \in W(c) PROVE Beside(c, join.right, i) \in U
      <3>1. PICK D \in SUBSET K : c \in [D -> R]
        OBVIOUS
      <3>2. i \in R
        BY <2>3
      <3>3. Beside(c, join.right, i) \in [(D \cup {join.right}) -> R]
        BY <3>1, <3>2 DEF Beside
      <3> QED BY <2>2, <3>1, <3>3
    <2> HIDE DEF U
    <2>5. Join(plan2, v, join) \subseteq U
      BY <2>1, <2>4
    <2> QED BY <2>5 DEF join
  <1> HIDE DEF V, base
  <1>6. \A x \in S, v \in V : step[x][v] = Join(plan2, v, joins[x]) /\ step[x][v] \in V
    BY <1>5
  <1> HIDE DEF step, pick, S
  <1>7. PICK F \in [SUBSET S -> V] : Unfolds(F, S, base, pick, step)
    BY <1>1, <1>3, <1>4, <1>6, FoldExists
  <1>8. F = Body(F)
    <2>1. ASSUME NEW s \in SUBSET S
          PROVE  F[s] = IF s = {} THEN base ELSE LET x == Max(s) IN Join(plan2, F[s \ {x}], joins[x])
      <3>1. CASE s = {}
        BY <1>7, <3>1 DEF Unfolds
      <3>2. CASE s # {}
        <4>1. pick[s] = Max(s) /\ pick[s] \in S /\ s \ {pick[s]} \in SUBSET S
          BY <1>3, <3>2
        <4>2. F[s] = step[pick[s]][F[s \ {pick[s]}]]
          BY <1>7, <3>2 DEF Unfolds
        <4>3. F[s] = Join(plan2, F[s \ {pick[s]}], joins[pick[s]])
          BY <1>6, <4>1, <4>2
        <4> QED BY <3>2, <4>1, <4>3
      <3> QED BY <3>1, <3>2
    <2> QED BY <2>1
  <1>9. iter = Body(iter)
    <2> HIDE DEF Body
    <2> QED BY <1>8
  <1> HIDE DEF iter
  <1>10. iter[{}] = base
    BY <1>9
  <1>11. ASSUME NEW j \in 1..n
         PROVE  iter[1..j] = Join(plan2, iter[1..(j - 1)], joins[j])
    <2>1. 1..j \in SUBSET S /\ j \in 1..j /\ (1..j) \ {j} = 1..(j - 1) /\ 1..j \in SUBSET (0..n)
      BY <1>1 DEF S
    <2>2. Max(1..j) = j
      <3>1. 1 \in Int /\ j \in Int /\ 1..j \in SUBSET (1..j) /\ 1..j # {}
        BY <1>1, <2>1
      <3>2. Max(1..j) \in 1..j /\ \A y \in 1..j : y <= Max(1..j)
        BY <3>1, MaxIsGreatest
      <3> QED BY <2>1, <3>2
    <2> QED BY <1>9, <2>1, <2>2
  <1> QED BY <1>2, <1>10, <1>11 DEF Joined2, base, S

\* The rows that a query joins are the choices of a row in each table, each of which fits
\* its join.
LEMMA CombosAre ==
    ASSUME NEW plan2, Joins(plan2)
    PROVE  AreChoices(plan2, Len(plan2.joins), Combos(plan2)) /\ IsFiniteSet(Combos(plan2))
  <1> DEFINE n == Len(plan2.joins)
  <1>1. n \in Nat
    BY IsList DEF Joins
  <1>2. PICK iter : Joined2(plan2, iter) /\ Combos(plan2) = iter[1..n]
    BY CombosFold
  <1> DEFINE T == {j \in 0..n : AreChoices(plan2, j, iter[1..j]) /\ IsFiniteSet(iter[1..j])}
             m == Len(Tables[plan2.tables[1]])
  <1>3. 0 \in T
    <2>1. 1..0 = {} /\ Bound(plan2, 0) = {1} /\ iter[{}] = Firsts(plan2)
      BY <1>2 DEF Bound, Joined2
    <2>2. ASSUME NEW c PROVE c \in Firsts(plan2) <=> IsChoice(plan2, 0, c)
      <3>1. ASSUME NEW i \in DOMAIN Tables[plan2.tables[1]], c = [t \in {1} |-> i]
            PROVE  IsChoice(plan2, 0, c)
        BY <2>1, <3>1 DEF IsChoice
      <3>2. ASSUME IsChoice(plan2, 0, c) PROVE c \in Firsts(plan2)
        <4>1. c = [t \in {1} |-> c[1]] /\ c[1] \in DOMAIN Tables[plan2.tables[1]]
          <5>1. c = [t \in {1} |-> c[t]]
            BY <2>1, <3>2 DEF IsChoice
          <5> QED BY <3>2, <5>1 DEF IsChoice
        <4> QED BY <4>1 DEF Firsts
      <3> QED BY <3>1, <3>2 DEF Firsts
    <2>3. IsFiniteSet(Firsts(plan2))
      <3> DEFINE f == [i \in 1..m |-> [t \in {1} |-> i]]
      <3>1. DOMAIN Tables[plan2.tables[1]] = 1..m /\ m \in Nat
        BY TablesAreLists, IsList DEF Joins
      <3> HIDE DEF m
      <3>2. Firsts(plan2) = {f[i] : i \in 1..m}
        BY <3>1 DEF Firsts
      <3>3. IsFiniteSet(1..m)
        BY <3>1, FS_Interval
      <3> HIDE DEF f
      <3>4. IsFiniteSet({f[i] : i \in 1..m})
        BY <3>3, ImageFinite
      <3> QED BY <3>2, <3>4
    <2> QED BY <1>1, <2>1, <2>2, <2>3 DEF AreChoices
  <1>4. ASSUME NEW j \in 1..n, j - 1 \in T PROVE j \in T
    <2>1. j \in 0..n /\ iter[1..j] = Join(plan2, iter[1..(j - 1)], plan2.joins[j])
      BY <1>2 DEF Joined2
    <2>2. AreChoices(plan2, j - 1, iter[1..(j - 1)]) /\ IsFiniteSet(iter[1..(j - 1)])
      BY <1>4
    <2> QED BY <2>1, <2>2, JoinChoices, JoinFinite
  <1> HIDE DEF T, n
  <1>5. n \in T
    <2>1. n \in 0..n
      BY <1>1
    <2> QED BY <1>1, <1>3, <1>4, <2>1, StepInduction
  <1> QED BY <1>2, <1>5 DEF T, n
-----------------------------------------------------------------------------
(* The plan of a query                                                       *)

Planned(q) == Compile(q, Full(q.datasets))
Place(q, d) == IndexOf(Full(q.datasets), d)

\* The datasets that the joins bring together
Needed(q) == {q.datasets[1]} \cup {q.joins[i].right : i \in DOMAIN q.joins}

\* A query that has compiled and that binds
Sound(q) ==
    /\ IsQuery(q) /\ IsSelection(q.datasets) /\ q.datasets # <<>> /\ Complete(q.filters)
    /\ QueryFault(q, Full(q.datasets)) = Fine
    /\ Binds(Planned(q))

\* The tables of the plan are the datasets of the query, each at its place.
Placing(q, plan2) ==
    /\ \A d \in Range(q.datasets) : /\ Place(q, d) \in DOMAIN plan2.tables
                                    /\ plan2.tables[Place(q, d)] = d
                                    /\ d \in DOMAIN Tables
    /\ \A t \in DOMAIN plan2.tables : /\ plan2.tables[t] \in Range(q.datasets)
                                      /\ Place(q, plan2.tables[t]) = t
    /\ q.datasets[1] \in Range(q.datasets) /\ Place(q, q.datasets[1]) = 1

\* A join of the plan is one of the query.
Joining(q, plan2, i) ==
    /\ q.joins[i].left \in Needed(q) /\ q.joins[i].right \in Needed(q)
    /\ plan2.joins[i].left = Place(q, q.joins[i].left)
    /\ plan2.joins[i].right = Place(q, q.joins[i].right)
    /\ plan2.joins[i].type = q.joins[i].type
    /\ plan2.joins[i].leftColumn = q.joins[i].leftColumn
    /\ plan2.joins[i].rightColumn = q.joins[i].rightColumn

LEMMA PlacesAre ==
    ASSUME NEW q, IsSelection(q.datasets), q.datasets # <<>>
    PROVE  Placing(q, Planned(q)) /\ Planned(q).tables = [t \in DOMAIN q.datasets |-> q.datasets[t]]
  <1> DEFINE ds == q.datasets
             full == Full(ds)
             tables == Planned(q).tables
  <1>1. /\ Len(ds) \in Nat /\ DOMAIN ds = 1..Len(ds) /\ DOMAIN full = 1..Len(ds)
        /\ \A i \in 1..Len(ds) : /\ ds[i] \in Range(ds) /\ ds[i] \in Range(Datasets)
                                 /\ full[i].id = ds[i] /\ Place(q, ds[i]) = i
    BY LoadedIs DEF Place
  <1>2. tables = [t \in DOMAIN full |-> full[t].id]
    BY DEF Planned, Compile
  <1>3. 1 \in 1..Len(ds)
    <2>1. ds \in Seq(Range(ds))
      BY DEF IsSelection
    <2> QED BY <2>1
  <1> HIDE DEF tables, full
  <1>4. DOMAIN tables = 1..Len(ds) /\ \A t \in 1..Len(ds) : tables[t] = ds[t]
    BY <1>1, <1>2
  <1>5. ASSUME NEW d \in Range(ds)
        PROVE  Place(q, d) \in DOMAIN tables /\ tables[Place(q, d)] = d /\ d \in DOMAIN Tables
    <2>1. PICK i \in DOMAIN ds : ds[i] = d
      BY DEF Range
    <2>2. i \in 1..Len(ds) /\ Place(q, d) = i /\ d \in Range(Datasets)
      BY <1>1, <2>1
    <2>3. d \in DOMAIN Tables
      BY <2>2, ColumnsHaveTypes
    <2> QED BY <1>4, <2>1, <2>2, <2>3
  <1>6. tables = [t \in DOMAIN ds |-> ds[t]]
    BY <1>1, <1>2
  <1> QED BY <1>1, <1>3, <1>4, <1>5, <1>6 DEF Placing, tables

LEMMA PlanIs ==
    ASSUME NEW q, Sound(q)
    PROVE  LET plan2 == Planned(q)
               n == Len(q.joins)
           IN  /\ n \in Nat /\ DOMAIN q.joins = 1..n /\ Len(plan2.joins) = n
               /\ Joins(plan2) /\ Placing(q, plan2)
               /\ \A i \in 1..n : Joining(q, plan2, i)
               /\ Bound(plan2, n) = {Place(q, d) : d \in Needed(q)}
               /\ Needed(q) \subseteq Range(q.datasets)
  <1> DEFINE ds == q.datasets
             full == Full(ds)
             plan2 == Planned(q)
             joins2 == plan2.joins
             n == Len(q.joins)
  <1>1. n \in Nat /\ DOMAIN q.joins = 1..n /\ IsSelection(ds) /\ Binds(plan2)
    BY IsList DEF Sound, IsQuery
  <1>2. Placing(q, plan2)
    BY PlacesAre DEF Sound
  <1>3. joins2 = BuildJoins(q.joins, full)
    BY DEF Planned, Compile
  <1>4. joins2 \in Seq(Range(joins2)) /\ Len(joins2) = n /\ DOMAIN joins2 = 1..n
    <2>1. DOMAIN joins2 = 1..n /\ joins2 = [i \in DOMAIN joins2 |-> joins2[i]]
      BY <1>1, <1>3 DEF BuildJoins
    <2> HIDE DEF joins2
    <2> QED BY <1>1, <2>1, ListOf
  <1>5. ASSUME NEW i \in 1..n
        PROVE  /\ q.joins[i].left \in Range(ds) /\ q.joins[i].right \in Range(ds)
               /\ joins2[i].left = Place(q, q.joins[i].left)
               /\ joins2[i].right = Place(q, q.joins[i].right)
               /\ joins2[i].type = q.joins[i].type
               /\ joins2[i].leftColumn = q.joins[i].leftColumn
               /\ joins2[i].rightColumn = q.joins[i].rightColumn
    <2>1. JoinFault(q.joins[i], full) = Fine
      BY <1>1, QueryFaultIs DEF Sound
    <2>2. {full[j].id : j \in DOMAIN full} = Range(ds)
      BY <1>1, LoadedIs
    <2>3. {q.joins[i].left, q.joins[i].right} \subseteq Range(ds)
      <3> HIDE DEF full, ds
      <3> QED BY <2>1, <2>2 DEF JoinFault, Fine
    <2> DEFINE join == q.joins[i]
               types == {full[IndexOf(full, join.left)].types[join.leftColumn],
                         full[IndexOf(full, join.right)].types[join.rightColumn]}
    <2>4. joins2[i] = [type |-> join.type,
                       left |-> IndexOf(full, join.left), leftColumn |-> join.leftColumn,
                       right |-> IndexOf(full, join.right), rightColumn |-> join.rightColumn,
                       types |-> types]
      BY <1>1, <1>3 DEF BuildJoins
    <2> HIDE DEF types, joins2
    <2> QED BY <2>3, <2>4 DEF Place
  <1> HIDE DEF joins2, ds, full
  <1>6. \A i \in 1..n : q.joins[i].right \in Needed(q)
    BY <1>1 DEF Needed
  <1>7. Needed(q) \subseteq Range(ds)
    BY <1>1, <1>2, <1>5 DEF Needed, Placing, ds
  <1>8. Bound(plan2, n) = {Place(q, d) : d \in Needed(q)}
    <2>1. Bound(plan2, n) = {1} \cup {joins2[i].right : i \in 1..n}
      BY DEF Bound, joins2
    <2>2. {joins2[i].right : i \in 1..n} = {Place(q, q.joins[i].right) : i \in 1..n}
      BY <1>5
    <2>3. {Place(q, d) : d \in Needed(q)}
            = {Place(q, q.datasets[1])} \cup {Place(q, q.joins[i].right) : i \in DOMAIN q.joins}
      BY DEF Needed
    <2> HIDE DEF plan2
    <2> QED BY <1>1, <1>2, <2>1, <2>2, <2>3 DEF Placing
  <1>9. \A i \in 1..n : /\ joins2[i].right \notin Bound(plan2, i - 1)
                      /\ joins2[i].left \in Bound(plan2, i)
    BY <1>1, <1>4 DEF Binds, joins2
  <1> HIDE DEF plan2
  <1>10. ASSUME NEW i \in 1..n PROVE q.joins[i].left \in Needed(q)
    <2>1. Bound(plan2, i) \subseteq Bound(plan2, n)
      BY <1>1 DEF Bound
    <2>2. PICK d \in Needed(q) : Place(q, q.joins[i].left) = Place(q, d)
      BY <1>5, <1>8, <1>9, <2>1
    <2>3. q.joins[i].left = d
      BY <1>2, <1>5, <1>7, <2>2 DEF Placing, ds
    <2> QED BY <2>3
  <1>11. \A i \in 1..n : Joining(q, plan2, i)
    BY <1>5, <1>6, <1>10 DEF Joining, joins2
  <1>12. Joins(plan2)
    <2>1. /\ 1 \in DOMAIN plan2.tables
         /\ \A t \in DOMAIN plan2.tables : plan2.tables[t] \in DOMAIN Tables
      BY <1>2 DEF Placing
    <2>2. \A i \in 1..n : joins2[i].right \in DOMAIN plan2.tables
      BY <1>2, <1>5 DEF Placing, ds
    <2> QED BY <1>4, <1>9, <2>1, <2>2 DEF Joins, joins2
  <1>13. Len(plan2.joins) = n
    BY <1>4 DEF joins2
  <1> QED BY <1>1, <1>2, <1>7, <1>8, <1>11, <1>12, <1>13 DEF plan2, ds
-----------------------------------------------------------------------------
(* The combinations of the plan are the choices of the query                 *)

\* The rows that meet a choice, and whether its own is one of them
PartnersOf(e, join) ==
    {i \in DOMAIN Tables[join.right] :
        LET at == [e EXCEPT ![join.right] = i]
            v == Cell(join.left, at[join.left], join.leftColumn)
        IN  v # Null /\ v = Tables[join.right][i][join.rightColumn]}

FitsOf(e, join) ==
    IF PartnersOf(e, join) = {} THEN join.type = "left" /\ e[join.right] = 0
    ELSE e[join.right] \in PartnersOf(e, join)

IsRow(e) ==
    /\ e = [d \in Joined |-> e[d]]
    /\ \A d \in Joined : e[d] \in 0..Len(Tables[d])
    /\ e[query.datasets[1]] \in DOMAIN Tables[query.datasets[1]]
    /\ \A i \in DOMAIN query.joins : FitsOf(e, query.joins[i])

\* Some number is as great as those of a list.
LEMMA ListBounded ==
    ASSUME NEW n \in Nat, NEW f, \A i \in 1..n : f[i] \in Nat
    PROVE  \E b \in Nat : \A i \in 1..n : f[i] <= b
  <1> DEFINE S == {m \in 0..n : \E b \in Nat : \A i \in 1..m : f[i] <= b}
  <1>1. 0 \in S
    <2>1. \A i \in 1..0 : f[i] <= 0
      OBVIOUS
    <2> QED BY <2>1
  <1>2. ASSUME NEW m \in 1..n, m - 1 \in S PROVE m \in S
    <2>1. PICK b \in Nat : \A i \in 1..(m - 1) : f[i] <= b
      BY <1>2
    <2>2. f[m] \in Nat
      OBVIOUS
    <2> DEFINE c == IF f[m] <= b THEN b ELSE f[m]
    <2>3. c \in Nat /\ b <= c /\ f[m] <= c
      BY <2>2
    <2> HIDE DEF c
    <2>4. ASSUME NEW i \in 1..m PROVE f[i] <= c
      <3>1. CASE i = m
        BY <2>3, <3>1
      <3>2. CASE i # m
        <4>1. i \in 1..(m - 1) /\ i \in 1..n
          BY <3>2
        <4>2. f[i] \in Nat /\ f[i] <= b
          BY <2>1, <4>1
        <4> QED BY <2>3, <4>2
      <3> QED BY <3>1, <3>2
    <2>5. m \in 0..n
      OBVIOUS
    <2> QED BY <2>3, <2>4, <2>5
  <1>3. n \in S
    <2> HIDE DEF S
    <2>1. n \in 0..n
      OBVIOUS
    <2> QED BY <1>1, <1>2, <2>1, StepInduction
  <1> QED BY <1>3

LEMMA ChoicesAre ==
    ASSUME IsSelection(query.datasets), query.datasets # <<>>, Joined \subseteq Range(query.datasets)
    PROVE  \A e : e \in RowChoices <=> IsRow(e)
  <1> DEFINE ds == query.datasets
             Heights == {Len(Tables[d]) : d \in Joined}
             top == Max(Heights)
             Fit(e) == \A i \in DOMAIN query.joins : FitsOf(e, query.joins[i])
  <1>1. /\ Len(ds) \in Nat /\ DOMAIN ds = 1..Len(ds)
        /\ \A i \in 1..Len(ds) : ds[i] \in Range(Datasets)
    BY LoadedIs
  <1>2. ASSUME NEW d \in Range(ds) PROVE Len(Tables[d]) \in Nat
    <2>1. PICK i \in DOMAIN ds : ds[i] = d
      BY DEF Range
    <2>2. d \in DOMAIN Tables
      BY <1>1, <2>1, ColumnsHaveTypes
    <2> QED BY <2>2, TablesAreLists, IsList
  <1>3. top \in Nat /\ \A d \in Joined : Len(Tables[d]) \in Nat /\ Len(Tables[d]) <= top
    <2> DEFINE f == [i \in 1..Len(ds) |-> Len(Tables[ds[i]])]
    <2>1. \A i \in 1..Len(ds) : f[i] \in Nat /\ f[i] = Len(Tables[ds[i]])
      BY <1>1, <1>2 DEF Range
    <2> HIDE DEF f
    <2>2. PICK b \in Nat : \A i \in 1..Len(ds) : f[i] <= b
      BY <1>1, <2>1, ListBounded
    <2>3. ASSUME NEW d \in Joined PROVE Len(Tables[d]) \in 0..b
      <3>1. PICK i \in 1..Len(ds) : ds[i] = d
        BY <1>1 DEF Range
      <3> QED BY <2>1, <2>2, <3>1
    <2>4. Heights \in SUBSET (0..b) /\ Heights # {}
      BY <2>3 DEF Joined
    <2>5. top \in Heights /\ \A y \in Heights : y <= top
      <3>1. 0 \in Int /\ b \in Int
        OBVIOUS
      <3> HIDE DEF Heights
      <3> QED BY <2>4, <3>1, MaxIsGreatest
    <2> QED BY <2>3, <2>4, <2>5
  <1>4. RowChoices = {e \in [Joined -> 0..top] :
                        /\ e[ds[1]] \in DOMAIN Tables[ds[1]]
                        /\ \A d \in Joined : e[d] <= Len(Tables[d])
                        /\ Fit(e)}
    BY DEF RowChoices, FitsOf, PartnersOf
  <1> HIDE DEF top, Fit
  <1>5. ASSUME NEW e PROVE e \in RowChoices <=> IsRow(e)
    <2>1. \A d \in Joined : e[d] \in 0..Len(Tables[d]) <=> e[d] \in 0..top /\ e[d] <= Len(Tables[d])
      BY <1>3
    <2> QED BY <1>4, <2>1 DEF IsRow, Fit
  <1> QED BY <1>5

\* The choice of a combination
AsRow(c) == [d \in Joined |-> c[Place(query, d)]]

LEMMA FitsBoth ==
    ASSUME Sound(query), NEW e, NEW c, e = [d \in Joined |-> e[d]],
           \A d \in Joined : e[d] = c[Place(query, d)],
           NEW i \in DOMAIN query.joins
    PROVE  FitsOf(e, query.joins[i]) <=> FitsIn(Planned(query), c, Planned(query).joins[i])
  <1> DEFINE join == query.joins[i]
             left == join.left
             right == join.right
             plan2 == Planned(query)
             join2 == plan2.joins[i]
  <1>1. /\ Placing(query, plan2) /\ Joining(query, plan2, i) /\ Needed(query) = Joined
        /\ Joined \subseteq Range(query.datasets)
    BY PlanIs DEF Needed, Joined
  <1> HIDE DEF plan2
  <1>2. /\ left \in Joined /\ right \in Joined
        /\ join2.left = Place(query, left) /\ join2.right = Place(query, right)
        /\ plan2.tables[join2.left] = left /\ plan2.tables[join2.right] = right
        /\ right \in DOMAIN Tables
        /\ join2.type = join.type /\ join2.leftColumn = join.leftColumn
        /\ join2.rightColumn = join.rightColumn
    BY <1>1 DEF Joining, Placing
  <1>3. left = right <=> join2.left = join2.right
    BY <1>2
  <1> HIDE DEF left, right, join2
  <1>4. ASSUME NEW m
       PROVE  [e EXCEPT ![right] = m][left] = IF join2.left = join2.right THEN m ELSE c[join2.left]
    <2>1. DOMAIN e = Joined
      OBVIOUS
    <2>2. e[left] = c[join2.left]
      BY <1>2
    <2> QED BY <1>2, <1>3, <2>1, <2>2
  <1>5. \A m \in DOMAIN Tables[right] :
           Cell(right, m, join.rightColumn) = Tables[right][m][join.rightColumn]
    <2>1. DOMAIN Tables[right] = 1..Len(Tables[right])
      BY <1>2, TablesAreLists, IsList
    <2>2. \A m \in DOMAIN Tables[right] : m # 0
      BY <2>1
    <2> QED BY <2>2 DEF Cell
  <1>6. PartnersOf(e, join) = PartnersIn(plan2, c, join2)
    <2>1. PartnersIn(plan2, c, join2) =
            {m \in DOMAIN Tables[right] :
               LET v == Cell(left, IF join2.left = join2.right THEN m ELSE c[join2.left], join.leftColumn)
               IN  v # Null /\ v = Cell(right, m, join.rightColumn)}
      BY <1>2 DEF PartnersIn
    <2>2. PartnersOf(e, join) =
            {m \in DOMAIN Tables[right] :
               LET v == Cell(left, [e EXCEPT ![right] = m][left], join.leftColumn)
               IN  v # Null /\ v = Tables[right][m][join.rightColumn]}
      BY DEF PartnersOf, left, right
    <2>3. ASSUME NEW m \in DOMAIN Tables[right]
          PROVE  m \in PartnersOf(e, join) <=> m \in PartnersIn(plan2, c, join2)
      BY <1>4, <1>5, <2>1, <2>2
    <2>4. PartnersOf(e, join) \subseteq DOMAIN Tables[right]
          /\ PartnersIn(plan2, c, join2) \subseteq DOMAIN Tables[right]
      BY <2>1, <2>2
    <2> QED BY <2>3, <2>4
  <1>7. e[right] = c[join2.right]
    BY <1>2
  <1> QED BY <1>2, <1>6, <1>7 DEF FitsOf, FitsIn, right, join2, plan2

\* What a combination has at each table
LEMMA ChoiceHas ==
    ASSUME NEW plan2, Joins(plan2), NEW c, IsChoice(plan2, Len(plan2.joins), c),
           NEW t \in Bound(plan2, Len(plan2.joins))
    PROVE  c[t] \in 0..Len(Tables[plan2.tables[t]]) /\ t \in DOMAIN plan2.tables
  <1> DEFINE n == Len(plan2.joins)
  <1>1. n \in Nat
    BY IsList DEF Joins
  <1>2. ASSUME NEW d \in DOMAIN plan2.tables
        PROVE  DOMAIN Tables[plan2.tables[d]] = 1..Len(Tables[plan2.tables[d]])
               /\ Len(Tables[plan2.tables[d]]) \in Nat
    <2>1. plan2.tables[d] \in DOMAIN Tables
      BY DEF Joins
    <2> QED BY <2>1, TablesAreLists, IsList
  <1>3. CASE t = 1
    <2>1. 1 \in DOMAIN plan2.tables /\ c[1] \in DOMAIN Tables[plan2.tables[1]]
      BY DEF Joins, IsChoice
    <2>2. c[1] \in 0..Len(Tables[plan2.tables[1]])
      BY <1>2, <2>1
    <2> QED BY <1>3, <2>1, <2>2
  <1>4. CASE t # 1
    <2>1. PICK i \in 1..n : t = plan2.joins[i].right
      BY <1>4 DEF Bound
    <2>2. t \in DOMAIN plan2.tables /\ FitsIn(plan2, c, plan2.joins[i])
      BY <2>1 DEF Joins, IsChoice
    <2>3. c[t] = 0 \/ c[t] \in DOMAIN Tables[plan2.tables[t]]
      BY <2>1, <2>2 DEF FitsIn, PartnersIn
    <2> QED BY <1>2, <2>2, <2>3
  <1> QED BY <1>3, <1>4

\* Each choice of the query is that of one combination of the plan.
Matched(combos) ==
    /\ IsFiniteSet(combos)
    /\ \A c \in combos : /\ AsRow(c) \in RowChoices
                         /\ DOMAIN c = Bound(Planned(query), Len(query.joins))
    /\ \A c, d \in combos : AsRow(c) = AsRow(d) => c = d
    /\ \A e \in RowChoices : \E c \in combos : e = AsRow(c)

LEMMA CombosMatch ==
    ASSUME Sound(query)
    PROVE  Matched(Combos(Planned(query)))
  <1> DEFINE plan2 == Planned(query)
             n == Len(query.joins)
             combos == Combos(plan2)
             b == Bound(plan2, n)
  <1>1. /\ n \in Nat /\ DOMAIN query.joins = 1..n /\ Len(plan2.joins) = n /\ Joins(plan2)
        /\ Placing(query, plan2) /\ \A i \in 1..n : Joining(query, plan2, i)
        /\ b = {Place(query, d) : d \in Joined} /\ Joined \subseteq Range(query.datasets)
    BY PlanIs DEF Needed, Joined
  <1>2. AreChoices(plan2, n, combos) /\ IsFiniteSet(combos)
    BY <1>1, CombosAre
  <1>3. \A e : e \in RowChoices <=> IsRow(e)
    BY <1>1, ChoicesAre DEF Sound
  <1> HIDE DEF combos, b
  <1>4. ASSUME NEW c, NEW e, e = [d \in Joined |-> e[d]], \A d \in Joined : e[d] = c[Place(query, d)]
        PROVE  \A i \in 1..n : FitsOf(e, query.joins[i]) <=> FitsIn(plan2, c, plan2.joins[i])
    BY <1>1, <1>4, FitsBoth
  <1> HIDE DEF plan2
  <1>5. query.datasets[1] \in Joined /\ Place(query, query.datasets[1]) = 1
        /\ plan2.tables[1] = query.datasets[1]
    <2>1. query.datasets[1] \in Joined
      BY DEF Joined
    <2> QED BY <1>1, <2>1 DEF Placing
  <1>6. ASSUME NEW c \in combos PROVE AsRow(c) \in RowChoices /\ DOMAIN c = b
    <2> DEFINE e == AsRow(c)
    <2>1. e = [d \in Joined |-> e[d]] /\ \A d \in Joined : e[d] = c[Place(query, d)]
      BY DEF AsRow
    <2> HIDE DEF e
    <2>2. IsChoice(plan2, n, c)
      BY <1>2 DEF AreChoices
    <2>3. ASSUME NEW d \in Joined PROVE e[d] \in 0..Len(Tables[d])
      <3>1. Place(query, d) \in b /\ plan2.tables[Place(query, d)] = d
        BY <1>1 DEF Placing
      <3>2. c[Place(query, d)] \in 0..Len(Tables[plan2.tables[Place(query, d)]])
        BY <1>1, <2>2, <3>1, ChoiceHas DEF b
      <3> QED BY <2>1, <3>1, <3>2
    <2>4. e[query.datasets[1]] \in DOMAIN Tables[query.datasets[1]]
      BY <1>5, <2>1, <2>2 DEF IsChoice
    <2>5. ASSUME NEW i \in 1..n PROVE FitsOf(e, query.joins[i])
      <3>1. FitsIn(plan2, c, plan2.joins[i])
        BY <2>2 DEF IsChoice
      <3> QED BY <1>4, <2>1, <3>1
    <2>6. IsRow(e)
      BY <1>1, <2>1, <2>3, <2>4, <2>5 DEF IsRow
    <2> QED BY <1>3, <2>2, <2>6 DEF e, IsChoice, b
  <1>7. ASSUME NEW c \in combos, NEW d \in combos, AsRow(c) = AsRow(d) PROVE c = d
    <2>1. IsChoice(plan2, n, c) /\ IsChoice(plan2, n, d)
      BY <1>2 DEF AreChoices
    <2>2. ASSUME NEW t \in b PROVE c[t] = d[t]
      <3>1. PICK x \in Joined : t = Place(query, x)
        BY <1>1
      <3>2. AsRow(c)[x] = c[t] /\ AsRow(d)[x] = d[t]
        BY <3>1 DEF AsRow
      <3> QED BY <1>7, <3>2
    <2>3. c = [t \in b |-> c[t]] /\ d = [t \in b |-> d[t]]
      BY <2>1 DEF IsChoice, b
    <2> QED BY <2>2, <2>3
  <1>8. ASSUME NEW e \in RowChoices PROVE \E c \in combos : e = AsRow(c)
    <2> DEFINE c == [t \in b |-> e[plan2.tables[t]]]
    <2>1. IsRow(e)
      BY <1>3
    <2>2. ASSUME NEW d \in Joined PROVE Place(query, d) \in b /\ c[Place(query, d)] = e[d]
      <3>1. Place(query, d) \in b /\ plan2.tables[Place(query, d)] = d
        BY <1>1 DEF Placing
      <3> QED BY <3>1
    <2>3. c = [t \in b |-> c[t]]
      OBVIOUS
    <2> HIDE DEF c
    <2>4. e = [d \in Joined |-> e[d]] /\ \A d \in Joined : e[d] = c[Place(query, d)]
      BY <2>1, <2>2 DEF IsRow
    <2>5. \A i \in 1..n : FitsIn(plan2, c, plan2.joins[i])
      BY <1>1, <1>4, <2>1, <2>4 DEF IsRow
    <2>6. c[1] \in DOMAIN Tables[plan2.tables[1]]
      BY <1>5, <2>1, <2>4 DEF IsRow
    <2>7. IsChoice(plan2, n, c)
      BY <2>3, <2>5, <2>6 DEF IsChoice, b
    <2>8. c \in combos
      BY <1>2, <2>7 DEF AreChoices
    <2>9. AsRow(c) = e
      BY <2>4 DEF AsRow
    <2> QED BY <2>8, <2>9
  <1> QED BY <1>2, <1>6, <1>7, <1>8 DEF Matched, combos, b, plan2
-----------------------------------------------------------------------------
(* What the plan keeps is what the filter keeps                              *)

\* A clause reads no more of a row than the columns it names.
LEMMA WhereReads ==
    ASSUME NEW clause, IsClause(clause), NEW params, NEW row, NEW row2,
           \A column \in FilterColumns(clause) : row[column] = row2[column]
    PROVE  Where(clause, params, row) = Where(clause, params, row2)
  <1> DEFINE n == Len(clause)
  <1>1. n \in Nat \ {0} /\ DOMAIN clause = 1..n
    <2>1. DOMAIN clause = 1..n
      BY IsList DEF IsClause
    <2>2. PICK T : Tally(clause, T)
      BY TakenIs
    <2> QED BY <2>1, <2>2, TallyGrows
  <1>2. PICK T, holds : Evaluates(clause, T, params, row, holds)
                        /\ Where(clause, params, row) = holds[1]
    BY WhereIs
  <1>3. PICK U, holds2 : Evaluates(clause, U, params, row2, holds2)
                         /\ Where(clause, params, row2) = holds2[1]
    BY WhereIs
  <1>4. \A i \in 1..n : U[i] = T[i]
    <2>1. Placed(clause, clause, 0)
      BY <1>1 DEF Placed
    <2>2. Tally(clause, T) /\ Tally(clause, U)
      BY <1>2, <1>3 DEF Evaluates
    <2>3. Moved(T, U, n, 0)
      BY <2>1, <2>2, TallyMoves
    <2>4. U[0 + 1] = 0
      BY <2>2 DEF Tally
    <2>5. ASSUME NEW i \in 1..n PROVE U[i] = T[i]
      <3>1. i \in 1..(n + 1) /\ 0 + i = i
        BY <1>1
      <3>2. U[i] = 0 + T[i] /\ T[i] \in Nat
        BY <2>2, <2>3, <2>4, <3>1 DEF Moved, Tally
      <3> QED BY <3>2
    <2> QED BY <2>5
  <1> HIDE DEF n
  <1>5. ASSUME NEW i \in 1..n, \A j \in (i + 1)..n : holds[j] = holds2[j] PROVE holds[i] = holds2[i]
    <2>1. holds[i] = HoldsAt(clause, T, params, row, holds, i)
          /\ holds2[i] = HoldsAt(clause, U, params, row2, holds2, i)
      BY <1>2, <1>3 DEF Evaluates, n
    <2>2. CASE IsGroup(clause[i])
      <3> DEFINE at == clause[i].at
                 reach == 1..(n - i)
      <3>1. at \in Seq(1..(n - i))
        BY <1>1, <2>2 DEF IsClause, IsTree, n
      <3> HIDE DEF at, reach
      <3>2. at \in Seq(reach)
        BY <3>1 DEF reach
      <3>3. \A x \in DOMAIN at : at[x] \in reach
        BY <3>2
      <3>4. \A x \in DOMAIN at : i + at[x] \in (i + 1)..n
        BY <1>1, <3>3 DEF reach
      <3>5. {holds[i + at[x]] : x \in DOMAIN at} = {holds2[i + at[x]] : x \in DOMAIN at}
        BY <1>5, <3>4
      <3> QED BY <2>1, <2>2, <3>5 DEF HoldsAt, at
    <2>3. CASE ~IsGroup(clause[i])
      <3>1. clause[i].column \in FilterColumns(clause)
        BY <1>1, <2>3 DEF FilterColumns
      <3> QED BY <1>4, <2>1, <2>3, <3>1 DEF HoldsAt
    <2> QED BY <2>2, <2>3
  <1> DEFINE S == {m \in Nat : m < n => holds[n - m] = holds2[n - m]}
  <1>6. ASSUME NEW m \in Nat, \A j \in 0..(m - 1) : j \in S PROVE m \in S
    <2> SUFFICES ASSUME m < n PROVE holds[n - m] = holds2[n - m]
      OBVIOUS
    <2> DEFINE i == n - m
    <2>1. i \in 1..n
      BY <1>1
    <2>2. ASSUME NEW j \in (i + 1)..n PROVE holds[j] = holds2[j]
      <3>1. n - j \in 0..(m - 1) /\ n - j < n /\ n - (n - j) = j
        BY <1>1, <2>1, <2>2
      <3>2. n - j \in S
        BY <1>6, <3>1
      <3> QED BY <3>1, <3>2
    <2> HIDE DEF i, S
    <2> QED BY <1>5, <2>1, <2>2 DEF i
  <1>7. holds[1] = holds2[1]
    <2>1. \A m \in Nat : m \in S
      <3> HIDE DEF S
      <3> QED BY <1>6, Induction
    <2>2. n - 1 \in Nat /\ n - 1 < n /\ n - (n - 1) = 1
      BY <1>1
    <2>3. n - 1 \in S
      BY <2>1, <2>2
    <2> QED BY <2>2, <2>3
  <1> QED BY <1>2, <1>3, <1>7

\* A name without a fault has one dataset, for the plan and for the query.
LEMMA NamedIs ==
    ASSUME IsSelection(query.datasets), query.datasets # <<>>, loads = Full(query.datasets),
           NEW name, Resolve(loads, name) = Fine
    PROVE  /\ name \in Names(loads) /\ Owner(name) \in Range(query.datasets)
           /\ Planned(query).owner[name] = Place(query, Owner(name))
           /\ name \in DOMAIN Planned(query).owner
           /\ TypeOf(loads, name) = Types[Owner(name)][name]
  <1> DEFINE ds == query.datasets
  <1>1. PICK i \in 1..Len(ds) :
           /\ Min(Owners(loads, name)) = i
           /\ {d \in Range(ds) : name \in DOMAIN Types[d]} = {ds[i]}
           /\ TypeOf(loads, name) = Types[ds[i]][name]
    BY ResolveLoaded
  <1>2. name \in Names(loads)
    <2>1. Resolve(loads, name) # "COLUMN_NOT_FOUND"
      BY DEF Fine
    <2> QED BY <2>1, ResolveLoaded
  <1>3. ds[i] \in Range(ds) /\ Place(query, ds[i]) = i
    BY LoadedIs DEF Place
  <1>4. Owner(name) = ds[i]
    BY <1>1, <1>3, OwnerIs
  <1>5. Planned(query).owner = [m \in Names(loads) |-> Min(Owners(loads, m))]
    BY DEF Planned, Compile
  <1> QED BY <1>1, <1>2, <1>3, <1>4, <1>5

\* A row of the joins has of such a name what the choice has.
LEMMA ReadsSame ==
    ASSUME Sound(query), loads = Full(query.datasets),
           NEW c, DOMAIN c = Bound(Planned(query), Len(query.joins)),
           NEW name, Resolve(loads, name) = Fine,
           Planned(query).owner[name] \in Bound(Planned(query), Len(query.joins))
    PROVE  View(Planned(query), c)[name] = Cells(AsRow(c))[name]
  <1> DEFINE plan2 == Planned(query)
             n == Len(query.joins)
  <1>1. /\ name \in Names(loads) /\ Owner(name) \in Range(query.datasets)
        /\ plan2.owner[name] = Place(query, Owner(name)) /\ name \in DOMAIN plan2.owner
    BY NamedIs DEF Sound
  <1>2. /\ Placing(query, plan2) /\ Bound(plan2, n) = {Place(query, d) : d \in Joined}
        /\ Joined \subseteq Range(query.datasets)
    BY PlanIs DEF Needed, Joined
  <1> HIDE DEF plan2, n
  <1>3. plan2.tables[plan2.owner[name]] = Owner(name)
    BY <1>1, <1>2 DEF Placing
  <1>4. Owner(name) \in Joined
    <2>1. PICK d \in Joined : plan2.owner[name] = Place(query, d)
      BY <1>2 DEF plan2, n
    <2>2. plan2.tables[plan2.owner[name]] = d
      BY <1>2, <2>1 DEF Placing
    <2> QED BY <1>3, <2>2
  <1>5. View(plan2, c)[name] = Cell(Owner(name), c[plan2.owner[name]], name)
    <2>1. plan2.owner[name] \in DOMAIN c
      BY DEF plan2, n
    <2> QED BY <1>1, <1>3, <2>1 DEF View
  <1>6. Cells(AsRow(c))[name] = Cell(Owner(name), AsRow(c)[Owner(name)], name)
    BY <1>1, <1>4 DEF Cells
  <1>7. AsRow(c)[Owner(name)] = c[plan2.owner[name]]
    BY <1>1, <1>4 DEF AsRow
  <1> QED BY <1>5, <1>6, <1>7 DEF plan2

KeptBy(plan2, c) ==
    \/ plan2.where = NoFilter
    \/ Where(plan2.where, plan2.params, View(plan2, c)) = "true"

LEMMA KeptSame ==
    ASSUME Sound(query), loads = Full(query.datasets), Literal(query.filters, ColumnTypes),
           NEW c, DOMAIN c = Bound(Planned(query), Len(query.joins))
    PROVE  KeptBy(Planned(query), c) <=> Keeps(query.filters, ColumnTypes, Cells(AsRow(c))) = "true"
  <1> DEFINE plan2 == Planned(query)
             filter == query.filters
             types == [name \in Names(loads) |-> TypeOf(loads, name)]
             built == BuildFilterWhere(filter, types)
             row == Cells(AsRow(c))
             n == Len(query.joins)
  <1>1. plan2.where = built.clause /\ plan2.params = built.params
    BY DEF Planned, Compile
  <1>2. ASSUME NEW column \in FilterColumns(filter) PROVE Resolve(loads, column) = Fine
    <2>1. PICK i \in DOMAIN filter : ~IsGroup(filter[i]) /\ column = filter[i].column
      BY DEF FilterColumns
    <2>2. FilterFault(filter[i], loads) = Fine
      BY QueryFaultIs DEF Sound
    <2> QED BY <2>1, <2>2 DEF FilterFault
  <1>3. /\ Complete(filter) /\ filter \in Seq(Range(filter)) /\ IsTree(filter)
        /\ Literal(filter, ColumnTypes)
    BY DEF Sound, Complete
  <1> HIDE DEF filter
  <1>4. Agree(filter, types, row, ColumnTypes, row)
    <2>1. ASSUME NEW column \in FilterColumns(filter) PROVE types[column] = ColumnTypes[column]
      <3>1. column \in Names(loads) /\ TypeOf(loads, column) = Types[Owner(column)][column]
        BY <1>2, NamedIs DEF Sound
      <3> QED BY <3>1 DEF ColumnTypes
    <2> QED BY <2>1 DEF Agree
  <1> HIDE DEF types, row
  <1>5. /\ built.clause # NoFilter => IsClause(built.clause)
        /\ Keeps(filter, ColumnTypes, row) =
              IF built.clause = NoFilter THEN "true" ELSE Where(built.clause, built.params, row)
    BY <1>3, <1>4, ClauseMeansFilter
  <1>6. FilterColumns(built.clause) \subseteq FilterColumns(filter)
    BY <1>3, ClauseColumns
  <1> HIDE DEF built
  <1>7. ASSUME NEW column \in FilterColumns(plan2.where) PROVE View(plan2, c)[column] = row[column]
    <2>1. Resolve(loads, column) = Fine
      BY <1>1, <1>2, <1>6
    <2>2. plan2.owner[column] \in Bound(plan2, Len(plan2.joins))
      BY DEF Sound, Binds
    <2>3. Len(plan2.joins) = n
      BY PlanIs
    <2> QED BY <2>1, <2>2, <2>3, ReadsSame DEF row
  <1> HIDE DEF plan2
  <1>8. plan2.where # NoFilter =>
           Where(plan2.where, plan2.params, View(plan2, c)) = Where(plan2.where, plan2.params, row)
    BY <1>1, <1>5, <1>7, WhereReads
  <1> QED BY <1>1, <1>5, <1>8 DEF KeptBy, plan2, row, filter
-----------------------------------------------------------------------------
(* As many groups as are asked for                                           *)

LEMMA SameCount ==
    ASSUME NEW S, NEW T, IsFiniteSet(S), NEW f \in [S -> T],
           \A t \in T : \E s \in S : f[s] = t,
           \A r, s \in S : f[r] = f[s] => r = s
    PROVE  IsFiniteSet(T) /\ Cardinality(T) = Cardinality(S)
  <1>1. f \in Surjection(S, T) /\ f \in Injection(S, T)
    BY DEF Surjection, Injection, IsInjective
  <1> QED BY <1>1, FS_Surjection

Classes(K, key) == {{d \in K : key[d] = key[c]} : c \in K}

LEMMA ClassesCount ==
    ASSUME NEW K, IsFiniteSet(K), NEW key
    PROVE  /\ IsFiniteSet(Classes(K, key))
           /\ Cardinality(Classes(K, key)) = Cardinality({key[c] : c \in K})
  <1> DEFINE values == {key[c] : c \in K}
             f == [v \in values |-> {d \in K : key[d] = v}]
  <1>1. IsFiniteSet(values)
    <2> DEFINE h == [c \in K |-> key[c]]
    <2>1. h \in [K -> values]
      OBVIOUS
    <2>2. \A v \in values : \E c \in K : h[c] = v
      OBVIOUS
    <2> HIDE DEF values, h
    <2>3. h \in Surjection(K, values)
      BY <2>1, <2>2 DEF Surjection
    <2> QED BY <2>3, FS_Surjection
  <1>2. f \in [values -> Classes(K, key)]
    BY DEF Classes
  <1>3. ASSUME NEW t \in Classes(K, key) PROVE \E v \in values : f[v] = t
    <2>1. PICK c \in K : t = {d \in K : key[d] = key[c]}
      BY <1>3 DEF Classes
    <2>2. key[c] \in values /\ f[key[c]] = t
      BY <2>1
    <2> QED BY <2>2
  <1>4. ASSUME NEW v \in values, NEW w \in values, f[v] = f[w] PROVE v = w
    <2>1. PICK c \in K : v = key[c]
      OBVIOUS
    <2>2. c \in f[v]
      BY <2>1
    <2>3. c \in f[w]
      BY <1>4, <2>2
    <2> QED BY <2>1, <2>3
  <1> HIDE DEF values, f
  <1>5. IsFiniteSet(Classes(K, key)) /\ Cardinality(Classes(K, key)) = Cardinality(values)
    BY <1>1, <1>2, <1>3, <1>4, SameCount
  <1> QED BY <1>5 DEF values

KeptOf(plan2) == {c \in Combos(plan2) : KeptBy(plan2, c)}
KeyOfKept(plan2) == [c \in KeptOf(plan2) |-> Key(plan2, View(plan2, c))]

LEMMA GroupsAre ==
    ASSUME NEW plan2
    PROVE  Groups(plan2) =
             IF plan2.groupBy # <<>> THEN Classes(KeptOf(plan2), KeyOfKept(plan2))
             ELSE IF \E i \in DOMAIN plan2.values : ContainsAggregation(plan2.values[i])
             THEN {KeptOf(plan2)} ELSE {{c} : c \in KeptOf(plan2)}
  BY DEF Groups, Combos, Firsts, KeptBy, KeptOf, KeyOfKept, Classes

AskedKept == {e \in RowChoices : Keeps(query.filters, ColumnTypes, Cells(e)) = "true"}

\* The values of the dimensions in a row
DimensionsOf(e) ==
    [i \in DOMAIN query.dimensions |->
        Truncated(Cells(e)[query.dimensions[i].column], query.dimensions[i].granularity)]

LEMMA AskedAre ==
    DOMAIN AskedGroups =
      IF query.dimensions # <<>> THEN {DimensionsOf(e) : e \in AskedKept}
      ELSE IF \E i \in DOMAIN query.metrics : ContainsAggregation(Tree(query.metrics[i]))
      THEN {0} ELSE AskedKept
  <1> DEFINE view == [c \in RowChoices |-> Cells(c)]
             kept == {c \in RowChoices : Keeps(query.filters, ColumnTypes, view[c]) = "true"}
             Of(c) == [i \in DOMAIN query.dimensions |->
                         Truncated(view[c][query.dimensions[i].column],
                                   query.dimensions[i].granularity)]
             of == [c \in kept |-> Of(c)]
  <1>1. kept = AskedKept
    BY DEF AskedKept
  <1>2. Range(of) = {DimensionsOf(e) : e \in AskedKept}
    <2>1. ASSUME NEW c \in kept PROVE of[c] = DimensionsOf(c)
      BY DEF DimensionsOf
    <2> HIDE DEF of
    <2>2. DOMAIN of = kept
      BY DEF of
    <2> HIDE DEF kept
    <2> QED BY <1>1, <2>1, <2>2 DEF Range
  <1>3. DOMAIN AskedGroups =
          IF query.dimensions # <<>> THEN Range(of)
          ELSE IF \E i \in DOMAIN query.metrics : ContainsAggregation(Tree(query.metrics[i]))
          THEN {0} ELSE kept
    BY DEF AskedGroups, ColumnTypes
  <1> HIDE DEF kept, of
  <1> QED BY <1>1, <1>2, <1>3

\* The plan aggregates where the query does.
LEMMA AggregatesAlike ==
    ASSUME IsQuery(query), QueryFault(query, Full(query.datasets)) = Fine,
           \A f \in Formulas : Plain(f)
    PROVE  (\E i \in DOMAIN Planned(query).values :
                ContainsAggregation(Planned(query).values[i]))
             <=> \E i \in DOMAIN query.metrics : ContainsAggregation(Tree(query.metrics[i]))
  <1> DEFINE seen == Full(query.datasets)
             grouped == query.dimensions # <<>>
             values == Planned(query).values
  <1>1. values = [i \in DOMAIN query.metrics |-> Expression(query.metrics[i])]
    BY DEF Planned, Compile
  <1>2. ASSUME NEW i \in DOMAIN query.metrics PROVE values[i] = Tree(query.metrics[i])
    <2> DEFINE f == query.metrics[i].formula
    <2>1. CASE f = <<>>
      BY <1>1, <2>1 DEF Expression, Tree
    <2>2. CASE f # <<>>
      <3>1. f \in Formulas /\ f \in Seq(STRING)
        BY <2>2 DEF Formulas, IsQuery
      <3>2. "count_distinct" \notin Range(f)
        BY <3>1 DEF Plain
      <3>3. MetricFault(query.metrics[i], seen, grouped) = Fine
        <4> HIDE DEF seen
        <4> QED BY QueryFaultIs DEF seen
      <3>4. FormulaFault(f, seen, grouped) = Fine
        BY <2>2, <3>3, MetricFaultIs
      <3>5. values[i] = ToSql(Parse(f).tree) /\ Tree(query.metrics[i]) = Meaning(f)
        BY <1>1, <2>2 DEF Expression, Tree
      <3> HIDE DEF f, seen
      <3>6. ToSql(Parse(f).tree) = Meaning(f)
        BY <3>1, <3>2, <3>4, FormulaFaultIs
      <3> QED BY <3>5, <3>6
    <2> QED BY <2>1, <2>2
  <1> HIDE DEF values
  <1>3. DOMAIN values = DOMAIN query.metrics
    BY <1>1
  <1> QED BY <1>2, <1>3 DEF values

\* A combination that is kept has the values of the dimensions that its row has.
LEMMA KeySame ==
    ASSUME Sound(query), loads = Full(query.datasets),
           NEW c, DOMAIN c = Bound(Planned(query), Len(query.joins))
    PROVE  Key(Planned(query), View(Planned(query), c)) = DimensionsOf(AsRow(c))
  <1> DEFINE plan2 == Planned(query)
  <1>1. plan2.groupBy = query.dimensions /\ Len(plan2.joins) = Len(query.joins)
    <2>1. plan2.groupBy = query.dimensions
      BY DEF Planned, Compile
    <2> QED BY <2>1, PlanIs
  <1>2. ASSUME NEW i \in DOMAIN query.dimensions
        PROVE  View(plan2, c)[query.dimensions[i].column]
                 = Cells(AsRow(c))[query.dimensions[i].column]
    <2> DEFINE name == query.dimensions[i].column
    <2>1. DimensionFault(query.dimensions[i], loads) = Fine
      BY QueryFaultIs DEF Sound
    <2>2. Resolve(loads, name) = Fine
      BY <2>1 DEF DimensionFault
    <2>3. plan2.owner[name] \in Bound(plan2, Len(plan2.joins))
      <3> HIDE DEF plan2
      <3>1. Binds(plan2)
        BY DEF Sound, plan2
      <3> QED BY <1>1, <3>1 DEF Binds
    <2> HIDE DEF name
    <2> QED BY <1>1, <2>2, <2>3, ReadsSame DEF name
  <1> HIDE DEF plan2
  <1> QED BY <1>1, <1>2 DEF Key, DimensionsOf, plan2

LEMMA KeptIs ==
    ASSUME Sound(query), loads = Full(query.datasets)
    PROVE  LET kept == KeptOf(Planned(query))
           IN  /\ IsFiniteSet(kept)
               /\ \A c \in kept : DOMAIN c = Bound(Planned(query), Len(query.joins))
               /\ Literal(query.filters, ColumnTypes) => AskedKept = {AsRow(c) : c \in kept}
               /\ \A c, d \in kept : AsRow(c) = AsRow(d) => c = d
  <1> DEFINE plan2 == Planned(query)
             combos == Combos(plan2)
             kept == KeptOf(plan2)
  <1>1. Matched(combos)
    BY CombosMatch
  <1>2. IsFiniteSet(combos) /\ kept \subseteq combos
    BY <1>1 DEF Matched, KeptOf
  <1>3. IsFiniteSet(kept)
    BY <1>2, FS_Subset
  <1>4. ASSUME NEW c \in combos
        PROVE  /\ DOMAIN c = Bound(plan2, Len(query.joins))
               /\ AsRow(c) \in RowChoices
               /\ Literal(query.filters, ColumnTypes) => (c \in kept <=> AsRow(c) \in AskedKept)
    <2>1. DOMAIN c = Bound(plan2, Len(query.joins)) /\ AsRow(c) \in RowChoices
      BY <1>1 DEF Matched
    <2>2. Literal(query.filters, ColumnTypes) =>
             (KeptBy(plan2, c) <=> Keeps(query.filters, ColumnTypes, Cells(AsRow(c))) = "true")
      BY <2>1, KeptSame
    <2> QED BY <2>1, <2>2 DEF KeptOf, AskedKept
  <1>5. ASSUME Literal(query.filters, ColumnTypes) PROVE AskedKept = {AsRow(c) : c \in kept}
    <2>1. ASSUME NEW e \in AskedKept PROVE \E c \in kept : e = AsRow(c)
      <3>1. e \in RowChoices
        BY DEF AskedKept
      <3>2. PICK c \in combos : AsRow(c) = e
        BY <1>1, <3>1 DEF Matched
      <3> QED BY <1>4, <1>5, <3>2
    <2> HIDE DEF combos, kept, plan2
    <2> QED BY <1>2, <1>4, <1>5, <2>1
  <1>6. \A c, d \in kept : AsRow(c) = AsRow(d) => c = d
    BY <1>1, <1>2 DEF Matched
  <1> HIDE DEF combos, kept
  <1> QED BY <1>2, <1>3, <1>4, <1>5, <1>6 DEF kept

LEMMA GroupsCount ==
    ASSUME Sound(query), loads = Full(query.datasets)
    PROVE  /\ IsFiniteSet(Groups(Planned(query)))
           /\ (\A f \in Formulas : Plain(f)) /\ Literal(query.filters, ColumnTypes) =>
                 Cardinality(Groups(Planned(query))) = Cardinality(DOMAIN AskedGroups)
  <1> DEFINE plan2 == Planned(query)
             kept == KeptOf(plan2)
             key == KeyOfKept(plan2)
             asked == DOMAIN AskedGroups
             aggregating == \E i \in DOMAIN query.metrics : ContainsAggregation(Tree(query.metrics[i]))
             combining == \E i \in DOMAIN plan2.values : ContainsAggregation(plan2.values[i])
             plain == (\A f \in Formulas : Plain(f)) /\ Literal(query.filters, ColumnTypes)
  <1>1. /\ IsFiniteSet(kept)
        /\ \A c \in kept : DOMAIN c = Bound(plan2, Len(query.joins))
        /\ plain => AskedKept = {AsRow(c) : c \in kept}
        /\ \A c, d \in kept : AsRow(c) = AsRow(d) => c = d
    BY KeptIs
  <1>2. plan2.groupBy = query.dimensions
    BY DEF Planned, Compile
  <1>3. /\ Groups(plan2) = IF query.dimensions # <<>> THEN Classes(kept, key)
                           ELSE IF combining THEN {kept} ELSE {{c} : c \in kept}
        /\ plain => (combining <=> aggregating)
    <2>1. plain => (combining <=> aggregating)
      BY AggregatesAlike DEF Sound
    <2> HIDE DEF plan2, aggregating, plain
    <2> QED BY <1>2, <2>1, GroupsAre
  <1>4. asked = IF query.dimensions # <<>> THEN {DimensionsOf(e) : e \in AskedKept}
                ELSE IF aggregating THEN {0} ELSE AskedKept
    BY AskedAre
  <1>5. ASSUME NEW c \in kept PROVE key[c] = DimensionsOf(AsRow(c))
    <2>1. key[c] = Key(plan2, View(plan2, c))
      BY DEF KeyOfKept
    <2> QED BY <1>1, <2>1, KeySame
  <1> HIDE DEF kept, key, plan2, asked, aggregating, combining, plain
  <1>6. CASE query.dimensions # <<>>
    <2>1. plain => asked = {key[c] : c \in kept}
      BY <1>1, <1>4, <1>5, <1>6
    <2>2. /\ IsFiniteSet(Classes(kept, key))
         /\ Cardinality(Classes(kept, key)) = Cardinality({key[c] : c \in kept})
      BY <1>1, ClassesCount
    <2> QED BY <1>3, <1>6, <2>1, <2>2 DEF plan2, asked, plain
  <1>7. CASE query.dimensions = <<>> /\ combining
    <2>1. Groups(plan2) = {kept} /\ (plain => asked = {0})
      BY <1>3, <1>4, <1>7
    <2>2. \A x : IsFiniteSet({x}) /\ Cardinality({x}) = 1
      BY FS_Singleton
    <2> QED BY <2>1, <2>2 DEF plan2, asked, plain
  <1>8. CASE query.dimensions = <<>> /\ ~combining
    <2>1. Groups(plan2) = {{c} : c \in kept} /\ (plain => asked = AskedKept)
      BY <1>3, <1>4, <1>8
    <2> DEFINE f == [c \in kept |-> {c}]
               g == [c \in kept |-> AsRow(c)]
    <2>2. IsFiniteSet({{c} : c \in kept}) /\ Cardinality({{c} : c \in kept}) = Cardinality(kept)
      <3>1. /\ f \in [kept -> {{c} : c \in kept}]
            /\ \A t \in {{c} : c \in kept} : \E s \in kept : f[s] = t
            /\ \A r, s \in kept : f[r] = f[s] => r = s
        OBVIOUS
      <3> HIDE DEF f
      <3> QED BY <1>1, <3>1, SameCount
    <2>3. ASSUME plain PROVE Cardinality(AskedKept) = Cardinality(kept)
      <3>1. /\ g \in [kept -> AskedKept]
            /\ \A t \in AskedKept : \E s \in kept : g[s] = t
            /\ \A r, s \in kept : g[r] = g[s] => r = s
        BY <1>1, <2>3
      <3> HIDE DEF g
      <3> QED BY <1>1, <3>1, SameCount
    <2> QED BY <2>1, <2>2, <2>3 DEF plan2, asked, plain
  <1> QED BY <1>6, <1>7, <1>8
-----------------------------------------------------------------------------
(* Pages, and what they tell of the total                                    *)

LEMMA ClampIs ==
    ASSUME NEW value \in Int
    PROVE  /\ ClampLimit(value) \in Nat \ {0}
           /\ ClampOffset(value) \in Nat /\ (ClampOffset(value) > 0 => value > 0)
  <1>1. MaxLimit \in Nat \ {0} /\ MaxOffset \in Nat
    BY LimitsArePositive
  <1>2. CASE value <= 0
    BY <1>2 DEF ClampLimit, ClampOffset
  <1>3. CASE value > 0
    <2>1. Min({value, MaxLimit}) \in {value, MaxLimit}
      <3>1. {value, MaxLimit} \in SUBSET Nat
        BY <1>1, <1>3
      <3> QED BY <3>1, MinIsLeast
    <2>2. Min({value, MaxOffset}) \in {value, MaxOffset}
      <3>1. {value, MaxOffset} \in SUBSET Nat
        BY <1>1, <1>3
      <3> QED BY <3>1, MinIsLeast
    <2> QED BY <1>1, <1>3, <2>1, <2>2 DEF ClampLimit, ClampOffset
  <1> QED BY <1>2, <1>3

\* A page that is not full ends with the last group, unless it begins behind it.
LEMMA PageIs ==
    ASSUME NEW plan2, IsFiniteSet(Groups(plan2)),
           plan2.limit \in Nat \ {0}, plan2.offset \in Nat, NEW page \in Pages(plan2)
    PROVE  LET n == Cardinality(Groups(plan2))
           IN  /\ n \in Nat /\ Len(page) \in Nat /\ DOMAIN page = 1..Len(page)
               /\ Len(page) < plan2.limit =>
                    plan2.offset + Len(page) = n \/ (Len(page) = 0 /\ n <= plan2.offset)
  <1> DEFINE groups == Groups(plan2)
             n == Cardinality(groups)
             row == [g \in groups |-> RowOf(plan2, g)]
             first == plan2.offset
             end == Min({first + plan2.limit, n})
  <1>1. n \in Nat
    BY FS_CardinalityType
  <1>2. PICK s \in [1..n -> groups] : page = SubSeq([i \in DOMAIN s |-> row[s[i]]], first + 1, end)
    <2> HIDE DEF row
    <2> QED BY DEF Pages, row
  <1> DEFINE list == [i \in DOMAIN s |-> row[s[i]]]
  <1>3. list \in Seq(Range(list)) /\ Len(list) = n
    <2>1. list = [i \in 1..n |-> list[i]]
      BY <1>2
    <2> HIDE DEF list, n
    <2> QED BY <1>1, <2>1, ListOf
  <1>4. end \in {first + plan2.limit, n} /\ end <= n /\ end <= first + plan2.limit
    <2>1. {first + plan2.limit, n} \in SUBSET Nat
      BY <1>1
    <2> HIDE DEF n
    <2> QED BY <2>1, MinIsLeast
  <1> HIDE DEF list, end, n
  <1>5. page = SubSeq(list, first + 1, end)
    BY <1>2 DEF list
  <1>6. CASE first >= end
    <2>1. page = <<>>
      <3>1. first + 1 \in Int /\ end \in Int /\ end < first + 1
        BY <1>1, <1>4, <1>6
      <3> QED BY <1>5, <3>1, SubSeqEmpty
    <2>2. n <= first
      BY <1>1, <1>4, <1>6
    <2> QED BY <1>1, <2>1, <2>2 DEF n
  <1>7. CASE first < end
    <2>1. first + 1 \in 1..n /\ end \in 1..n
      BY <1>1, <1>4, <1>7
    <2>2. page \in Seq(Range(list)) /\ Len(page) = end - first
      <3> DEFINE V == Range(list)
      <3>1. \A i \in (first + 1)..end : list[i] \in V
        BY <1>1, <1>3, <1>4, <2>1
      <3> HIDE DEF V
      <3>2. SubSeq(list, first + 1, end) \in Seq(V)
            /\ Len(SubSeq(list, first + 1, end)) = IF first + 1 <= end THEN end - (first + 1) + 1 ELSE 0
        BY <2>1, <3>1, SubSeqProperties
      <3>3. page \in Seq(V) /\ Len(page) = IF first + 1 <= end THEN end - (first + 1) + 1 ELSE 0
        BY <1>5, <3>2
      <3>4. first \in Int /\ end \in Int
        BY <1>1, <1>4
      <3> HIDE DEF first
      <3> QED BY <1>7, <3>3, <3>4 DEF V
    <2>3. DOMAIN page = 1..Len(page)
      BY <2>2
    <2> QED BY <1>1, <1>4, <1>7, <2>2, <2>3 DEF n
  <1> QED BY <1>1, <1>4, <1>6, <1>7

\* The answer has the number of groups, and says whether any is missing; but of a page
\* that begins behind the last group it cannot be known.
Counted(given, q) ==
    LET n == Cardinality(Groups(Planned(q)))
    IN  \/ given.rows = <<>> /\ q.offset > 0
        \/ given.total = n /\ given.truncated = (Len(given.rows) < n)

LEMMA AnswerCounts ==
    ASSUME Sound(query), loads = Full(query.datasets), query.limit \in Int, query.offset \in Int,
           NEW page \in Pages(Planned(query)), NEW total, Answer(page, total),
           \/ total = Total(Planned(query))
           \/ Len(page) < ClampLimit(query.limit)
              /\ total = ClampOffset(query.offset) + Len(page)
    PROVE  Counted(answer', query)
  <1> DEFINE plan2 == Planned(query)
             n == Cardinality(Groups(plan2))
             names == OutputNames(query)
             shown == RemapRows(page, names)
  <1>1. plan2.limit = ClampLimit(query.limit) /\ plan2.offset = ClampOffset(query.offset)
    BY DEF Planned, Compile
  <1>2. /\ ClampLimit(query.limit) \in Nat \ {0}
        /\ ClampOffset(query.offset) \in Nat /\ (ClampOffset(query.offset) > 0 => query.offset > 0)
    BY ClampIs
  <1>3. IsFiniteSet(Groups(plan2))
    BY GroupsCount
  <1>4. /\ n \in Nat /\ Len(page) \in Nat /\ DOMAIN page = 1..Len(page)
        /\ Len(page) < plan2.limit =>
             plan2.offset + Len(page) = n \/ (Len(page) = 0 /\ n <= plan2.offset)
    <2> HIDE DEF plan2
    <2>1. plan2.limit \in Nat \ {0} /\ plan2.offset \in Nat /\ page \in Pages(plan2)
      BY <1>1, <1>2 DEF plan2
    <2> QED BY <1>3, <2>1, PageIs
  <1>5. Len(shown) = Len(page) /\ (Len(page) = 0 => shown = <<>>)
    <2> DEFINE m == Len(page)
    <2>1. shown = [p \in 1..m |-> shown[p]]
      BY <1>4 DEF RemapRows
    <2>2. m \in Nat
      BY <1>4
    <2> HIDE DEF m, shown
    <2>3. shown \in Seq(Range(shown)) /\ Len(shown) = m
      BY <2>1, <2>2, ListOf
    <2>4. m = 0 => shown = <<>>
      BY <2>3
    <2> QED BY <2>3, <2>4 DEF m
  <1>6. answer'.rows = shown /\ answer'.total = total /\ answer'.truncated = (Len(page) < total)
    BY DEF Answer
  <1>7. Total(plan2) = n
    BY DEF Total
  <1> HIDE DEF shown, plan2, n
  <1>8. total = n \/ (Len(page) = 0 /\ query.offset > 0)
    <2>1. CASE total = Total(plan2)
      BY <1>7, <2>1
    <2>2. CASE Len(page) < ClampLimit(query.limit) /\ total = ClampOffset(query.offset) + Len(page)
      BY <1>1, <1>2, <1>4, <2>2
    <2> QED BY <2>1, <2>2 DEF plan2
  <1> QED BY <1>5, <1>6, <1>8 DEF Counted, n, plan2
-----------------------------------------------------------------------------
(* Every answer has the right total                                          *)

\* What anyone may ask of the DataMart
Ordinary(q) ==
    /\ IsQuery(q) /\ IsSelection(q.datasets) /\ q.datasets # <<>> /\ Complete(q.filters)
    /\ q.limit \in Int /\ q.offset \in Int

LEMMA AskedIsOrdinary ==
    ASSUME NEW f \in Forms, "call" \notin DOMAIN f
    PROVE  \A q \in {Parsed(BuildDataMartQuery(f)), Parsed(ApiBody(f))} :
              SchemaTakes(q) => Ordinary(q)
  <1> DEFINE body == BuildDataMartQuery(f)
             wish == ApiBody(f)
             q == Parsed(body)
             r == Parsed(wish)
             Alike == {"datasets", "limit", "offset"}
  <1>1. /\ "sort" \notin DOMAIN f /\ Alike \subseteq DOMAIN f /\ "filters" \in DOMAIN f
        /\ f.filters \in Seq(Range(f.filters)) /\ Complete(f.filters)
        /\ IsSelection(f.datasets)
        /\ \A i \in DOMAIN f.filters :
              DOMAIN f.filters[i] \in {{"conjunction", "at"}, {"column", "op", "values"}}
    <2>1. \A field \in {"datasets", "filters"} : field \in DOMAIN f /\ f[field] \in Seq(Range(f[field]))
      BY FormsAreLists
    <2>2. /\ "sort" \notin DOMAIN f /\ "limit" \in DOMAIN f /\ "offset" \in DOMAIN f
          /\ Range(f.datasets) \subseteq Range(Datasets)
          /\ \A i, j \in DOMAIN f.datasets : i # j => f.datasets[i] # f.datasets[j]
          /\ IsTree(f.filters)
          /\ \A i \in DOMAIN f.filters :
                /\ ~IsGroup(f.filters[i]) => HasValues(f.filters[i])
                /\ DOMAIN f.filters[i] \in {{"conjunction", "at"}, {"column", "op", "values"}}
      BY FormsAreLists
    <2> QED BY <2>1, <2>2 DEF IsSelection, Complete
  <1>2. /\ DOMAIN body = DOMAIN f /\ body["filters"] = f["filters"]
        /\ \A field \in Alike : body[field] = f[field]
    BY DEF BuildDataMartQuery
  <1>3. /\ DOMAIN wish = (DOMAIN f \ {"sorts"}) \cup {"sort"} /\ wish["filters"] = f["filters"]
        /\ \A field \in Alike : wish[field] = f[field]
    BY <1>1 DEF ApiBody
  <1>4. IsQuery(q) /\ IsQuery(r)
    BY ParsedIsQuery
  <1> HIDE DEF body, wish
  <1>5. /\ \A field \in Alike : q[field] = f[field] /\ r[field] = f[field]
        /\ q["filters"] = SpeltAll(f["filters"], {"column"})
        /\ r["filters"] = SpeltAll(f["filters"], {"column"})
    BY <1>1, <1>2, <1>3 DEF Parsed, Named
  <1> HIDE DEF q, r
  <1>6. Complete(SpeltAll(f.filters, {"column"}))
    <2> DEFINE given == f.filters
               trimmed == SpeltAll(given, {"column"})
    <2>1. /\ given \in Seq(Range(given)) /\ Complete(given)
          /\ \A i \in DOMAIN given :
                DOMAIN given[i] \in {{"conjunction", "at"}, {"column", "op", "values"}}
      BY <1>1
    <2> HIDE DEF given
    <2>2. /\ trimmed \in Seq(Range(trimmed)) /\ DOMAIN trimmed = DOMAIN given
          /\ Len(trimmed) = Len(given)
          /\ \A i \in DOMAIN given : \A field \in DOMAIN given[i] \ {"column"} :
                trimmed[i][field] = given[i][field]
          /\ \A i \in DOMAIN given : DOMAIN trimmed[i] = DOMAIN given[i]
      BY <2>1, SpeltIs
    <2> HIDE DEF trimmed
    <2>3. ASSUME NEW i \in DOMAIN given, ~IsGroup(given[i])
          PROVE  HasValues(trimmed[i])
      <3>1. DOMAIN given[i] = {"column", "op", "values"}
        BY <2>1, <2>3 DEF IsGroup
      <3>2. trimmed[i].op = given[i].op /\ trimmed[i].values = given[i].values
        BY <2>2, <3>1
      <3>3. HasValues(given[i])
        BY <2>1, <2>3 DEF Complete
      <3> QED BY <3>2, <3>3 DEF HasValues, Holes
    <2>4. ASSUME NEW i \in DOMAIN given, IsGroup(given[i])
          PROVE  trimmed[i].at = given[i].at
      <3>1. DOMAIN given[i] = {"conjunction", "at"}
        BY <2>1, <2>4 DEF IsGroup
      <3> QED BY <2>2, <3>1
    <2>5. \A i \in DOMAIN given : IsGroup(trimmed[i]) <=> IsGroup(given[i])
      BY <2>2 DEF IsGroup
    <2>6. trimmed # <<>>
      <3>1. given # <<>>
        BY <2>1 DEF Complete, IsTree
      <3> QED BY <2>1, <2>2, <3>1
    <2>7. IsTree(trimmed)
      BY <2>1, <2>2, <2>4, <2>5, <2>6 DEF IsTree, Complete
    <2>8. Complete(trimmed)
      BY <2>2, <2>3, <2>5, <2>7 DEF Complete
    <2> QED BY <2>8 DEF trimmed, given
  <1>7. ASSUME NEW s \in {q, r}, SchemaTakes(s) PROVE Ordinary(s)
    <2>1. s.limit \in Int /\ s.offset \in Int /\ s.datasets # <<>>
      BY <1>7 DEF SchemaTakes
    <2>2. s.datasets = f.datasets /\ s.filters = SpeltAll(f.filters, {"column"})
      BY <1>5
    <2> QED BY <1>1, <1>4, <1>6, <2>1, <2>2 DEF Ordinary
  <1> QED BY <1>7 DEF q, r, body, wish

\* Without a deletion the datasets are loaded in order, and what is counted or answered
\* is the plan of the whole query.
WholeInv ==
    LET ds == query.datasets
        before == IF k = 0 THEN 0 ELSE k - 1
        compiled == Planned(query)
    IN  /\ \A d \in Ids : status[d] \in {"READY", "PROCESSING"}
        /\ pc \in {"form", "require"} => k = 0 /\ loads = <<>>
        /\ pc \in Loads => k \in 0..Len(ds) /\ loads = Loaded(ds, before)
        /\ pc \in Compiled => loads = Full(ds)
        /\ pc = "count" => /\ Binds(compiled) /\ Reads(compiled) \subseteq cached
                           /\ rows \in Pages(compiled)
        /\ Answered => loads = Full(ds) /\ Sound(query) /\ Counted(answer, query)

TotalInv ==
    /\ Answered => via # "workspace"
    /\ via # "workspace" =>
          /\ pc \notin {"form", "done"} => Ordinary(query)
          /\ Touched = {} => WholeInv

LEMMA TotalInit == Init => TotalInv
  <1> SUFFICES ASSUME Init PROVE TotalInv
    OBVIOUS
  <1>1. pc = "form" /\ k = 0 /\ loads = <<>> /\ answer = Null
    BY DEF Init
  <1>2. \A d \in Ids : status[d] \in {"READY", "PROCESSING"}
    BY DEF Init
  <1> QED BY <1>1, <1>2 DEF TotalInv, WholeInv, Loads, Compiled, Answered

\* A refusal has no total.
LEMMA WholeRefused ==
    ASSUME WholeInv, NEW code, Refuse(code),
           \A d \in Ids : status'[d] \in {"READY", "PROCESSING"}
    PROVE  WholeInv'
  <1>1. pc' = "done" /\ ~Answered'
    BY DEF Refuse, Answered
  <1> QED BY <1>1 DEF WholeInv, Loads, Compiled

LEMMA TotalNext == QueryInv /\ ServedInv /\ TotalInv /\ [Next]_vars => TotalInv'
  <1> SUFFICES ASSUME QueryInv, ServedInv, TotalInv, [Next]_vars PROVE TotalInv'
    OBVIOUS
  <1>1. Touched' = {} => UNCHANGED deletions /\ Touched = {}
    BY DeletionsNext
  <1>2. /\ via = "workspace" => UNCHANGED via /\ pc \notin Handling
        /\ UNCHANGED via
        /\ pc \in Analysing => via = "workspace"
        /\ answer # Null => pc = "done"
    BY DEF QueryInv, Handling, Analysing, Next, RunInStudio, CallApi, Send, RequireDataset,
       LoadSchema,
           AcquireLocalPath, ListColumns, CompileQuery, RunData, RunCount, AskAnalysis,
           RequireDatasetOwner, ListAnalysed, AssertReady, RunStatement, ServeCall, DeleteObject,
           FinishProcessing, ReleaseLocalPath, DeleteRow, vars
  <1>3. CASE via = "workspace"
    <2>1. ~Answered
      BY <1>3 DEF TotalInv
    <2>2. ~(\/ RunInStudio \/ CallApi \/ RequireDataset \/ LoadSchema \/ AcquireLocalPath
            \/ ListColumns \/ CompileQuery \/ RunData \/ RunCount)
      BY <1>2, <1>3 DEF RunInStudio, CallApi, RequireDataset, LoadSchema, AcquireLocalPath,
                        ListColumns, CompileQuery, RunData, RunCount, Handling
    <2>3. ASSUME AskAnalysis \/ RequireDatasetOwner \/ ListAnalysed \/ AssertReady \/ UNCHANGED vars
          PROVE  ~Answered'
      <3>1. UNCHANGED answer \/ answer'.kind = "refused"
        BY <2>3 DEF AskAnalysis, RequireDatasetOwner, ListAnalysed, AssertReady, Refuse,
           vars, serving
      <3> QED BY <2>1, <3>1 DEF Answered
    <2>4. ASSUME RunStatement PROVE ~Answered'
      <3>1. UNCHANGED answer \/ answer'.kind \in {"refused", "analysis"}
        BY <2>4 DEF RunStatement, ServeCall, Refuse
      <3> QED BY <2>1, <3>1 DEF Answered
    <2>5. ASSUME \/ \E d \in Range(form.datasets) : DeleteObject(d) \/ FinishProcessing(d)
                 \/ \E i \in DOMAIN deletions : ReleaseLocalPath(i) \/ DeleteRow(i)
          PROVE  ~Answered'
      <3>1. UNCHANGED answer
        BY <2>5 DEF DeleteObject, FinishProcessing, ReleaseLocalPath, DeleteRow, serving
      <3> QED BY <2>1, <3>1 DEF Answered
    <2>6. ~Answered'
      BY <2>2, <2>3, <2>4, <2>5 DEF Next
    <2> QED BY <1>2, <1>3, <2>6 DEF TotalInv
  <1> SUFFICES ASSUME via # "workspace"
               PROVE  /\ pc' \notin {"form", "done"} => Ordinary(query')
                      /\ Touched' = {} => WholeInv'
    BY <1>2, <1>3 DEF TotalInv
  <1>4. /\ pc \notin {"form", "done"} => Ordinary(query)
        /\ Touched' = {} => WholeInv
        /\ pc # "done" => answer = Null
        /\ form \in Forms /\ "call" \notin DOMAIN form
    BY <1>1, <1>2 DEF TotalInv, QueryInv
  <1>5. CASE RunInStudio \/ CallApi
    <2>1. /\ pc = "form" /\ UNCHANGED <<k, loads, status>>
          /\ query' \in {Parsed(BuildDataMartQuery(form)), Parsed(ApiBody(form))}
          /\ \/ pc' = "require" /\ UNCHANGED answer /\ SchemaTakes(query')
             \/ pc' = "done" /\ Refuse("VALIDATION_ERROR")
      BY <1>5 DEF RunInStudio, CallApi, Send, Refuse, storage
    <2>2. pc' # "done" => Ordinary(query')
      BY <1>4, <2>1, AskedIsOrdinary
    <2>3. ASSUME Touched' = {} PROVE WholeInv'
      <3>1. CASE pc' = "require" /\ UNCHANGED answer
        BY <1>4, <2>1, <2>3, <3>1 DEF WholeInv, Loads, Compiled, Answered
      <3>2. CASE Refuse("VALIDATION_ERROR")
        <4>1. WholeInv /\ \A d \in Ids : status'[d] \in {"READY", "PROCESSING"}
          BY <1>4, <2>1, <2>3 DEF WholeInv
        <4> QED BY <3>2, <4>1, WholeRefused
      <3> QED BY <2>1, <3>1, <3>2
    <2> QED BY <2>2, <2>3
  <1>6. CASE RequireDataset
    <2>1. pc = "require" /\ UNCHANGED <<query, k, loads, status>>
      BY <1>6 DEF RequireDataset, storage
    <2>2. Ordinary(query)
      BY <1>4, <2>1
    <2>3. ASSUME Touched' = {} PROVE WholeInv'
      <3>1. WholeInv /\ k = 0 /\ loads = <<>>
        BY <1>4, <2>1, <2>3 DEF WholeInv
      <3>2. CASE pc' = "row" /\ UNCHANGED answer
        <4>1. 0 \in 0..Len(query.datasets) /\ loads = Loaded(query.datasets, 0)
          <5>1. Len(query.datasets) \in Nat
            BY <2>2, LoadedIs DEF Ordinary
          <5> QED BY <3>1, <5>1, LoadedNone
        <4> QED BY <1>4, <2>1, <3>1, <3>2, <4>1 DEF WholeInv, Loads, Compiled, Answered
      <3>3. CASE \E code \in {"DATASET_NOT_FOUND", "NOT_READY"} : Refuse(code)
        BY <2>1, <3>1, <3>3, WholeRefused DEF WholeInv
      <3> QED BY <1>6, <3>2, <3>3 DEF RequireDataset, Usable
    <2> QED BY <2>1, <2>2, <2>3
  <1>7. CASE LoadSchema \/ AcquireLocalPath
    <2>1. /\ pc \in {"row", "file"} /\ UNCHANGED <<query, k, loads, status>>
          /\ \/ \E code \in {"DATASET_NOT_FOUND", "NOT_READY", "INTERNAL_ERROR"} : Refuse(code)
             \/ pc' \in {"file", "columns"} /\ UNCHANGED answer
      BY <1>7 DEF LoadSchema, AcquireLocalPath, Usable, storage
    <2>2. Ordinary(query)
      BY <1>4, <2>1
    <2>3. ASSUME Touched' = {} PROVE WholeInv'
      <3>1. WholeInv
        BY <1>4, <2>3
      <3>2. CASE pc' \in {"file", "columns"} /\ UNCHANGED answer
        BY <1>4, <2>1, <3>1, <3>2 DEF WholeInv, Loads, Compiled, Answered
      <3>3. CASE \E code \in {"DATASET_NOT_FOUND", "NOT_READY", "INTERNAL_ERROR"} : Refuse(code)
        BY <2>1, <3>1, <3>3, WholeRefused DEF WholeInv
      <3> QED BY <2>1, <3>2, <3>3
    <2> QED BY <2>1, <2>2, <2>3
  <1>8. CASE ListColumns
    <2>1. pc = "columns" /\ UNCHANGED <<query, answer, status>>
      BY <1>8 DEF ListColumns, storage
    <2>2. Ordinary(query)
      BY <1>4, <2>1
    <2>3. ASSUME Touched' = {} PROVE WholeInv'
      <3> DEFINE ds == query.datasets
                 n == Len(ds)
      <3>1. /\ WholeInv /\ answer = Null
            /\ k \in 0..n /\ loads = Loaded(ds, IF k = 0 THEN 0 ELSE k - 1)
        BY <1>4, <2>1, <2>3 DEF WholeInv, Loads
      <3>2. n \in Nat \ {0} /\ \A i \in 1..n : ds[i] \in Ids
        <4>1. n \in Nat /\ \A i \in 1..n : ds[i] \in Ids
          BY <2>2, LoadedIs DEF Ordinary, Ids
        <4>2. n # 0
          BY <2>2 DEF Ordinary, IsSelection
        <4> QED BY <4>1, <4>2
      <3>3. Loading = ds[IF k = 0 THEN 1 ELSE k] /\ status[Loading] # "gone"
        <4>1. Loading = ds[IF k = 0 THEN 1 ELSE k]
          BY DEF Loading
        <4>2. (IF k = 0 THEN 1 ELSE k) \in 1..n
          BY <3>1, <3>2
        <4>3. Loading \in Ids
          BY <3>2, <4>1, <4>2
        <4> QED BY <3>1, <4>1, <4>3 DEF WholeInv
      <3>4. loads' = IF k = 0 THEN loads ELSE Append(loads, [id |-> Loading, types |-> Types[Loading]])
        BY <1>8, <3>3 DEF ListColumns
      <3>5. loads' = Loaded(ds, k)
        <4>1. CASE k = 0
          BY <3>1, <3>4, <4>1
        <4>2. CASE k # 0
          <5>1. k \in 1..n /\ IsSelection(ds)
            BY <2>2, <3>1, <3>2, <4>2 DEF Ordinary
          <5>2. Append(Loaded(ds, k - 1), [id |-> ds[k], types |-> Types[ds[k]]]) = Loaded(ds, k)
            BY <5>1, LoadedNext
          <5> QED BY <3>1, <3>3, <3>4, <4>2, <5>2
        <4> QED BY <4>1, <4>2
      <3>6. CASE k = n
        <4>1. pc' = "compile" /\ loads' = Full(ds)
          BY <1>8, <3>5, <3>6 DEF ListColumns, Full
        <4> HIDE DEF n
        <4> QED BY <2>1, <3>1, <4>1 DEF WholeInv, Loads, Compiled, Answered
      <3>7. CASE k # n
        <4>1. pc' = "row" /\ k' = k + 1 /\ k' \in 0..n /\ k' # 0 /\ k' - 1 = k
          BY <1>8, <3>1, <3>2, <3>7 DEF ListColumns
        <4> QED BY <2>1, <3>1, <3>5, <4>1 DEF WholeInv, Loads, Compiled, Answered
      <3> QED BY <3>6, <3>7
    <2> QED BY <2>1, <2>2, <2>3
  <1>9. CASE CompileQuery
    <2>1. pc = "compile" /\ UNCHANGED <<query, k, loads, status>>
      BY <1>9 DEF CompileQuery, storage
    <2>2. Ordinary(query)
      BY <1>4, <2>1
    <2>3. ASSUME Touched' = {} PROVE WholeInv'
      <3>1. WholeInv /\ answer = Null /\ loads = Full(query.datasets)
        BY <1>4, <2>1, <2>3 DEF WholeInv, Compiled
      <3>2. CASE pc' = "run" /\ UNCHANGED answer
        BY <2>1, <3>1, <3>2 DEF WholeInv, Loads, Compiled, Answered
      <3>3. CASE Refuse(QueryFault(query, loads))
        BY <2>1, <3>1, <3>3, WholeRefused DEF WholeInv
      <3> QED BY <1>9, <3>2, <3>3 DEF CompileQuery
    <2> QED BY <2>1, <2>2, <2>3
  <1>10. CASE RunData
    <2>1. pc = "run" /\ UNCHANGED <<query, k, loads, plan, status, cached>>
      BY <1>10 DEF RunData, storage
    <2>2. Ordinary(query)
      BY <1>4, <2>1
    <2>3. ASSUME Touched' = {} PROVE WholeInv'
      <3>1. WholeInv /\ answer = Null /\ loads = Full(query.datasets)
        BY <1>4, <2>1, <2>3 DEF WholeInv, Compiled
      <3>2. QueryFault(query, loads) = Fine /\ plan = Planned(query)
        BY <2>1, <3>1 DEF QueryInv, Planned
      <3>3. CASE Binds(plan) /\ Reads(plan) \subseteq cached
        <4>1. Sound(query)
          BY <2>2, <3>1, <3>2, <3>3 DEF Sound, Ordinary
        <4>2. PICK page \in Pages(plan) :
                 /\ rows' = page
                 /\ IF Len(page) < ClampLimit(query.limit)
                    THEN Answer(page, ClampOffset(query.offset) + Len(page))
                    ELSE pc' = "count" /\ UNCHANGED answer
          BY <1>10, <3>3 DEF RunData
        <4>3. CASE Len(page) < ClampLimit(query.limit)
          <5>1. Answer(page, ClampOffset(query.offset) + Len(page))
            BY <4>2, <4>3
          <5>2. Counted(answer', query)
            BY <2>2, <3>1, <3>2, <4>1, <4>3, <5>1, AnswerCounts DEF Ordinary
          <5>3. pc' = "done"
            BY <5>1 DEF Answer
          <5> QED BY <2>1, <3>1, <4>1, <5>2, <5>3 DEF WholeInv, Loads, Compiled
        <4>4. CASE ~(Len(page) < ClampLimit(query.limit))
          <5>1. pc' = "count" /\ UNCHANGED answer /\ rows' \in Pages(plan)
            BY <4>2, <4>4
          <5> QED BY <2>1, <3>1, <3>2, <3>3, <5>1 DEF WholeInv, Loads, Compiled, Answered
        <4> QED BY <4>3, <4>4
      <3>4. CASE ~(Binds(plan) /\ Reads(plan) \subseteq cached)
        <4>1. Refuse("QUERY_FAILED")
          BY <1>10, <3>4 DEF RunData
        <4> QED BY <2>1, <3>1, <4>1, WholeRefused DEF WholeInv
      <3> QED BY <3>3, <3>4
    <2> QED BY <2>1, <2>2, <2>3
  <1>11. CASE RunCount
    <2>1. pc = "count" /\ UNCHANGED <<query, k, loads, plan, status, cached>>
      BY <1>11 DEF RunCount, storage
    <2>2. Ordinary(query)
      BY <1>4, <2>1
    <2>3. ASSUME Touched' = {} PROVE WholeInv'
      <3>1. WholeInv /\ answer = Null /\ loads = Full(query.datasets)
        BY <1>4, <2>1, <2>3 DEF WholeInv, Compiled
      <3>2. QueryFault(query, loads) = Fine /\ plan = Planned(query)
        BY <2>1, <3>1 DEF QueryInv, Planned
      <3>3. Binds(plan) /\ Reads(plan) \subseteq cached /\ rows \in Pages(plan)
        BY <2>1, <3>1, <3>2 DEF WholeInv
      <3>4. Sound(query)
        BY <2>2, <3>1, <3>2, <3>3 DEF Sound, Ordinary
      <3>5. Answer(rows, Total(plan))
        BY <1>11, <3>3 DEF RunCount
      <3>6. Counted(answer', query)
        BY <2>2, <3>1, <3>2, <3>3, <3>4, <3>5, AnswerCounts DEF Ordinary
      <3>7. pc' = "done"
        BY <3>5 DEF Answer
      <3> QED BY <2>1, <3>1, <3>4, <3>6, <3>7 DEF WholeInv, Loads, Compiled
    <2> QED BY <2>1, <2>2, <2>3
  <1>12. CASE \/ AskAnalysis \/ RequireDatasetOwner \/ ListAnalysed \/ AssertReady \/ RunStatement
    BY <1>2, <1>12 DEF AskAnalysis, RequireDatasetOwner, ListAnalysed, AssertReady,
       RunStatement, ServeCall,
                       Analysing
  <1>13. CASE \/ \E d \in Range(form.datasets) : DeleteObject(d) \/ FinishProcessing(d)
              \/ \E i \in DOMAIN deletions : ReleaseLocalPath(i) \/ DeleteRow(i)
    <2>1. UNCHANGED <<pc, query, k, loads, rows, answer>>
      BY <1>13 DEF DeleteObject, FinishProcessing, ReleaseLocalPath, DeleteRow, serving
    <2>2. ASSUME Touched' = {} PROVE WholeInv'
      <3>1. UNCHANGED deletions /\ Touched = {} /\ WholeInv
        BY <1>1, <1>4, <2>2
      <3>2. ~\E i \in DOMAIN deletions : ReleaseLocalPath(i) \/ DeleteRow(i)
        BY <3>1 DEF Touched
      <3>3. ~\E d \in Range(form.datasets) : DeleteObject(d)
        <4>1. ASSUME NEW d, DeleteObject(d) PROVE FALSE
          <5>1. deletions' = Append(deletions, [of |-> d, next |-> "cache"])
            BY <4>1 DEF DeleteObject
          <5>2. Len(deletions') = Len(deletions) + 1 /\ Len(deletions) \in Nat
            BY <5>1 DEF ServedInv
          <5> QED BY <3>1, <5>2
        <4> QED BY <4>1
      <3>4. PICK d \in Range(form.datasets) : FinishProcessing(d)
        BY <1>13, <3>2, <3>3
      <3>5. cached' = cached /\ \A e \in Ids : status'[e] \in {"READY", "PROCESSING"}
        BY <3>1, <3>4 DEF FinishProcessing, WholeInv
      <3> QED BY <2>1, <3>1, <3>5 DEF WholeInv, Loads, Compiled, Answered
    <2> QED BY <1>4, <2>1, <2>2
  <1>14. CASE UNCHANGED vars
    <2>1. UNCHANGED <<pc, query, k, loads, rows, answer, status, cached>>
      BY <1>14 DEF vars, serving, storage
    <2>2. Touched' = {} => WholeInv'
      BY <1>4, <2>1 DEF WholeInv, Loads, Compiled, Answered
    <2> QED BY <1>4, <2>1, <2>2
  <1> QED BY <1>5, <1>6, <1>7, <1>8, <1>9, <1>10, <1>11, <1>12, <1>13, <1>14 DEF Next

LEMMA InvTotals == QueryInv /\ TotalInv => TotalIsRight
  <1> SUFFICES ASSUME QueryInv, TotalInv, Answered, \A f \in Formulas : Plain(f),
                      Literal(query.filters, ColumnTypes),
                      ~(answer.rows = <<>> /\ query.offset > 0), Touched = {}
               PROVE  /\ answer.total = Cardinality(DOMAIN AskedGroups)
                      /\ answer.truncated = (Len(answer.rows) < Cardinality(DOMAIN AskedGroups))
    BY DEF TotalIsRight
  <1>1. loads = Full(query.datasets) /\ Sound(query) /\ Counted(answer, query)
    BY DEF TotalInv, WholeInv
  <1>2. Cardinality(Groups(Planned(query))) = Cardinality(DOMAIN AskedGroups)
    BY <1>1, GroupsCount
  <1> QED BY <1>1, <1>2 DEF Counted

\* Whatever the datasets, their rows and the query, the total of an answer is the number of
\* the groups of the rows that fit the joins and that the filters keep, and the answer is
\* called truncated when it has fewer rows: no join, filter or page loses or doubles a group
\* on its way through the statement (compile, runCompiled, remapRows).  Left out are a page
\* behind the last group, a dataset whose file has gone, and a filter that looks for a text
\* that escapeLike changes.
THEOREM TotalsAreRight == Spec => []TotalIsRight
  <1> QED BY QueryInit, QueryNext, ServedInit, ServedNext, TotalInit, TotalNext, InvTotals,
             PTL DEF Spec
================================================================================
