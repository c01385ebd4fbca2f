---------------------------- MODULE AssistantProofs ----------------------------
(***************************************************************************)
(* The assistant.  What a session keeps, for any number of turns and       *)
(* sessions, and any limits; what the page shows of it, for any number of  *)
(* tabs; and what holds of the documents it answers from, for any sets of  *)
(* documents and clients and any choice of faults.                         *)
(***************************************************************************)
EXTENDS ChatPage, Ingestion, SequenceTheorems, FiniteSetTheorems, WellFoundedInduction, TLAPS

-----------------------------------------------------------------------------
(* The inductive invariant                                                   *)

Underway == {"classify", "execute", "generate"}

\* kept is the end of all.
Ends(kept, all) ==
    /\ Len(kept) <= Len(all)
    /\ \A i \in 1..Len(kept) : kept[i] = all[Len(all) - Len(kept) + i]

Fits(s) ==
    /\ Ends(messages[s], said[s])
    /\ Len(messages[s]) >= MaxMessages \/ messages[s] = said[s]
    /\ Len(messages[s]) <= MaxMessages + Cardinality(InFlight(s))

IInv == TypeOK /\ \A s \in Sessions : Fits(s)

-----------------------------------------------------------------------------
(* Sequences                                                                 *)

\* Trimming leaves the end of a sequence, of the length asked for if there is so much.
LEMMA LastOfEnds ==
    ASSUME NEW S, NEW seq \in Seq(S), NEW n \in Nat
    PROVE  /\ LastOf(seq, n) \in Seq(S)
           /\ Len(LastOf(seq, n)) = IF Len(seq) <= n THEN Len(seq) ELSE n
           /\ Ends(LastOf(seq, n), seq)
  <1>1. Len(seq) \in Nat
    BY LenProperties
  <1>2. CASE Len(seq) <= n
    BY <1>1, <1>2 DEF LastOf, Ends
  <1>3. CASE ~(Len(seq) <= n)
    <2> DEFINE from == Len(seq) - n + 1
    <2>1. from \in 1..(Len(seq) + 1) /\ Len(seq) \in (from - 1)..Len(seq)
      BY <1>1, <1>3
    <2>2. LastOf(seq, n) = SubSeq(seq, from, Len(seq))
      BY <1>3 DEF LastOf
    <2>3. /\ SubSeq(seq, from, Len(seq)) \in Seq(S)
          /\ Len(SubSeq(seq, from, Len(seq)))
                 = IF from <= Len(seq) THEN Len(seq) - from + 1 ELSE 0
          /\ \A i \in 1..(Len(seq) - from + 1) :
                 SubSeq(seq, from, Len(seq))[i] = seq[from + i - 1]
      BY <2>1, SubSeqProperties
    <2>4. Len(LastOf(seq, n)) = n
      BY <1>1, <1>3, <2>2, <2>3
    <2>5. \A i \in 1..n : LastOf(seq, n)[i] = seq[Len(seq) - n + i]
      BY <1>1, <1>3, <2>2, <2>3
    <2> QED BY <1>1, <1>3, <2>2, <2>3, <2>4, <2>5 DEF Ends
  <1> QED BY <1>2, <1>3

\* What is the end of a sequence is its last part of that length.
LEMMA EndsIsLast ==
    ASSUME NEW S, NEW kept \in Seq(S), NEW all \in Seq(S), Ends(kept, all)
    PROVE  kept = LastOf(all, Len(kept))
  <1> DEFINE last == LastOf(all, Len(kept))
  <1>1. Len(kept) \in Nat /\ Len(all) \in Nat
    BY LenProperties
  <1>2. last \in Seq(S) /\ Ends(last, all) /\ Len(last) = Len(kept)
    BY <1>1, LastOfEnds DEF Ends
  <1>3. \A i \in 1..Len(kept) : kept[i] = last[i]
    BY <1>2 DEF Ends
  <1>4. kept = last
    <2> HIDE DEF last
    <2> QED BY <1>2, <1>3, SeqEqual
  <1> QED BY <1>4

\* A message said is appended to both.
LEMMA AppendEnds ==
    ASSUME NEW S, NEW kept \in Seq(S), NEW all \in Seq(S), NEW m \in S, Ends(kept, all)
    PROVE  Ends(Append(kept, m), Append(all, m))
  <1> DEFINE k == Append(kept, m)
             a == Append(all, m)
  <1>1. Len(kept) \in Nat /\ Len(all) \in Nat
    BY LenProperties
  <1>2. /\ Len(k) = Len(kept) + 1 /\ Len(a) = Len(all) + 1
        /\ \A i \in 1..Len(kept) : k[i] = kept[i]
        /\ \A i \in 1..Len(all) : a[i] = all[i]
        /\ k[Len(kept) + 1] = m /\ a[Len(all) + 1] = m
    BY AppendProperties
  <1>3. Ends(k, a)
    <2> HIDE DEF k, a
    <2>1. ASSUME NEW i \in 1..Len(kept) PROVE k[i] = a[Len(a) - Len(k) + i]
      <3>1. /\ Len(all) - Len(kept) + i \in 1..Len(all)
            /\ kept[i] = all[Len(all) - Len(kept) + i]
        BY <1>1 DEF Ends
      <3>2. Len(a) - Len(k) + i = Len(all) - Len(kept) + i
        BY <1>1, <1>2
      <3> QED BY <1>2, <3>1, <3>2
    <2>2. /\ k[Len(k)] = a[Len(a)] /\ Len(a) - Len(k) + Len(k) = Len(a)
          /\ Len(k) <= Len(a) /\ Len(kept) <= Len(all)
      BY <1>1, <1>2 DEF Ends
    <2>3. ASSUME NEW i \in 1..Len(k) PROVE k[i] = a[Len(a) - Len(k) + i]
      <3>1. CASE i = Len(k)
        BY <2>2, <3>1
      <3>2. CASE i # Len(k)
        <4>1. i \in 1..Len(kept)
          BY <1>1, <1>2, <3>2
        <4> QED BY <2>1, <4>1
      <3> QED BY <3>1, <3>2
    <2> QED BY <2>2, <2>3 DEF Ends
  <1> QED BY <1>3

\* The end of an end is an end.
LEMMA EndsOfEnds ==
    ASSUME NEW S, NEW a \in Seq(S), NEW b \in Seq(S), NEW c \in Seq(S), Ends(a, b), Ends(b, c)
    PROVE  Ends(a, c)
  <1>1. Len(a) \in Nat /\ Len(b) \in Nat /\ Len(c) \in Nat
    BY LenProperties
  <1>2. ASSUME NEW i \in 1..Len(a)
        PROVE  a[i] = c[Len(c) - Len(a) + i]
    <2>1. Len(b) - Len(a) + i \in 1..Len(b) /\ a[i] = b[Len(b) - Len(a) + i]
      BY <1>1 DEF Ends
    <2>2. b[Len(b) - Len(a) + i] = c[Len(c) - Len(b) + (Len(b) - Len(a) + i)]
      BY <2>1 DEF Ends
    <2> QED BY <1>1, <2>1, <2>2
  <1> QED BY <1>1, <1>2 DEF Ends

-----------------------------------------------------------------------------
(* What is counted over a sequence                                           *)

\* Induction over the positions of a sequence: a set that has 0, and with a position the
\* next, has them all.  The least one it had not would follow one it has.
LessThan == {p \in Nat \X Nat : p[1] < p[2]}

LEMMA PositionInduction ==
    ASSUME NEW n \in Nat, NEW S, 0 \in S, \A i \in 1..n : i - 1 \in S => i \in S
    PROVE  \A i \in 0..n : i \in S
  <1> SUFFICES ASSUME (0..n) \ S # {} PROVE FALSE
    OBVIOUS
  <1> DEFINE left == (0..n) \ S
  <1>1. LessThan = OpToRel(<, Nat)
    BY DEF LessThan, OpToRel
  <1>2. IsWellFoundedOn(LessThan, Nat)
    BY <1>1, NatLessThanWellFounded
  <1>3. PICK i \in left : \A j \in left : <<j, i>> \notin LessThan
    <2>1. left \subseteq Nat /\ left # {}
      OBVIOUS
    <2> HIDE DEF left
    <2> QED BY <1>2, <2>1, WFMin
  <1>4. i \in 1..n /\ i - 1 \in Nat /\ i - 1 < i
    OBVIOUS
  <1>5. <<i - 1, i>> \in LessThan
    BY <1>4 DEF LessThan
  <1>6. i - 1 \in S
    BY <1>3, <1>4, <1>5
  <1> QED BY <1>4, <1>6

\* What is computed from one position to the next, up to the k-th, exists.
Computed(f, k, a, F) == f[0] = a /\ \A i \in 1..k : f[i] = F[i][f[i - 1]]

LEMMA Recursion ==
    ASSUME NEW n \in Nat, NEW V, NEW a \in V, NEW F \in [1..n -> [V -> V]]
    PROVE  \E f \in [0..n -> V] : Computed(f, n, a, F)
  <1> DEFINE Upto(k, f) == Computed(f, k, a, F)
             S == {k \in 0..n : \E f \in [0..k -> V] : Upto(k, f)}
  <1> USE DEF Computed
  <1>1. 0 \in S
    <2> DEFINE f == [i \in 0..0 |-> a]
    <2>1. f \in [0..0 -> V] /\ Upto(0, f)
      OBVIOUS
    <2> HIDE DEF f, Upto
    <2>2. \E g \in [0..0 -> V] : Upto(0, g)
      BY <2>1
    <2> QED BY <2>2
  <1>2. ASSUME NEW k \in 1..n, k - 1 \in S PROVE k \in S
    <2>1. PICK f \in [0..(k - 1) -> V] : Upto(k - 1, f)
      BY <1>2
    <2> DEFINE g == [i \in 0..k |-> IF i = k THEN F[k][f[k - 1]] ELSE f[i]]
    <2>2. f[k - 1] \in V /\ F[k][f[k - 1]] \in V
      OBVIOUS
    <2>3. g \in [0..k -> V]
      BY <2>2
    <2>4. Upto(k, g)
      <3>1. g[0] = a
        BY <2>1
      <3>2. ASSUME NEW i \in 1..k PROVE g[i] = F[i][g[i - 1]]
        <4>1. CASE i = k
          BY <4>1
        <4>2. CASE i # k
          <5>1. i \in 1..(k - 1) /\ i - 1 \in 0..(k - 1)
            BY <4>2
          <5>2. f[i] = F[i][f[i - 1]]
            BY <2>1, <5>1
          <5>3. g[i] = f[i] /\ g[i - 1] = f[i - 1]
            BY <4>2, <5>1
          <5> QED BY <5>2, <5>3
        <4> QED BY <4>1, <4>2
      <3> QED BY <3>1, <3>2
    <2> HIDE DEF g, Upto
    <2> QED BY <2>3, <2>4
  <1>3. n \in S
    <2> HIDE DEF S
    <2>1. \A i \in 0..n : i \in S
      BY <1>1, <1>2, PositionInduction
    <2>2. n \in 0..n
      OBVIOUS
    <2> QED BY <2>1, <2>2
  <1> QED BY <1>3

\* The weight of a sequence is the sum of its tokens.
Total(seq, Sum) ==
    /\ Sum \in [0..Len(seq) -> Nat]
    /\ Sum[0] = 0
    /\ \A i \in 1..Len(seq) : Sum[i] = Tokens[seq[i]] + Sum[i - 1]

LEMMA WeightIsTotal ==
    ASSUME NEW seq \in Seq(Messages)
    PROVE  \E Sum : Total(seq, Sum) /\ Weight(seq) = Sum[Len(seq)]
  <1> DEFINE n == Len(seq)
             F == [i \in 1..n |-> [x \in Nat |-> Tokens[seq[i]] + x]]
             Body(f) == [i \in 0..n |-> IF i = 0 THEN 0 ELSE Tokens[seq[i]] + f[i - 1]]
             sum == CHOOSE f : f = Body(f)
  <1>1. n \in Nat /\ \A i \in 1..n : Tokens[seq[i]] \in Nat
    BY TokensAssumption
  <1>2. F \in [1..n -> [Nat -> Nat]]
    BY <1>1
  <1>3. \A i \in 1..n, x \in Nat : F[i][x] = Tokens[seq[i]] + x
    OBVIOUS
  <1> HIDE DEF F
  <1>4. PICK f \in [0..n -> Nat] : f[0] = 0 /\ \A i \in 1..n : f[i] = F[i][f[i - 1]]
    <2>1. \E f \in [0..n -> Nat] : Computed(f, n, 0, F)
      <3> HIDE DEF n
      <3> QED BY <1>1, <1>2, Recursion
    <2> QED BY <2>1 DEF Computed
  <1>5. f = Body(f)
    <2>1. ASSUME NEW i \in 1..n PROVE f[i] = Tokens[seq[i]] + f[i - 1]
      <3>1. i - 1 \in 0..n
        BY <1>1
      <3>2. f[i - 1] \in Nat
        BY <1>4, <3>1
      <3> QED BY <1>3, <1>4, <3>2
    <2>2. \A i \in 0..n : f[i] = Body(f)[i]
      BY <1>1, <1>4, <2>1
    <2> QED BY <1>4, <2>2
  <1>6. sum = Body(sum)
    BY <1>5
  <1>7. Weight(seq) = sum[n]
    BY DEF Weight
  <1>8. DOMAIN sum = 0..n /\ sum[0] = 0 /\ \A i \in 1..n : sum[i] = Tokens[seq[i]] + sum[i - 1]
    <2> HIDE DEF sum
    <2> QED BY <1>1, <1>6
  <1>9. sum \in [0..n -> Nat]
    <2> DEFINE S == {i \in 0..n : sum[i] \in Nat}
    <2> HIDE DEF sum
    <2>1. 0 \in S
      BY <1>1, <1>8
    <2>2. ASSUME NEW i \in 1..n, i - 1 \in S PROVE i \in S
      <3>1. /\ sum[i] = Tokens[seq[i]] + sum[i - 1]
            /\ sum[i - 1] \in Nat /\ Tokens[seq[i]] \in Nat
        BY <1>1, <1>8, <2>2
      <3>2. sum[i] \in Nat
        BY <3>1
      <3> QED BY <3>2
    <2>3. \A i \in 0..n : i \in S
      <3> HIDE DEF S
      <3> QED BY <1>1, <2>1, <2>2, PositionInduction
    <2>4. sum = [i \in 0..n |-> sum[i]]
      BY <1>6
    <2> QED BY <2>3, <2>4
  <1> QED
    <2> HIDE DEF sum
    <2> QED BY <1>7, <1>8, <1>9 DEF Total

-----------------------------------------------------------------------------
(* The messages of a context                                                 *)

\* What is left to say from each position on, in tokens.
Counted(seq, spent) ==
    /\ spent \in [1..(Len(seq) + 1) -> Nat]
    /\ spent[Len(seq) + 1] = 0
    /\ \A i \in 1..Len(seq) : spent[i] = Tokens[seq[i]] + spent[i + 1]

LEMMA CountingExists ==
    ASSUME NEW seq \in Seq(Messages), NEW spent,
           spent = CHOOSE f : f = [i \in 1..(Len(seq) + 1) |->
                       IF i > Len(seq) THEN 0 ELSE Tokens[seq[i]] + f[i + 1]]
    PROVE  Counted(seq, spent)
  <1> DEFINE n == Len(seq)
             F == [i \in 1..n |-> [x \in Nat |-> Tokens[seq[n + 1 - i]] + x]]
             Body(f) == [i \in 1..(n + 1) |-> IF i > n THEN 0 ELSE Tokens[seq[i]] + f[i + 1]]
  <1>1. n \in Nat /\ \A i \in 1..n : Tokens[seq[i]] \in Nat /\ n + 1 - i \in 1..n
    BY TokensAssumption
  <1>2. F \in [1..n -> [Nat -> Nat]]
    BY <1>1
  <1>3. \A i \in 1..n, x \in Nat : F[i][x] = Tokens[seq[n + 1 - i]] + x
    OBVIOUS
  <1>4. PICK f \in [0..n -> Nat] : f[0] = 0 /\ \A i \in 1..n : f[i] = F[i][f[i - 1]]
    <2>1. \E f \in [0..n -> Nat] : Computed(f, n, 0, F)
      <3> HIDE DEF n, F
      <3> QED BY <1>1, <1>2, Recursion
    <2> QED BY <2>1 DEF Computed
  <1> DEFINE g == [i \in 1..(n + 1) |-> f[n + 1 - i]]
  <1> HIDE DEF F
  <1>5. g = Body(g)
    <2>1. ASSUME NEW i \in 1..(n + 1) PROVE g[i] = Body(g)[i]
      <3>1. CASE i = n + 1
        BY <1>1, <1>4, <3>1
      <3>2. CASE i # n + 1
        <4>1. /\ i \in 1..n /\ n + 1 - i \in 1..n /\ n - i \in 0..n /\ n + 1 - i - 1 = n - i
              /\ n + 1 - (n + 1 - i) = i /\ n + 1 - (i + 1) = n - i /\ i + 1 \in 1..(n + 1)
          BY <1>1, <3>2
        <4>2. f[n + 1 - i] = F[n + 1 - i][f[n - i]] /\ f[n - i] \in Nat
          <5>1. f[n + 1 - i] = F[n + 1 - i][f[n + 1 - i - 1]]
            BY <1>4, <4>1
          <5> HIDE DEF n
          <5> QED BY <1>4, <4>1, <5>1
        <4>3. f[n + 1 - i] = Tokens[seq[i]] + f[n - i]
          BY <1>3, <4>1, <4>2
        <4> QED BY <4>1, <4>3
      <3> QED BY <3>1, <3>2
    <2>2. DOMAIN g = 1..(n + 1) /\ DOMAIN Body(g) = 1..(n + 1)
      OBVIOUS
    <2>3. g = [i \in 1..(n + 1) |-> g[i]] /\ Body(g) = [i \in 1..(n + 1) |-> Body(g)[i]]
      OBVIOUS
    <2> HIDE DEF g, Body
    <2> QED BY <2>1, <2>3
  <1>6. spent = Body(spent)
    <2>1. spent = CHOOSE h : h = Body(h)
      OBVIOUS
    <2> HIDE DEF Body, g
    <2> QED BY <1>5, <2>1
  <1>7. /\ DOMAIN spent = 1..(n + 1) /\ spent[n + 1] = 0
        /\ \A i \in 1..n : spent[i] = Tokens[seq[i]] + spent[i + 1]
    <2>1. \A i \in 1..(n + 1) : spent[i] = IF i > n THEN 0 ELSE Tokens[seq[i]] + spent[i + 1]
      BY <1>6
    <2>2. DOMAIN spent = 1..(n + 1)
      BY <1>6
    <2>3. n + 1 \in 1..(n + 1) /\ n + 1 > n /\ \A i \in 1..n : i \in 1..(n + 1) /\ ~(i > n)
      BY <1>1
    <2> QED BY <2>1, <2>2, <2>3
  <1>8. \A i \in 1..(n + 1) : spent[i] \in Nat
    <2> DEFINE S == {k \in 0..n : spent[n + 1 - k] \in Nat}
    <2>1. 0 \in S
      BY <1>1, <1>7
    <2>2. ASSUME NEW k \in 1..n, k - 1 \in S PROVE k \in S
      <3>1. /\ n + 1 - k \in 1..n /\ (n + 1 - k) + 1 = n + 1 - (k - 1)
        BY <1>1
      <3>2. spent[n + 1 - k] = Tokens[seq[n + 1 - k]] + spent[n + 1 - (k - 1)]
        BY <1>7, <3>1
      <3>3. spent[n + 1 - (k - 1)] \in Nat /\ Tokens[seq[n + 1 - k]] \in Nat
        BY <1>1, <2>2, <3>1
      <3> QED BY <3>2, <3>3
    <2>3. \A k \in 0..n : k \in S
      <3> HIDE DEF S, n
      <3> QED BY <1>1, <2>1, <2>2, PositionInduction
    <2>4. ASSUME NEW i \in 1..(n + 1) PROVE spent[i] \in Nat
      <3>1. n + 1 - i \in 0..n /\ n + 1 - (n + 1 - i) = i
        BY <1>1
      <3> QED BY <2>3, <3>1
    <2> QED BY <2>4
  <1>9. spent \in [1..(n + 1) -> Nat]
    BY <1>6, <1>8
  <1> QED BY <1>7, <1>9 DEF Counted

\* What is left from a position on is the weight of the messages from there.
LEMMA SpentIsWeight ==
    ASSUME NEW seq \in Seq(Messages), NEW spent, Counted(seq, spent), NEW k \in 1..Len(seq)
    PROVE  Weight(SubSeq(seq, k, Len(seq))) = spent[k]
  <1> DEFINE n == Len(seq)
             rest == SubSeq(seq, k, n)
             m == n - k + 1
  <1>1. /\ n \in Nat /\ m \in Nat /\ rest \in Seq(Messages) /\ Len(rest) = m
        /\ \A i \in 1..m : rest[i] = seq[k + i - 1]
    BY SubSeqProperties, LenProperties
  <1> HIDE DEF rest
  <1>2. PICK Sum : Total(rest, Sum) /\ Weight(rest) = Sum[m]
    BY <1>1, WeightIsTotal
  <1> DEFINE S == {i \in 0..m : Sum[i] = spent[k] - spent[k + i]}
  <1>3. /\ \A i \in 1..m : Sum[i] = Tokens[rest[i]] + Sum[i - 1]
        /\ \A i \in 0..m : Sum[i] \in Nat /\ spent[k + i] \in Nat
        /\ Sum[0] = 0
    <2>1. /\ \A i \in 1..m : Sum[i] = Tokens[rest[i]] + Sum[i - 1]
          /\ \A i \in 0..m : Sum[i] \in Nat
          /\ Sum[0] = 0
      <3> HIDE DEF m
      <3> QED BY <1>1, <1>2 DEF Total
    <2>2. ASSUME NEW i \in 0..m PROVE spent[k + i] \in Nat
      <3>1. k + i \in 1..(n + 1)
        BY <1>1
      <3> QED BY <3>1 DEF Counted
    <2> QED BY <2>1, <2>2
  <1>4. 0 \in S
    <2>1. 0 \in 0..m /\ k + 0 = k
      BY <1>1
    <2>2. spent[k] \in Nat
      BY <1>3, <2>1
    <2>3. Sum[0] = spent[k] - spent[k + 0]
      <3>1. spent[k] - spent[k] = 0
        BY <2>2
      <3> QED BY <1>3, <2>1, <3>1
    <2> QED BY <2>1, <2>3
  <1>5. ASSUME NEW i \in 1..m, i - 1 \in S PROVE i \in S
    <2>1. k + i - 1 \in 1..n /\ (k + i - 1) + 1 = k + i /\ k + (i - 1) = k + i - 1
      BY <1>1
    <2>2. spent[k + i - 1] = Tokens[seq[k + i - 1]] + spent[k + i]
      BY <2>1 DEF Counted
    <2>3. Tokens[seq[k + i - 1]] \in Nat
      BY <2>1, TokensAssumption
    <2>4. Sum[i] = Tokens[seq[k + i - 1]] + (spent[k] - spent[k + i - 1])
      BY <1>1, <1>3, <1>5, <2>1
    <2>5. spent[k] \in Nat /\ spent[k + i] \in Nat /\ spent[k + i - 1] \in Nat
      <3>1. 0 \in 0..m /\ i \in 0..m /\ i - 1 \in 0..m /\ k + 0 = k
        BY <1>1
      <3> QED BY <1>3, <2>1, <3>1
    <2>6. i \in 0..m
      BY <1>1
    <2> HIDE DEF m, n
    <2> DEFINE a == spent[k]
               t == Tokens[seq[k + i - 1]]
               x == spent[k + i - 1]
               y == spent[k + i]
    <2>7. a \in Nat /\ t \in Nat /\ x \in Nat /\ y \in Nat /\ x = t + y /\ Sum[i] = t + (a - x)
      BY <2>2, <2>3, <2>4, <2>5
    <2>8. Sum[i] = a - y
      <3> HIDE DEF a, t, x, y
      <3> QED BY <2>7
    <2> QED BY <2>6, <2>8
  <1>6. m \in S
    <2> HIDE DEF S, m
    <2>1. \A i \in 0..m : i \in S
      BY <1>1, <1>4, <1>5, PositionInduction
    <2> QED BY <1>1, <2>1
  <1>7. k + m = n + 1 /\ spent[n + 1] = 0 /\ spent[k] \in Nat
    BY <1>1 DEF Counted
  <1> QED BY <1>2, <1>6, <1>7 DEF rest

\* The loop stops before the first message, from the newest back, that is above the budget.
Taken(recent, got, start, spent) ==
    /\ Counted(recent, spent)
    /\ start \in 1..Len(recent)
    /\ got = SubSeq(recent, start, Len(recent))
    /\ start = 1 \/ spent[start - 1] > Budget
    /\ \A j \in start..(Len(recent) - 1) : spent[j] <= Budget

LEMMA RelevantIsTaken ==
    ASSUME NEW seq \in Seq(Messages), LastOf(seq, ContextMessages) # <<>>,
           LastOf(seq, ContextMessages) \in Seq(Messages)
    PROVE  \E start, spent :
              Taken(LastOf(seq, ContextMessages), findRelevantMessages(seq), start, spent)
  <1> DEFINE recent == LastOf(seq, ContextMessages)
             n == Len(recent)
             spent == CHOOSE f : f = [i \in 1..(n + 1) |->
                          IF i > n THEN 0 ELSE Tokens[recent[i]] + f[i + 1]]
             Body(f) == [i \in 1..n |-> IF i = 1 \/ spent[i - 1] > Budget THEN i ELSE f[i - 1]]
             from == CHOOSE f : f = Body(f)
  <1>1. findRelevantMessages(seq) = SubSeq(recent, from[n], n)
    BY DEF findRelevantMessages
  <1>2. Counted(recent, spent)
    <2>1. recent \in Seq(Messages)
      OBVIOUS
    <2> HIDE DEF recent
    <2> QED BY <2>1, CountingExists
  <1>3. n \in Nat \ {0} /\ recent \in Seq(Messages)
    <2> HIDE DEF recent
    <2> QED BY EmptySeq, LenProperties DEF recent
  <1> HIDE DEF recent, spent
  <1>4. from = Body(from)
    <2> DEFINE F == [i \in 1..n |->
                   [x \in Int |-> IF i = 1 \/ spent[i - 1] > Budget THEN i ELSE x]]
    <2>1. n \in Nat /\ 0 \in Int /\ F \in [1..n -> [Int -> Int]]
      BY <1>3
    <2>2. \A i \in 1..n, x \in Int :
             F[i][x] = IF i = 1 \/ spent[i - 1] > Budget THEN i ELSE x
      OBVIOUS
    <2> HIDE DEF F
    <2>3. PICK f \in [0..n -> Int] : Computed(f, n, 0, F)
      <3> HIDE DEF n
      <3> QED BY <2>1, Recursion
    <2> DEFINE g == [i \in 1..n |-> f[i]]
    <2>4. ASSUME NEW i \in 1..n PROVE g[i] = Body(g)[i]
      <3>1. i - 1 \in 0..n
        BY <2>1
      <3>2. f[i - 1] \in Int
        BY <2>3, <3>1
      <3>3. f[i] = IF i = 1 \/ spent[i - 1] > Budget THEN i ELSE f[i - 1]
        BY <2>2, <2>3, <3>2 DEF Computed
      <3>4. i # 1 => i - 1 \in 1..n
        BY <2>1
      <3> QED BY <3>3, <3>4
    <2>5. g = [i \in 1..n |-> g[i]] /\ Body(g) = [i \in 1..n |-> Body(g)[i]]
      OBVIOUS
    <2>6. g = Body(g)
      <3> HIDE DEF g, Body
      <3> QED BY <2>4, <2>5
    <2> HIDE DEF Body, g
    <2> QED BY <2>6
  <1> HIDE DEF from
  <1>5. \A i \in 1..n : from[i] = IF i = 1 \/ spent[i - 1] > Budget THEN i ELSE from[i - 1]
    BY <1>4
  <1> DEFINE Right(i) == /\ from[i] \in 1..i
                         /\ from[i] = 1 \/ spent[from[i] - 1] > Budget
                         /\ \A j \in from[i]..(i - 1) : spent[j] <= Budget
             S == {i \in 0..n : i = 0 \/ Right(i)}
  <1>6. ASSUME NEW i \in 1..n, i - 1 \in S PROVE i \in S
    <2>1. CASE i = 1 \/ spent[i - 1] > Budget
      <3>1. from[i] = i
        BY <1>5, <2>1
      <3>2. Right(i)
        BY <2>1, <3>1
      <3> QED BY <3>2
    <2>2. CASE ~(i = 1 \/ spent[i - 1] > Budget)
      <3>1. from[i] = from[i - 1] /\ Right(i - 1)
        BY <1>5, <1>6, <2>2
      <3>2. spent[i - 1] <= Budget
        <4>1. i - 1 \in 1..(n + 1)
          BY <1>3, <2>2
        <4>2. spent[i - 1] \in Nat
          BY <1>2, <4>1 DEF Counted
        <4> QED BY <2>2, <4>2, TokensAssumption
      <3>3. Right(i)
        BY <3>1, <3>2
      <3> QED BY <3>3
    <2> QED BY <2>1, <2>2
  <1>7. Right(n)
    <2>1. n \in Nat /\ n # 0 /\ 0 \in S
      BY <1>3
    <2>2. \A i \in 0..n : i \in S
      <3> HIDE DEF S, n
      <3> QED BY <1>6, <2>1, PositionInduction
    <2> HIDE DEF Right
    <2> QED BY <2>1, <2>2
  <1> HIDE DEF n
  <1>8. Taken(recent, findRelevantMessages(seq), from[n], spent)
    BY <1>1, <1>2, <1>7 DEF Taken, n
  <1> QED BY <1>8 DEF recent

\* The part of a conversation that is handed on with a context of n messages fits it.
FitsContext(all, n) == n <= ContextMessages /\ (n = 1 \/ Weight(LastOf(all, n)) <= Budget)

\* An end of the messages kept is an end of all that was said.
LEMMA EndIsLastSaid ==
    ASSUME NEW seq \in Seq(Messages), NEW all \in Seq(Messages), Ends(seq, all),
           NEW k \in 1..Len(seq)
    PROVE  /\ SubSeq(seq, k, Len(seq)) = LastOf(all, Len(seq) - k + 1)
           /\ Len(SubSeq(seq, k, Len(seq))) = Len(seq) - k + 1
  <1> DEFINE n == Len(seq)
             got == SubSeq(seq, k, n)
  <1>1. /\ n \in Nat /\ got \in Seq(Messages) /\ Len(got) = n - k + 1
        /\ \A i \in 1..(n - k + 1) : got[i] = seq[k + i - 1]
    BY SubSeqProperties, LenProperties
  <1> HIDE DEF got
  <1>2. Ends(got, seq)
    <2>1. ASSUME NEW i \in 1..Len(got) PROVE got[i] = seq[n - Len(got) + i]
      <3>1. n - Len(got) + i = k + i - 1 /\ i \in 1..(n - k + 1)
        BY <1>1
      <3> QED BY <1>1, <3>1
    <2> QED BY <1>1, <2>1 DEF Ends
  <1>3. Ends(got, all)
    BY <1>1, <1>2, EndsOfEnds
  <1>4. got = LastOf(all, Len(got))
    BY <1>1, <1>3, EndsIsLast
  <1> QED BY <1>1, <1>4 DEF got

\* What is taken of a session that keeps the end of what was said is the newest of it, as
\* much as fits.
LEMMA TakenIsNewest ==
    ASSUME NEW seq \in Seq(Messages), seq # <<>>, NEW all \in Seq(Messages), Ends(seq, all),
           Len(seq) >= MaxMessages \/ seq = all, NEW got, got = findRelevantMessages(seq)
    PROVE  /\ got = LastOf(all, Len(got)) /\ FitsContext(all, Len(got)) /\ Len(got) > 0
           /\ Len(got) < Len(all) => ~FitsContext(all, Len(got) + 1)
  <1> DEFINE recent == LastOf(seq, ContextMessages)
             n == Len(recent)
  <1>1. /\ ContextMessages \in Nat \ {0} /\ MaxMessages \in Nat
        /\ ContextMessages <= MaxMessages /\ Budget \in Nat
    BY LimitsAssumption, TokensAssumption
  <1>2. Len(seq) \in Nat \ {0} /\ Len(all) \in Nat
    BY EmptySeq, LenProperties
  <1>3. /\ recent \in Seq(Messages) /\ Ends(recent, seq)
        /\ n = IF Len(seq) <= ContextMessages THEN Len(seq) ELSE ContextMessages
    BY <1>1, LastOfEnds
  <1>4. n \in Nat \ {0} /\ n <= ContextMessages
    BY <1>1, <1>2, <1>3
  <1>5. recent # <<>>
    <2> HIDE DEF recent
    <2> QED BY <1>4, EmptySeq
  <1>6. PICK start, spent : Taken(recent, got, start, spent)
    BY <1>3, <1>5, RelevantIsTaken
  <1>7. Ends(recent, all)
    BY <1>3, EndsOfEnds
  <1> HIDE DEF recent
  <1>8. ASSUME NEW k \in 1..n
        PROVE  /\ SubSeq(recent, k, n) = LastOf(all, n - k + 1)
               /\ Len(SubSeq(recent, k, n)) = n - k + 1
               /\ Weight(LastOf(all, n - k + 1)) = spent[k]
    BY <1>3, <1>6, <1>7, EndIsLastSaid, SpentIsWeight DEF Taken
  <1>9. start \in 1..n /\ got = SubSeq(recent, start, n) /\ Counted(recent, spent)
    BY <1>6 DEF Taken
  <1>10. Len(got) = n - start + 1 /\ got = LastOf(all, Len(got)) /\ Len(got) > 0
    BY <1>4, <1>8, <1>9
  <1> HIDE DEF n
  <1>11. FitsContext(all, Len(got))
    <2>1. Len(got) <= ContextMessages
      BY <1>1, <1>4, <1>9, <1>10
    <2>2. CASE start = n
      <3>1. Len(got) = 1
        BY <1>4, <1>10, <2>2
      <3> QED BY <2>1, <3>1 DEF FitsContext
    <2>3. CASE start # n
      <3>1. start \in start..(n - 1)
        BY <1>4, <1>9, <2>3
      <3>2. spent[start] <= Budget
        BY <1>6, <3>1 DEF Taken, n
      <3>3. Weight(LastOf(all, Len(got))) = spent[start]
        BY <1>8, <1>9, <1>10
      <3> QED BY <2>1, <3>2, <3>3 DEF FitsContext
    <2> QED BY <2>2, <2>3
  <1>12. ASSUME Len(got) < Len(all) PROVE ~FitsContext(all, Len(got) + 1)
    <2>1. CASE start = 1
      <3>1. Len(got) = n
        BY <1>4, <1>10, <2>1
      <3>2. n # Len(seq) \/ n = ContextMessages
        <4>1. CASE seq = all
          BY <1>12, <3>1, <4>1
        <4>2. CASE Len(seq) >= MaxMessages
          BY <1>1, <1>2, <1>3, <4>2 DEF n
        <4> QED BY <4>1, <4>2
      <3>3. n = ContextMessages
        BY <1>3, <3>2
      <3> QED BY <1>1, <3>1, <3>3 DEF FitsContext
    <2>2. CASE start # 1
      <3>1. start - 1 \in 1..n /\ n - (start - 1) + 1 = Len(got) + 1 /\ Len(got) + 1 # 1
        BY <1>4, <1>9, <1>10, <2>2
      <3>2. Weight(LastOf(all, Len(got) + 1)) = spent[start - 1]
        BY <1>8, <3>1
      <3>3. spent[start - 1] > Budget
        BY <1>6, <2>2 DEF Taken
      <3>4. spent[start - 1] \in Nat
        <4>1. start - 1 \in 1..(n + 1)
          BY <1>4, <3>1
        <4> QED BY <1>9, <4>1 DEF Counted, n
      <3> QED BY <1>1, <3>1, <3>2, <3>3, <3>4 DEF FitsContext
    <2> QED BY <2>1, <2>2
  <1> QED BY <1>10, <1>11, <1>12

-----------------------------------------------------------------------------
(* Steps                                                                     *)

\* The turns that are under way in a session are finitely many.
LEMMA InFlightFinite ==
    ASSUME NEW s PROVE IsFiniteSet(InFlight(s)) /\ Cardinality(InFlight(s)) \in Nat
  <1>1. InFlight(s) \subseteq Turns
    BY DEF InFlight
  <1> QED BY <1>1, TurnsAssumption, FS_Subset, FS_CardinalityType

LEMMA MessagesOf ==
    ASSUME NEW t \in Turns PROVE Question(t) \in Messages /\ Reply(t) \in Messages
  BY DEF Question, Reply, Messages, Roles

LEMMA InitInv == Init => IInv
  <1> SUFFICES ASSUME Init PROVE IInv
    OBVIOUS
  <1>1. TypeOK
    BY DEF Init, TypeOK, Underway
  <1>2. ASSUME NEW s \in Sessions PROVE Fits(s)
    BY <1>2, InFlightFinite, LimitsAssumption DEF Init, Fits, Ends
  <1> QED BY <1>1, <1>2 DEF IInv

\* A question is one message more, for one more turn under way.
LEMMA AskKeeps ==
    ASSUME IInv, NEW t \in Turns, NEW s \in Sessions, Ask(t, s)
    PROVE  IInv'
  <1>1. in' = [in EXCEPT ![t] = s] /\ Push(s, Question(t))
    BY DEF Ask
  <1>2. TypeOK /\ (\A r \in Sessions : Fits(r)) /\ Question(t) \in Messages
    BY MessagesOf DEF IInv
  <1>3. /\ pc[t] = "idle" /\ pc' = [pc EXCEPT ![t] = "classify"]
        /\ messages' = [messages EXCEPT ![s] = Append(messages[s], Question(t))]
        /\ said' = [said EXCEPT ![s] = Append(said[s], Question(t))]
    BY <1>1 DEF Ask, Push
  <1>4. /\ Append(messages[s], Question(t)) \in Seq(Messages)
        /\ Append(said[s], Question(t)) \in Seq(Messages)
        /\ Len(Append(messages[s], Question(t))) = Len(messages[s]) + 1
        /\ Len(messages[s]) \in Nat
    BY <1>2, AppendProperties, LenProperties DEF TypeOK
  <1>5. TypeOK'
    <2>1. UNCHANGED <<lastToolResult, transcript>>
      BY DEF Ask
    <2> QED BY <1>1, <1>2, <1>3, <1>4, <2>1 DEF TypeOK
  <1>6. ASSUME NEW r \in Sessions PROVE Fits(r)'
    <2>1. CASE r = s
      <3>1. InFlight(s)' = InFlight(s) \cup {t} /\ t \notin InFlight(s)
        BY <1>1, <1>2, <1>3 DEF InFlight, TypeOK
      <3>2. Cardinality(InFlight(s)') = Cardinality(InFlight(s)) + 1
        BY <3>1, InFlightFinite, FS_AddElement
      <3>3. Ends(messages[s], said[s])' 
        BY <1>2, <1>3, AppendEnds DEF TypeOK, Fits
      <3>4. Len(messages'[s]) = Len(messages[s]) + 1
        BY <1>2, <1>3, <1>4 DEF TypeOK
      <3>5. messages[s] = said[s] => messages'[s] = said'[s]
        BY <1>2, <1>3 DEF TypeOK
      <3> QED BY <1>2, <1>4, <2>1, <3>2, <3>3, <3>4, <3>5, InFlightFinite, LimitsAssumption DEF Fits
    <2>2. CASE r # s
      <3>1. InFlight(r)' = InFlight(r)
        BY <1>1, <1>2, <1>3, <2>2 DEF InFlight, TypeOK
      <3>2. messages'[r] = messages[r] /\ said'[r] = said[r]
        BY <1>2, <1>3, <2>2 DEF TypeOK
      <3> QED BY <1>2, <3>1, <3>2 DEF Fits
    <2> QED BY <2>1, <2>2
  <1> QED BY <1>5, <1>6 DEF IInv

\* Between question and answer a turn says nothing.
LEMMA WaitKeeps ==
    ASSUME IInv, NEW t \in Turns, Classify(t) \/ Execute(t) PROVE IInv'
  <1>1. /\ pc[t] \in Underway /\ UNCHANGED <<messages, said, in>>
        /\ \E place \in Underway : pc' = [pc EXCEPT ![t] = place]
        /\ UNCHANGED transcript
        /\ UNCHANGED lastToolResult \/ lastToolResult' = [lastToolResult EXCEPT ![in[t]] = t]
    BY DEF Classify, Execute, Underway
  <1>2. TypeOK'
    BY <1>1 DEF IInv, TypeOK, Underway
  <1>3. ASSUME NEW s \in Sessions PROVE InFlight(s)' = InFlight(s)
    BY <1>1 DEF IInv, TypeOK, InFlight, Underway
  <1> QED BY <1>1, <1>2, <1>3 DEF IInv, Fits

\* An answer is followed by the trim, after which the session is within its limit.
LEMMA GenerateKeeps == ASSUME IInv, NEW t \in Turns, Generate(t) PROVE IInv'
  <1>0. PICK s : s = in[t]
    OBVIOUS
  <1> DEFINE more == Append(messages[s], Reply(t))
  <1>1. TypeOK /\ (\A r \in Sessions : Fits(r)) /\ Reply(t) \in Messages
    BY MessagesOf DEF IInv
  <1>2. s \in Sessions
    BY <1>0, <1>1 DEF Generate, TypeOK, Underway
  <1>3. /\ pc[t] = "generate" /\ pc' = [pc EXCEPT ![t] = "over"] /\ in' = in
        /\ messages' = [messages EXCEPT ![s] = LastOf(more, MaxMessages)]
        /\ said' = [said EXCEPT ![s] = Append(said[s], Reply(t))]
    BY <1>0 DEF Generate, trimMessages
  <1>4. /\ more \in Seq(Messages) /\ Append(said[s], Reply(t)) \in Seq(Messages)
        /\ Len(more) = Len(messages[s]) + 1 /\ Len(messages[s]) \in Nat /\ MaxMessages \in Nat
    BY <1>1, <1>2, AppendProperties, LenProperties, LimitsAssumption DEF TypeOK
  <1>5. /\ LastOf(more, MaxMessages) \in Seq(Messages)
        /\ Len(LastOf(more, MaxMessages))
               = IF Len(more) <= MaxMessages THEN Len(more) ELSE MaxMessages
        /\ Ends(LastOf(more, MaxMessages), more)
    BY <1>4, LastOfEnds
  <1>6. TypeOK'
    <2>1. UNCHANGED lastToolResult
          /\ \E new \in {<<>>, more} : transcript' = [transcript EXCEPT ![t] = new]
      BY <1>0 DEF Generate
    <2>2. <<>> \in Seq(Messages)
      BY EmptySeq
    <2>3. transcript' \in [Turns -> Seq(Messages)]
      BY <1>1, <1>4, <2>1, <2>2 DEF TypeOK
    <2> QED BY <1>1, <1>2, <1>3, <1>4, <1>5, <2>1, <2>3 DEF TypeOK
  <1>7. ASSUME NEW r \in Sessions PROVE Fits(r)'
    <2>1. CASE r = s
      <3>1. messages'[s] = LastOf(more, MaxMessages) /\ said'[s] = Append(said[s], Reply(t))
        BY <1>1, <1>2, <1>3 DEF TypeOK
      <3>2. Ends(more, Append(said[s], Reply(t)))
        BY <1>1, <1>2, AppendEnds DEF TypeOK, Fits
      <3>3. Ends(messages'[s], said'[s])
        BY <1>4, <1>5, <3>1, <3>2, EndsOfEnds
      <3>4. Len(messages'[s]) >= MaxMessages \/ messages'[s] = said'[s]
        <4>1. CASE Len(more) <= MaxMessages
          <5>1. messages[s] = said[s]
            BY <1>1, <1>2, <1>4, <4>1 DEF Fits
          <5>2. LastOf(more, MaxMessages) = more
            BY <4>1 DEF LastOf
          <5> QED BY <3>1, <5>1, <5>2
        <4>2. CASE ~(Len(more) <= MaxMessages)
          BY <1>4, <1>5, <3>1, <4>2
        <4> QED BY <4>1, <4>2
      <3>5. Len(messages'[s]) <= MaxMessages + Cardinality(InFlight(s)')
        <4>1. IsFiniteSet(InFlight(s)') /\ Cardinality(InFlight(s)') \in Nat
          <5>1. InFlight(s)' \subseteq Turns
            BY DEF InFlight
          <5> QED BY <5>1, TurnsAssumption, FS_Subset, FS_CardinalityType
        <4> QED BY <1>4, <1>5, <3>1, <4>1
      <3> QED BY <2>1, <3>3, <3>4, <3>5 DEF Fits
    <2>2. CASE r # s
      <3>1. InFlight(r)' = InFlight(r)
        BY <1>0, <1>1, <1>3, <2>2 DEF InFlight, TypeOK
      <3>2. messages'[r] = messages[r] /\ said'[r] = said[r]
        BY <1>1, <1>2, <1>3, <2>2 DEF TypeOK
      <3> QED BY <1>1, <3>1, <3>2 DEF Fits
    <2> QED BY <2>1, <2>2
  <1> QED BY <1>6, <1>7 DEF IInv

\* Every step keeps the invariant.
LEMMA StepKeeps == IInv /\ [Next]_vars => IInv'
  <1> SUFFICES ASSUME IInv, [Next]_vars PROVE IInv'
    OBVIOUS
  <1>1. ASSUME NEW t \in Turns, Turn(t) PROVE IInv'
    BY <1>1, WaitKeeps, GenerateKeeps DEF Turn
  <1>2. ASSUME UNCHANGED <<messages, said, pc, in, lastToolResult>>,
               transcript' \in [Turns -> Seq(Messages)]
        PROVE  IInv'
    <2>1. TypeOK'
      BY <1>2 DEF IInv, TypeOK
    <2>2. ASSUME NEW s \in Sessions PROVE Fits(s)'
      <3>1. Fits(s) /\ InFlight(s)' = InFlight(s)
        BY <1>2 DEF IInv, InFlight
      <3> QED BY <1>2, <3>1 DEF Fits
    <2> QED BY <2>1, <2>2 DEF IInv
  <1>3. ASSUME NEW t \in Turns, Summarise(t) PROVE IInv'
    <2>1. transcript' = [transcript EXCEPT ![t] = <<>>] /\ <<>> \in Seq(Messages)
      BY <1>3, EmptySeq DEF Summarise
    <2> QED BY <1>2, <1>3, <2>1 DEF Summarise, IInv, TypeOK
  <1>4. CASE Crash
    <2>1. TypeOK'
      BY <1>4 DEF IInv, TypeOK, Crash, EmptyStore, Underway
    <2>2. ASSUME NEW s \in Sessions PROVE Fits(s)'
      <3>1. InFlight(s)' = {}
        BY <1>4 DEF IInv, TypeOK, Crash, InFlight
      <3>2. messages'[s] = <<>> /\ said'[s] = <<>>
        BY <1>4 DEF Crash, EmptyStore
      <3> QED BY <3>1, <3>2, FS_EmptySet, LimitsAssumption DEF Fits, Ends
    <2> QED BY <2>1, <2>2 DEF IInv
  <1>5. CASE UNCHANGED vars
    BY <1>2, <1>5 DEF vars, IInv, TypeOK
  <1> QED BY <1>1, <1>3, <1>4, <1>5, AskKeeps DEF Next

-----------------------------------------------------------------------------
(* What is trimmed                                                           *)

\* A turn begins one summary, with its answer.
OneSummary == \A t \in Turns : pc[t] # "over" => transcript[t] = <<>>

SummariesTyped ==
    /\ DOMAIN summaries = Sessions
    /\ \A s \in Sessions : \E S : summaries[s] \in Seq(S)

MInv == OneSummary /\ SummariesTyped /\ TrimmedWasSummarised

\* What is appended is in, and takes nothing away.
LEMMA InAppend ==
    ASSUME NEW S, NEW seq \in Seq(S), NEW e \in S
    PROVE  /\ In(e, Append(seq, e))
           /\ \A m : In(m, seq) => In(m, Append(seq, e))
  <1>1. /\ Len(seq) \in Nat /\ Len(Append(seq, e)) = Len(seq) + 1
        /\ \A i \in 1..Len(seq) : Append(seq, e)[i] = seq[i]
        /\ Append(seq, e)[Len(seq) + 1] = e
    BY AppendProperties, LenProperties
  <1> QED BY <1>1 DEF In

\* What is said next, if it is remembered, leaves all that was said remembered.
LEMMA SaidNext ==
    ASSUME TypeOK, TrimmedWasSummarised, NEW s \in Sessions, NEW m \in Messages,
           said' = [said EXCEPT ![s] = Append(said[s], m)],
           Remembered(m, s)',
           \A r \in Sessions : \A n : Remembered(n, r) => Remembered(n, r)'
    PROVE  TrimmedWasSummarised'
  <1> SUFFICES ASSUME NEW r \in Sessions, NEW i \in 1..Len(said'[r]), NEW n, n = said'[r][i]
               PROVE  Remembered(n, r)'
    BY DEF TrimmedWasSummarised
  <1>1. said[s] \in Seq(Messages) /\ Len(said[s]) \in Nat
    BY LenProperties DEF TypeOK
  <1>2. /\ Len(Append(said[s], m)) = Len(said[s]) + 1
        /\ \A k \in 1..Len(said[s]) : Append(said[s], m)[k] = said[s][k]
        /\ Append(said[s], m)[Len(said[s]) + 1] = m
    BY <1>1, AppendProperties
  <1>3. \A k \in 1..Len(said[r]) : Remembered(said[r][k], r)
    BY DEF TrimmedWasSummarised
  <1>4. CASE r # s
    BY <1>3, <1>4 DEF TypeOK
  <1>5. CASE r = s /\ i = Len(said[s]) + 1
    BY <1>2, <1>5 DEF TypeOK
  <1>6. CASE r = s /\ i # Len(said[s]) + 1
    <2>1. said'[s] = Append(said[s], m)
      BY DEF TypeOK
    <2>2. i \in 1..Len(said[s]) /\ said'[r][i] = said[r][i]
      BY <1>1, <1>2, <1>6, <2>1
    <2> QED BY <1>3, <2>2
  <1> QED BY <1>4, <1>5, <1>6

\* A question is kept; its turn had begun no summary in another session.
LEMMA AskRemembers ==
    ASSUME TypeOK, MInv, NEW t \in Turns, NEW s \in Sessions, Ask(t, s)
    PROVE  MInv'
  <1>1. in' = [in EXCEPT ![t] = s] /\ Push(s, Question(t))
    BY DEF Ask
  <1>2. /\ Question(t) \in Messages /\ transcript[t] = <<>>
        /\ pc' = [pc EXCEPT ![t] = "classify"] /\ UNCHANGED <<summaries, transcript>>
    BY MessagesOf DEF Ask, MInv, OneSummary
  <1>3. /\ messages' = [messages EXCEPT ![s] = Append(messages[s], Question(t))]
        /\ said' = [said EXCEPT ![s] = Append(said[s], Question(t))]
    BY <1>1 DEF Push
  <1>4. /\ In(Question(t), Append(messages[s], Question(t)))
        /\ \A m : In(m, messages[s]) => In(m, Append(messages[s], Question(t)))
    BY <1>2, InAppend DEF TypeOK
  <1>5. \A m : ~In(m, transcript[t])
    BY <1>2 DEF In
  <1>6. ASSUME NEW r \in Sessions, NEW m, Remembered(m, r) PROVE Remembered(m, r)'
    <2>1. CASE In(m, messages[r])
      <3>1. In(m, messages'[r])
        BY <1>3, <1>4, <2>1 DEF TypeOK
      <3> QED BY <3>1 DEF Remembered, In
    <2>2. CASE \E u \in Turns : in[u] = r /\ In(m, transcript[u])
      <3>1. PICK u \in Turns : in[u] = r /\ In(m, transcript[u])
        BY <2>2
      <3>2. u # t /\ in'[u] = r /\ transcript' = transcript
        BY <1>1, <1>2, <1>5, <3>1 DEF TypeOK
      <3> QED BY <3>1, <3>2 DEF Remembered, In
    <2>3. CASE \E j \in 1..Len(summaries[r]) : In(m, summaries[r][j].of)
      BY <1>2, <2>3 DEF Remembered, In
    <2> QED BY <1>6, <2>1, <2>2, <2>3 DEF Remembered
  <1>7. Remembered(Question(t), s)'
    <2>1. In(Question(t), messages'[s])
      BY <1>3, <1>4 DEF TypeOK
    <2> QED BY <2>1 DEF Remembered, In
  <1>8. TrimmedWasSummarised'
    BY <1>2, <1>3, <1>6, <1>7, SaidNext DEF MInv
  <1>9. OneSummary' /\ SummariesTyped'
    BY <1>2 DEF MInv, OneSummary, SummariesTyped, TypeOK
  <1> QED BY <1>8, <1>9 DEF MInv

\* Where something is trimmed, a summary of all that was there has begun.
LEMMA GenerateRemembers == ASSUME TypeOK, MInv, NEW t \in Turns, Generate(t) PROVE MInv'
  <1>0. PICK s : s = in[t]
    OBVIOUS
  <1> DEFINE all == Append(messages[s], Reply(t))
  <1>1. /\ pc[t] = "generate" /\ pc' = [pc EXCEPT ![t] = "over"] /\ UNCHANGED <<in, summaries>>
        /\ messages' = [messages EXCEPT ![s] = LastOf(all, MaxMessages)]
        /\ said' = [said EXCEPT ![s] = Append(said[s], Reply(t))]
        /\ transcript' = [transcript EXCEPT ![t] = IF Len(all) < SummaryTrigger THEN <<>> ELSE all]
    BY <1>0 DEF Generate, trimMessages
  <1>2. s \in Sessions /\ Reply(t) \in Messages /\ transcript[t] = <<>>
    BY <1>0, <1>1, MessagesOf DEF TypeOK, MInv, OneSummary
  <1>3. /\ In(Reply(t), all) /\ (\A m : In(m, messages[s]) => In(m, all))
        /\ Len(all) \in Nat
    BY <1>2, InAppend, AppendProperties, LenProperties DEF TypeOK
  <1>4. ASSUME NEW m, In(m, all) PROVE Remembered(m, s)'
    <2>1. CASE Len(all) < SummaryTrigger
      <3>1. LastOf(all, MaxMessages) = all
        BY <1>3, <2>1, LimitsAssumption DEF LastOf
      <3>2. messages'[s] = all
        BY <1>1, <1>2, <3>1 DEF TypeOK
      <3> QED BY <1>4, <3>2 DEF Remembered, In
    <2>2. CASE ~(Len(all) < SummaryTrigger)
      <3>1. transcript'[t] = all /\ in'[t] = s
        BY <1>0, <1>1, <2>2 DEF TypeOK
      <3> QED BY <1>4, <3>1 DEF Remembered, In
    <2> QED BY <2>1, <2>2
  <1>5. ASSUME NEW r \in Sessions, NEW m, Remembered(m, r) PROVE Remembered(m, r)'
    <2>1. CASE In(m, messages[r])
      <3>1. CASE r = s
        BY <1>3, <1>4, <2>1, <3>1
      <3>2. CASE r # s
        <4>1. messages'[r] = messages[r]
          BY <1>1, <3>2 DEF TypeOK
        <4> QED BY <2>1, <4>1 DEF Remembered, In
      <3> QED BY <3>1, <3>2
    <2>2. CASE \E u \in Turns : in[u] = r /\ In(m, transcript[u])
      <3>1. PICK u \in Turns : in[u] = r /\ In(m, transcript[u])
        BY <2>2
      <3>2. u # t
        BY <1>2, <3>1 DEF In
      <3>3. in'[u] = r /\ transcript'[u] = transcript[u]
        BY <1>1, <3>1, <3>2 DEF TypeOK
      <3> QED BY <3>1, <3>3 DEF Remembered, In
    <2>3. CASE \E j \in 1..Len(summaries[r]) : In(m, summaries[r][j].of)
      BY <1>1, <2>3 DEF Remembered, In
    <2> QED BY <1>5, <2>1, <2>2, <2>3 DEF Remembered
  <1>6. TrimmedWasSummarised'
    BY <1>1, <1>2, <1>3, <1>4, <1>5, SaidNext DEF MInv
  <1>7. OneSummary' /\ SummariesTyped'
    BY <1>1 DEF MInv, OneSummary, SummariesTyped, TypeOK
  <1> QED BY <1>6, <1>7 DEF MInv

\* A summary that is stored takes the place of its transcript.
LEMMA SummariseRemembers == ASSUME TypeOK, MInv, NEW t \in Turns, Summarise(t) PROVE MInv'
  <1>1. PICK text : summaries' = [summaries EXCEPT
            ![in[t]] = Append(summaries[in[t]], [of |-> transcript[t], text |-> text])]
    BY DEF Summarise
  <1>2. /\ transcript[t] # <<>> /\ transcript' = [transcript EXCEPT ![t] = <<>>]
        /\ UNCHANGED <<messages, pc, in, said>>
    BY DEF Summarise
  <1>3. PICK s : s = in[t]
    OBVIOUS
  <1>4. s \in Sessions
    BY <1>2, <1>3 DEF MInv, OneSummary, TypeOK
  <1> DEFINE new == [of |-> transcript[t], text |-> text]
             longer == Append(summaries[s], new)
  <1>5. PICK S : summaries[s] \in Seq(S)
    BY <1>4 DEF MInv, SummariesTyped
  <1>6. summaries[s] \in Seq(S \cup {new})
    BY <1>5
  <1>7. /\ longer \in Seq(S \cup {new}) /\ Len(summaries[s]) \in Nat
        /\ Len(longer) = Len(summaries[s]) + 1
        /\ \A j \in 1..Len(summaries[s]) : longer[j] = summaries[s][j]
        /\ longer[Len(summaries[s]) + 1] = new
    BY <1>6, AppendProperties, LenProperties
  <1> HIDE DEF longer
  <1>8. summaries' = [summaries EXCEPT ![s] = longer]
    BY <1>1, <1>3 DEF longer
  <1>9. summaries'[s] = longer /\ \A r \in Sessions \ {s} : summaries'[r] = summaries[r]
    BY <1>4, <1>8 DEF MInv, SummariesTyped
  <1>10. ASSUME NEW r \in Sessions, NEW m, Remembered(m, r) PROVE Remembered(m, r)'
    <2>1. CASE In(m, messages[r])
      BY <1>2, <2>1 DEF Remembered, In
    <2>2. CASE r = s /\ In(m, transcript[t])
      <3>1. longer[Len(longer)].of = transcript[t] /\ Len(longer) \in 1..Len(longer)
        BY <1>7
      <3> QED BY <1>9, <2>2, <3>1 DEF Remembered, In
    <2>3. CASE \E u \in Turns \ {t} : in[u] = r /\ In(m, transcript[u])
      <3>1. PICK u \in Turns \ {t} : in[u] = r /\ In(m, transcript[u])
        BY <2>3
      <3>2. in'[u] = r /\ transcript'[u] = transcript[u]
        BY <1>2, <3>1 DEF TypeOK
      <3> QED BY <3>1, <3>2 DEF Remembered, In
    <2>4. CASE \E j \in 1..Len(summaries[r]) : In(m, summaries[r][j].of)
      <3>1. PICK j \in 1..Len(summaries[r]) : In(m, summaries[r][j].of)
        BY <2>4
      <3>2. j \in 1..Len(summaries'[r]) /\ summaries'[r][j] = summaries[r][j]
        BY <1>7, <1>9, <3>1
      <3> QED BY <3>1, <3>2 DEF Remembered, In
    <2> QED BY <1>3, <1>10, <2>1, <2>2, <2>3, <2>4 DEF Remembered
  <1>11. TrimmedWasSummarised'
    <2> SUFFICES ASSUME NEW r \in Sessions, NEW i \in 1..Len(said'[r]), NEW m, m = said'[r][i]
                 PROVE  Remembered(m, r)'
      BY DEF TrimmedWasSummarised
    <2>1. m = said[r][i] /\ Remembered(m, r)
      BY <1>2 DEF MInv, TrimmedWasSummarised
    <2> QED BY <1>10, <2>1
  <1>12. OneSummary'
    BY <1>2 DEF MInv, OneSummary, TypeOK
  <1>13. SummariesTyped'
    <2>1. DOMAIN summaries' = Sessions
      BY <1>8 DEF MInv, SummariesTyped
    <2>2. ASSUME NEW r \in Sessions PROVE \E Q : summaries'[r] \in Seq(Q)
      BY <1>7, <1>9 DEF MInv, SummariesTyped
    <2> QED BY <2>1, <2>2 DEF SummariesTyped
  <1> QED BY <1>11, <1>12, <1>13 DEF MInv

LEMMA NextRemembers == TypeOK /\ MInv /\ [Next]_vars => MInv'
  <1> SUFFICES ASSUME TypeOK, MInv, [Next]_vars PROVE MInv'
    OBVIOUS
  <1>1. ASSUME NEW t \in Turns, Classify(t) \/ Execute(t) PROVE MInv'
    <2>1. /\ UNCHANGED <<messages, summaries, transcript, said, in>> /\ pc[t] # "over"
          /\ \E place \in {"execute", "generate"} : pc' = [pc EXCEPT ![t] = place]
      BY <1>1 DEF Classify, Execute
    <2>2. TrimmedWasSummarised' /\ SummariesTyped'
      <3>1. \A m : \A r \in Sessions : Remembered(m, r) => Remembered(m, r)'
        BY <2>1 DEF Remembered, In
      <3> QED BY <2>1, <3>1 DEF MInv, SummariesTyped, TrimmedWasSummarised
    <2>3. OneSummary'
      BY <2>1 DEF TypeOK, MInv, OneSummary
    <2> QED BY <2>2, <2>3 DEF MInv
  <1>2. CASE Crash
    <2>1. /\ summaries' = [s \in Sessions |-> <<>>] /\ said' = [s \in Sessions |-> <<>>]
          /\ transcript' = [t \in Turns |-> <<>>]
      BY <1>2 DEF Crash, EmptyStore
    <2>2. TrimmedWasSummarised' /\ OneSummary'
      BY <2>1 DEF TrimmedWasSummarised, OneSummary
    <2>3. \A s \in Sessions : summaries'[s] \in Seq(Messages)
      BY <2>1, EmptySeq
    <2>4. SummariesTyped'
      BY <2>1, <2>3 DEF SummariesTyped
    <2> QED BY <2>2, <2>4 DEF MInv
  <1>3. CASE UNCHANGED vars
    BY <1>3 DEF vars, MInv, OneSummary, SummariesTyped, TrimmedWasSummarised, Remembered, In
  <1> QED BY <1>1, <1>2, <1>3, AskRemembers, GenerateRemembers, SummariseRemembers DEF Next, Turn

-----------------------------------------------------------------------------
\* The invariant holds in every reachable state.
THEOREM Invariant == Spec => []IInv
  BY InitInv, StepKeeps, PTL DEF Spec

\* Sessions, turns and transcripts are what they are taken for, in any interleaving.
THEOREM TypeCorrect == Spec => []TypeOK
  <1>1. IInv => TypeOK
    BY DEF IInv
  <1> QED BY <1>1, Invariant, PTL

\* However many turns interleave, and whatever the limits, a session keeps the newest of
\* what was said in it, and no more above the limit than there are turns under way.
THEOREM SessionsKeepTheNewest == Spec => []KeepsTheNewest
  <1>1. IInv => KeepsTheNewest
    BY EndsIsLast DEF IInv, TypeOK, Fits, KeepsTheNewest
  <1> QED BY <1>1, Invariant, PTL

\* Whatever is trimmed, in any number of sessions and turns and in whatever order their
\* summaries come back, was given to the summariser before, as long as the trigger is
\* not above the limit.
THEOREM NothingIsForgottenUnread == Spec => []TrimmedWasSummarised
  <1>1. Init => MInv
    <2> SUFFICES ASSUME Init PROVE MInv
      OBVIOUS
    <2>1. \A s \in Sessions : summaries[s] \in Seq(Messages)
      BY EmptySeq DEF Init
    <2>2. TrimmedWasSummarised /\ OneSummary /\ DOMAIN summaries = Sessions
      BY DEF Init, TrimmedWasSummarised, OneSummary
    <2> QED BY <2>1, <2>2 DEF MInv, SummariesTyped
  <1>2. MInv => TrimmedWasSummarised
    BY DEF MInv
  <1> QED BY <1>1, <1>2, NextRemembers, TypeCorrect, PTL DEF Spec

-----------------------------------------------------------------------------
(* What a context holds                                                      *)

\* A turn under way has something to build its context from: its question, at least.
Spoken ==
    /\ \A t \in Turns : pc[t] \in Underway => messages[in[t]] # <<>>
    /\ DOMAIN context = Turns

\* Nothing but a crash empties a session.
LEMMA SessionsStaySpoken ==
    ASSUME TypeOK, Spoken, [Next]_vars, ~Crash, NEW s \in Sessions, messages[s] # <<>>
    PROVE  messages'[s] # <<>>
  <1>1. ASSUME NEW t \in Turns, NEW r \in Sessions, Ask(t, r) PROVE messages'[s] # <<>>
    <2>1. messages[s] \in Seq(Messages) /\ Question(t) \in Messages
      BY MessagesOf DEF TypeOK
    <2>2. Append(messages[s], Question(t)) # <<>>
      BY <2>1, EmptySeq, AppendProperties, LenProperties
    <2>3. messages'[s] = IF s = r THEN Append(messages[s], Question(t)) ELSE messages[s]
      BY <1>1 DEF Ask, Push, TypeOK
    <2> QED BY <2>2, <2>3
  <1>2. ASSUME NEW t \in Turns, Generate(t) PROVE messages'[s] # <<>>
    <2> DEFINE all == Append(messages[s], Reply(t))
    <2>1. messages[s] \in Seq(Messages) /\ Reply(t) \in Messages
      BY MessagesOf DEF TypeOK
    <2>2. all \in Seq(Messages) /\ Len(all) = Len(messages[s]) + 1 /\ Len(messages[s]) \in Nat
      BY <2>1, AppendProperties, LenProperties
    <2>3. messages'[s] = IF s = in[t] THEN trimMessages(all, MaxMessages) ELSE messages[s]
      BY <1>2 DEF Generate, TypeOK
    <2> HIDE DEF all
    <2>4. Len(LastOf(all, MaxMessages)) > 0
      BY <2>2, LastOfEnds, LimitsAssumption
    <2>5. trimMessages(all, MaxMessages) # <<>>
      BY <2>4, EmptySeq DEF trimMessages
    <2> QED BY <2>3, <2>5
  <1>3. ASSUME UNCHANGED messages PROVE messages'[s] # <<>>
    BY <1>3
  <1>4. ASSUME NEW t \in Turns, Classify(t) \/ Execute(t) \/ Summarise(t) PROVE UNCHANGED messages
    BY <1>4 DEF Classify, Execute, Summarise
  <1> QED BY <1>1, <1>2, <1>3, <1>4 DEF Next, Turn, vars

LEMMA StepKeepsSpoken == TypeOK /\ Spoken /\ [Next]_vars => Spoken'
  <1> SUFFICES ASSUME TypeOK, Spoken, [Next]_vars PROVE Spoken'
    OBVIOUS
  <1>1. DOMAIN context' = Turns
    BY DEF Next, Turn, Ask, Classify, Execute, Generate, Summarise, Crash, vars, Spoken
  <1>2. CASE Crash
    BY <1>1, <1>2 DEF Crash, Spoken, Underway
  <1>3. CASE ~Crash
    <2> SUFFICES ASSUME NEW t \in Turns, pc'[t] \in Underway PROVE messages'[in'[t]] # <<>>
      BY <1>1 DEF Spoken
    <2>1. ASSUME NEW s \in Sessions, Ask(t, s) PROVE messages'[in'[t]] # <<>>
      <3>1. messages[s] \in Seq(Messages) /\ Question(t) \in Messages
        BY MessagesOf DEF TypeOK
      <3>2. Append(messages[s], Question(t)) # <<>>
        BY <3>1, EmptySeq, AppendProperties, LenProperties
      <3>3. in'[t] = s /\ messages'[s] = Append(messages[s], Question(t))
        BY <2>1 DEF Ask, Push, TypeOK
      <3> QED BY <3>2, <3>3
    <2>2. CASE ~(\E s \in Sessions : Ask(t, s))
      <3>1. pc[t] \in Underway /\ in'[t] = in[t]
        BY <1>3, <2>2 DEF Next, Turn, Ask, Classify, Execute, Generate, Summarise, vars, TypeOK,
           Underway
      <3>2. in[t] \in Sessions /\ messages[in[t]] # <<>>
        BY <3>1 DEF Spoken, TypeOK, Underway
      <3> QED BY <1>3, <3>1, <3>2, SessionsStaySpoken
    <2> QED BY <2>1, <2>2
  <1> QED BY <1>2, <1>3

LEMMA ExecuteTakesNewest ==
    ASSUME IInv, Spoken, NEW t \in Turns, Execute(t)
    PROVE  LET all == said[in[t]]
               got == context'[t].relevantHistory
           IN  /\ got = LastOf(all, Len(got)) /\ FitsContext(all, Len(got)) /\ Len(got) > 0
               /\ Len(got) < Len(all) => ~FitsContext(all, Len(got) + 1)
  <1> DEFINE s == in[t]
  <1>1. s \in Sessions /\ messages[s] # <<>>
    BY DEF Execute, IInv, TypeOK, Spoken, Underway
  <1>2. messages[s] \in Seq(Messages) /\ said[s] \in Seq(Messages) /\ Fits(s)
    BY <1>1 DEF IInv, TypeOK
  <1>3. context'[t].relevantHistory = findRelevantMessages(messages[s])
    BY DEF Execute, ContextOf, Spoken
  <1> QED BY <1>1, <1>2, <1>3, TakenIsNewest DEF Fits

\* However turns interleave, and whatever the limits and the lengths of the messages, the
\* generator is given the newest of what was said, as much as fits and one message at least.
THEOREM ContextsAreNewest == Spec => ContextIsNewest
  <1> DEFINE Newest ==
         \A t \in Turns :
            (pc[t] = "execute" /\ pc'[t] = "generate") =>
                LET all == said[in[t]]
                    got == context'[t].relevantHistory
                    fits(n) == n <= ContextMessages
                                 /\ (n = 1 \/ Weight(LastOf(all, n)) <= Budget)
                IN  /\ got = LastOf(all, Len(got)) /\ fits(Len(got)) /\ Len(got) > 0
                    /\ Len(got) < Len(all) => ~fits(Len(got) + 1)
  <1>1. Init => Spoken
    BY DEF Init, Spoken, Underway
  <1>2. IInv /\ Spoken /\ [Next]_vars => Spoken'
    BY StepKeepsSpoken DEF IInv
  <1>3. IInv /\ Spoken /\ [Next]_vars => [Newest]_vars
    <2> SUFFICES ASSUME IInv, Spoken, [Next]_vars, NEW t \in Turns,
                        pc[t] = "execute", pc'[t] = "generate"
                 PROVE  Execute(t)
      BY ExecuteTakesNewest DEF FitsContext
    <2>1. pc \in [Turns -> {"idle", "classify", "execute", "generate", "over"}]
      BY DEF IInv, TypeOK
    <2> QED BY <2>1 DEF Next, Turn, Ask, Classify, Execute, Generate, Summarise, Crash, vars
  <1> QED BY <1>1, <1>2, <1>3, Invariant, PTL DEF Spec, ContextIsNewest

-----------------------------------------------------------------------------
(* The page                                                                  *)

Kinds == {"question", "answer", "error"}
Chats == [sessionId : Sessions \cup {"none"}, messages : Seq([of : Questions, kind : Kinds])]

PageTyped ==
    /\ store \in [Tabs -> Chats] /\ saved \in Chats
    /\ waiting \in [Tabs -> Questions \cup {"none"}]
    /\ under \in [Questions -> Sessions \cup {"none"}]
    /\ by \in [Questions -> Tabs \cup {"none"}]
    /\ answers \subseteq Turns

\* What was said of a turn was said in its session.
SaidWhereItIs ==
    \A t \in Turns, s \in Sessions :
        In(Question(t), said[s]) \/ In(Reply(t), said[s]) => pc[t] # "idle" /\ in[t] = s

\* A turn is in the session its question was sent with; if with none, in its own.
InTheSessionSent ==
    \A q \in Questions : \A t \in TurnsOf(q) :
        /\ pc[t] # "idle" \/ t \in sent => by[q] # "none"
        /\ pc[t] # "idle" /\ under[q] # "none" => in[t] = under[q]

OwnSession ==
    \A q, p \in Questions : \A t \in TurnsOf(q), u \in TurnsOf(p) :
        /\ under[q] = "none" /\ under[p] = "none" /\ t # u
        /\ pc[t] # "idle" /\ pc[u] # "idle"
        => in[t] # in[u]

\* A tab waits for a question of its own, sent with the session it still has.
WaitsForItsOwn ==
    /\ \A b \in Tabs : waiting[b] # "none" =>
           /\ by[waiting[b]] = b
           /\ under[waiting[b]] = store[b].sessionId
           /\ Shows(store[b], waiting[b], "question")
    /\ \A t \in answers : pc[t] # "idle"

\* q was asked without a session, and its answer has told the page of s.
Introduced(q, s) ==
    /\ under[q] = "none" /\ pc[ChatOf[q]] # "idle" /\ in[ChatOf[q]] = s
    /\ \A b \in Tabs : waiting[b] # q

\* A session that is known in the browser has been introduced by an answer.
KnownIsIntroduced ==
    \A s \in Sessions :
        \/ saved.sessionId = s
        \/ \E b \in Tabs : store[b].sessionId = s
        \/ \E q \in Questions : under[q] = s
        => \E q \in Questions : Introduced(q, s)

AnswersOf(chat) ==
    \A q \in Questions : Shows(chat, q, "answer") =>
        pc[ChatOf[q]] # "idle" /\ in[ChatOf[q]] = chat.sessionId

OnlyBy(b) == \A q \in Questions : by[q] \in {b, "none"}

\* What the questions of a session are to the only tab that asks.
ShowsItsQuestions(b) ==
    /\ saved \in {store[b], EmptyChat}
    /\ \A q \in Questions :
           /\ store[b].sessionId # "none"
           /\ \/ under[q] = store[b].sessionId
              \/ /\ under[q] = "none" /\ pc[ChatOf[q]] # "idle"
                 /\ in[ChatOf[q]] = store[b].sessionId
           => Shows(store[b], q, "question")

PInv ==
    /\ PageTyped /\ SaidWhereItIs /\ InTheSessionSent /\ OwnSession
    /\ WaitsForItsOwn /\ KnownIsIntroduced
    /\ AnswersOf(saved) /\ \A b \in Tabs : AnswersOf(store[b])
    /\ \A b \in Tabs : OnlyBy(b) => ShowsItsQuestions(b)

\* A message that is added is shown, after those that were.
LEMMA AddedShows ==
    ASSUME NEW chat \in Chats, NEW q \in Questions, NEW kind \in Kinds
    PROVE  /\ Added(chat, q, kind) \in Chats
           /\ Added(chat, q, kind).sessionId = chat.sessionId
           /\ Shows(Added(chat, q, kind), q, kind)
           /\ \A r, k : Shows(chat, r, k) => Shows(Added(chat, q, kind), r, k)
           /\ \A r, k : Shows(Added(chat, q, kind), r, k)
                            => Shows(chat, r, k) \/ (r = q /\ k = kind)
  <1> DEFINE S == [of : Questions, kind : Kinds]
             m == [of |-> q, kind |-> kind]
             more == Append(chat.messages, m)
  <1>1. chat.messages \in Seq(S) /\ m \in S
    BY DEF Chats
  <1>2. /\ more \in Seq(S) /\ Len(chat.messages) \in Nat
        /\ Len(more) = Len(chat.messages) + 1
        /\ \A i \in 1..Len(chat.messages) : more[i] = chat.messages[i]
        /\ more[Len(chat.messages) + 1] = m
    BY <1>1, AppendProperties, LenProperties
  <1>3. In(m, more) /\ \A n : In(n, chat.messages) => In(n, more)
    BY <1>1, InAppend
  <1>4. ASSUME NEW n, In(n, more) PROVE In(n, chat.messages) \/ n = m
    <2> HIDE DEF more, m
    <2>1. PICK i \in 1..Len(more) : more[i] = n
      BY <1>4 DEF In
    <2>2. i \in 1..Len(chat.messages) \/ i = Len(chat.messages) + 1
      BY <1>2, <2>1
    <2>3. CASE i \in 1..Len(chat.messages)
      BY <1>2, <2>1, <2>3 DEF In
    <2> QED BY <1>2, <2>1, <2>2, <2>3
  <1>5. Added(chat, q, kind) = [chat EXCEPT !.messages = more]
    BY DEF Added
  <1>6. /\ Added(chat, q, kind).messages = more
        /\ Added(chat, q, kind).sessionId = chat.sessionId
        /\ Added(chat, q, kind) \in Chats
    BY <1>2, <1>5 DEF Chats
  <1>7. ASSUME NEW r, NEW k, [of |-> r, kind |-> k] = m PROVE r = q /\ k = kind
    <2>1. [of |-> r, kind |-> k].of = m.of /\ [of |-> r, kind |-> k].kind = m.kind
      BY <1>7
    <2> QED BY <2>1
  <1> QED BY <1>3, <1>4, <1>6, <1>7 DEF Shows

LEMMA EmptyShowsNothing ==
    /\ EmptyChat \in Chats /\ EmptyChat.sessionId = "none"
    /\ \A q, k : ~Shows(EmptyChat, q, k)
  BY EmptySeq DEF EmptyChat, Chats, Shows, In

LEMMA PageInitInv == PageInit => PInv
  <1> SUFFICES ASSUME PageInit PROVE PInv
    OBVIOUS
  <1> USE DEF PageInit
  <1>1. PageTyped
    BY EmptyShowsNothing DEF PageTyped
  <1>2. SaidWhereItIs
    BY DEF Init, SaidWhereItIs, In
  <1>3. InTheSessionSent /\ OwnSession
    <2>1. \A t \in Turns : pc[t] = "idle"
      BY DEF Init
    <2>2. \A q \in Questions : TurnsOf(q) \subseteq Turns
      BY TurnsOfQuestions DEF TurnsOf
    <2>3. InTheSessionSent
      BY <2>1, <2>2 DEF InTheSessionSent
    <2> QED BY <2>1, <2>2, <2>3 DEF OwnSession
  <1>4. WaitsForItsOwn
    BY DEF WaitsForItsOwn
  <1>5. KnownIsIntroduced
    BY EmptyShowsNothing, TurnsAssumption DEF KnownIsIntroduced
  <1>6. AnswersOf(saved) /\ \A b \in Tabs : AnswersOf(store[b])
    BY EmptyShowsNothing DEF AnswersOf
  <1>7. \A b \in Tabs : ShowsItsQuestions(b)
    BY EmptyShowsNothing DEF ShowsItsQuestions
  <1> QED BY <1>1, <1>2, <1>3, <1>4, <1>5, <1>6, <1>7 DEF PInv

\* The turns of the two requests of a question are turns, and of no other question.
LEMMA TurnsOfFacts ==
    /\ \A q \in Questions : /\ ChatOf[q] \in TurnsOf(q) /\ TurnsOf(q) \subseteq Turns
                            /\ ChatOf[q] \in Turns
    /\ \A q, p \in Questions : \A t \in TurnsOf(q) : t \in TurnsOf(p) => q = p
    /\ \A q, p \in Questions : ChatOf[q] \in TurnsOf(p) => q = p
  BY TurnsOfQuestions DEF TurnsOf

\* A request that arrives is a turn that begins in a session: the one it was sent with, or
\* one that is new.
LEMMA ArriveIsAsk ==
    ASSUME PageTyped, NEW q \in Questions, NEW t \in TurnsOf(q), Arrive(q, t)
    PROVE  \E s \in Sessions :
               /\ Ask(t, s)
               /\ under[q] # "none" => s = under[q]
               /\ under[q] = "none" => s \in Unused
  <1>1. CASE under[q] # "none"
    BY <1>1 DEF Arrive, PageTyped
  <1>2. CASE under[q] = "none"
    <2>1. PICK s : s = CHOOSE u \in Unused : TRUE
      OBVIOUS
    <2>2. s \in Unused /\ Ask(t, s)
      BY <1>2, <2>1 DEF Arrive
    <2> QED BY <1>2, <2>2 DEF Unused
  <1> QED BY <1>1, <1>2

\* The server of the page is that of ChatMemory.
LEMMA PageStepIsChatStep == PageTyped /\ [PageNext]_pageVars => [Next]_vars
  <1> SUFFICES ASSUME PageTyped, [PageNext]_pageVars PROVE [Next]_vars
    OBVIOUS
  <1>1. ASSUME NEW b \in Tabs, NEW q \in Questions, Send(b, q) PROVE UNCHANGED vars
    BY <1>1 DEF Send
  <1>2. ASSUME NEW b \in Tabs, Progress(b) \/ Receive(b) \/ Fail(b) \/ ClearChat(b) \/ Reload(b)
        PROVE  UNCHANGED vars
    BY <1>2 DEF Progress, Receive, Fail, ClearChat, Reload
  <1>3. ASSUME NEW q \in Questions, NEW t \in TurnsOf(q), Arrive(q, t) PROVE Next
    BY <1>3, ArriveIsAsk, TurnsOfFacts DEF Next
  <1>4. ASSUME NEW t \in Turns, ServeTurn(t) \/ ServeSummary(t) PROVE Next
    BY <1>4 DEF Next, ServeTurn, ServeSummary, Turn
  <1>5. CASE UNCHANGED pageVars
    BY <1>5 DEF pageVars
  <1> QED BY <1>1, <1>2, <1>3, <1>4, <1>5 DEF PageNext, Next

\* A turn that has begun has begun, and stays in its session.
LEMMA TurnsStay ==
    ASSUME TypeOK, [Next]_vars, NEW t \in Turns, pc[t] # "idle"
    PROVE  pc'[t] # "idle" /\ in'[t] = in[t]
  <1>1. ASSUME NEW u \in Turns, NEW s \in Sessions, Ask(u, s) PROVE pc'[t] # "idle" /\ in'[t] = in[t]
    BY <1>1 DEF Ask, TypeOK
  <1>2. ASSUME NEW u \in Turns, Turn(u) \/ Summarise(u) PROVE pc'[t] # "idle" /\ in'[t] = in[t]
    BY <1>2 DEF Turn, Classify, Execute, Generate, Summarise, TypeOK
  <1>3. CASE Crash
    BY <1>3 DEF Crash
  <1>4. CASE UNCHANGED vars
    BY <1>4 DEF vars
  <1> QED BY <1>1, <1>2, <1>3, <1>4 DEF Next

\* What is said in a step is said by one turn, in its session.
LEMMA SaidStaysWhereItIs == TypeOK /\ SaidWhereItIs /\ [Next]_vars => SaidWhereItIs'
  <1> SUFFICES ASSUME TypeOK, SaidWhereItIs, [Next]_vars PROVE SaidWhereItIs'
    OBVIOUS
  <1>1. ASSUME NEW u \in Turns, NEW r \in Sessions, NEW m \in {Question(u), Reply(u)},
               pc'[u] # "idle", in'[u] = r, said' = [said EXCEPT ![r] = Append(said[r], m)]
        PROVE  SaidWhereItIs'
    <2> SUFFICES ASSUME NEW t \in Turns, NEW s \in Sessions, NEW n \in {Question(t), Reply(t)},
                        In(n, said'[s])
                 PROVE  pc'[t] # "idle" /\ in'[t] = s
      BY DEF SaidWhereItIs, In
    <2>1. CASE In(n, said[s])
      BY <2>1, TurnsStay DEF SaidWhereItIs
    <2>2. CASE ~In(n, said[s])
      <3>1. s = r /\ said'[s] = Append(said[s], m) /\ said[s] \in Seq(Messages)
        BY <1>1, <2>2 DEF TypeOK
      <3>2. n = m
        <4>1. m \in Messages
          BY MessagesOf
        <4>2. /\ Len(said[s]) \in Nat /\ Len(said'[s]) = Len(said[s]) + 1
              /\ \A i \in 1..Len(said[s]) : said'[s][i] = said[s][i]
              /\ said'[s][Len(said[s]) + 1] = m
          BY <3>1, <4>1, AppendProperties, LenProperties
        <4> QED BY <2>2, <4>2 DEF In
      <3>3. n.turn = t /\ m.turn = u
        BY DEF Question, Reply
      <3> QED BY <1>1, <3>1, <3>2, <3>3
    <2> QED BY <2>1, <2>2
  <1>2. CASE UNCHANGED said
    BY <1>2, TurnsStay DEF SaidWhereItIs, In
  <1>3. ASSUME NEW t \in Turns, NEW s \in Sessions, Ask(t, s) PROVE SaidWhereItIs'
    BY <1>1, <1>3 DEF Ask, Push, TypeOK
  <1>4. ASSUME NEW t \in Turns, Generate(t) PROVE SaidWhereItIs'
    <2>1. in[t] \in Sessions /\ pc'[t] # "idle" /\ in'[t] = in[t]
      BY <1>4, TurnsStay DEF Generate, TypeOK
    <2> QED BY <1>1, <1>4, <2>1 DEF Generate
  <1>5. CASE Crash
    BY <1>5 DEF Crash, SaidWhereItIs, In
  <1> QED BY <1>2, <1>3, <1>4, <1>5 DEF Next, Turn, Classify, Execute, Summarise, vars

\* What the server does with the turns that have begun is nothing to the page.
LEMMA ServingKeepsPage ==
    ASSUME PInv, TypeOK, [Next]_vars, UNCHANGED <<store, saved, waiting, sent, under, by>>,
           \A t \in Turns : pc[t] = "idle" => pc'[t] = "idle",
           \A t \in answers' : t \in Turns /\ pc'[t] # "idle"
    PROVE  PInv'
  <1>1. \A t \in Turns : /\ (pc'[t] = "idle") = (pc[t] = "idle")
                         /\ pc[t] # "idle" => in'[t] = in[t]
    BY TurnsStay
  <1>2. PageTyped'
    BY DEF PInv, PageTyped
  <1>3. SaidWhereItIs'
    BY SaidStaysWhereItIs DEF PInv
  <1>4. InTheSessionSent' /\ OwnSession'
    BY <1>1, TurnsOfFacts DEF PInv, InTheSessionSent, OwnSession
  <1>5. WaitsForItsOwn'
    BY DEF PInv, WaitsForItsOwn, Shows, In
  <1>6. KnownIsIntroduced'
    BY <1>1, TurnsOfFacts DEF PInv, KnownIsIntroduced, Introduced
  <1>7. AnswersOf(saved)' /\ \A b \in Tabs : AnswersOf(store[b])'
    BY <1>1, TurnsOfFacts DEF PInv, AnswersOf, Shows, In
  <1>8. \A b \in Tabs : OnlyBy(b)' => ShowsItsQuestions(b)'
    BY <1>1, TurnsOfFacts DEF PInv, OnlyBy, ShowsItsQuestions, Shows, In
  <1> QED BY <1>2, <1>3, <1>4, <1>5, <1>6, <1>7, <1>8 DEF PInv

\* A turn that begins is in the session its question was sent with, or in a new one, which
\* nobody knows.
LEMMA ArriveKeepsPage ==
    ASSUME PInv, TypeOK, [Next]_vars, NEW q \in Questions, NEW t \in TurnsOf(q), Arrive(q, t)
    PROVE  PInv'
  <1>1. PICK s \in Sessions : /\ Ask(t, s)
                              /\ under[q] # "none" => s = under[q]
                              /\ under[q] = "none" => s \in Unused
    BY ArriveIsAsk DEF PInv
  <1>2. t \in Turns
    BY TurnsOfFacts
  <1>3. /\ pc[t] = "idle" /\ pc'[t] = "classify" /\ in'[t] = s
        /\ \A u \in Turns \ {t} : pc'[u] = pc[u] /\ in'[u] = in[u]
    BY <1>1, <1>2 DEF Ask, TypeOK
  <1>4. UNCHANGED <<store, saved, waiting, under, answers, by>> /\ sent' = sent \ {t} /\ t \in sent
    BY DEF Arrive
  <1>5. by[q] # "none"
    BY <1>4 DEF PInv, InTheSessionSent
  <1>6. PageTyped'
    BY <1>4 DEF PInv, PageTyped
  <1>7. SaidWhereItIs'
    BY SaidStaysWhereItIs DEF PInv
  <1>8. InTheSessionSent'
    BY <1>1, <1>3, <1>4, <1>5, TurnsOfFacts DEF PInv, InTheSessionSent
  <1>9. OwnSession'
    <2> SUFFICES ASSUME NEW p \in Questions, NEW r \in Questions,
                        NEW u \in TurnsOf(p), NEW v \in TurnsOf(r),
                        under[p] = "none", under[r] = "none", u # v,
                        pc'[u] # "idle", pc'[v] # "idle"
                 PROVE  in'[u] # in'[v]
      BY <1>4 DEF OwnSession
    <2>1. u \in Turns /\ v \in Turns
      BY TurnsOfFacts
    <2>2. CASE u # t /\ v # t
      BY <1>3, <2>1, <2>2 DEF PInv, OwnSession
    <2>3. CASE u = t
      <3>1. p = q
        BY <2>3, TurnsOfFacts
      <3> QED BY <1>1, <1>3, <2>1, <2>3, <3>1 DEF Unused
    <2>4. CASE v = t
      <3>1. r = q
        BY <2>4, TurnsOfFacts
      <3> QED BY <1>1, <1>3, <2>1, <2>4, <3>1 DEF Unused
    <2> QED BY <2>2, <2>3, <2>4
  <1>10. WaitsForItsOwn'
    BY <1>3, <1>4 DEF PInv, PageTyped, WaitsForItsOwn, Shows, In
  <1>11. \A p \in Questions : pc[ChatOf[p]] # "idle" => /\ pc'[ChatOf[p]] # "idle"
                                                        /\ in'[ChatOf[p]] = in[ChatOf[p]]
    BY <1>3, TurnsOfFacts
  <1>12. KnownIsIntroduced'
    BY <1>4, <1>11 DEF PInv, KnownIsIntroduced, Introduced
  <1>13. AnswersOf(saved)' /\ \A b \in Tabs : AnswersOf(store[b])'
    BY <1>4, <1>11 DEF PInv, AnswersOf, Shows, In
  <1>14. ASSUME NEW b \in Tabs, OnlyBy(b)' PROVE ShowsItsQuestions(b)'
    <2>1. OnlyBy(b) /\ ShowsItsQuestions(b)
      BY <1>4, <1>14 DEF PInv, OnlyBy
    <2> SUFFICES ASSUME NEW p \in Questions, store[b].sessionId # "none", under[p] = "none",
                        pc'[ChatOf[p]] # "idle", in'[ChatOf[p]] = store[b].sessionId
                 PROVE  Shows(store[b], p, "question")
      BY <1>4, <2>1 DEF ShowsItsQuestions, Shows, In
    <2>2. CASE ChatOf[p] # t
      BY <1>3, <2>1, <2>2, TurnsOfFacts DEF ShowsItsQuestions
    <2>3. CASE ChatOf[p] = t
      <3>1. p = q /\ s = store[b].sessionId
        BY <1>3, <2>3, TurnsOfFacts
      <3>2. PICK r \in Questions : Introduced(r, s)
        BY <3>1 DEF PInv, KnownIsIntroduced
      <3>3. in[ChatOf[r]] = s /\ ChatOf[r] \in Turns
        BY <3>2, TurnsOfFacts DEF Introduced
      <3> QED BY <1>1, <3>1, <3>3 DEF Unused
    <2> QED BY <2>2, <2>3
  <1> QED BY <1>6, <1>7, <1>8, <1>9, <1>10, <1>12, <1>13, <1>14 DEF PInv

\* If a tab waits, no other tab is the only one that asks.
LEMMA WaitingIsNotAlone ==
    ASSUME PInv, NEW b \in Tabs, waiting[b] # "none", NEW c \in Tabs, OnlyBy(c)
    PROVE  c = b
  BY TabsAssumption DEF PInv, PageTyped, WaitsForItsOwn, OnlyBy

\* A message that is no answer, of a tab that waits, and goes on waiting or stops.
LEMMA SetKeepsPage ==
    ASSUME PInv, NEW b \in Tabs, NEW chat \in Chats, Set(b, chat), waiting[b] # "none",
           chat.sessionId = store[b].sessionId,
           \A q, k : Shows(store[b], q, k) => Shows(chat, q, k),
           \A q : Shows(chat, q, "answer") => Shows(store[b], q, "answer"),
           waiting' \in {waiting, [waiting EXCEPT ![b] = "none"]},
           answers' \subseteq answers, UNCHANGED <<sent, under, by, vars>>
    PROVE  PInv'
  <1>1. /\ store' = [store EXCEPT ![b] = chat] /\ saved' = chat
        /\ store'[b] = chat /\ \A c \in Tabs \ {b} : store'[c] = store[c]
    BY DEF Set, Partialize, PInv, PageTyped
  <1>2. \A c \in Tabs : store'[c].sessionId = store[c].sessionId
    BY <1>1
  <1>3. UNCHANGED <<pc, in, said>>
    BY DEF vars
  <1>4. \A c \in Tabs : waiting'[c] \in {waiting[c], "none"}
    BY DEF PInv, PageTyped
  <1>5. PageTyped'
    BY <1>1 DEF PInv, PageTyped
  <1>6. SaidWhereItIs' /\ InTheSessionSent' /\ OwnSession'
    BY <1>3 DEF PInv, SaidWhereItIs, InTheSessionSent, OwnSession, In
  <1>7. WaitsForItsOwn'
    <2>1. ASSUME NEW c \in Tabs, waiting'[c] # "none" PROVE Shows(store'[c], waiting'[c], "question")
      BY <1>1, <1>4, <2>1 DEF PInv, WaitsForItsOwn
    <2> QED BY <1>2, <1>3, <1>4, <2>1 DEF PInv, WaitsForItsOwn, Shows, In
  <1>8. KnownIsIntroduced'
    <2>1. ASSUME NEW q \in Questions, NEW s \in Sessions, Introduced(q, s) PROVE Introduced(q, s)'
      BY <1>3, <1>4, <2>1, TurnsAssumption, TabsAssumption DEF PInv, PageTyped, Introduced
    <2> QED BY <1>1, <1>2, <2>1 DEF PInv, KnownIsIntroduced
  <1>9. AnswersOf(chat)
    BY DEF PInv, AnswersOf
  <1>10. AnswersOf(saved)' /\ \A c \in Tabs : AnswersOf(store[c])'
    BY <1>1, <1>3, <1>9 DEF PInv, AnswersOf, Shows, In
  <1>11. ASSUME NEW c \in Tabs, OnlyBy(c)' PROVE ShowsItsQuestions(c)'
    <2>1. OnlyBy(c) /\ ShowsItsQuestions(c) /\ c = b
      BY <1>11, WaitingIsNotAlone DEF PInv, OnlyBy
    <2> QED BY <1>1, <1>3, <2>1 DEF ShowsItsQuestions, Shows, In
  <1> QED BY <1>5, <1>6, <1>7, <1>8, <1>10, <1>11 DEF PInv

\* A question is sent with the session of the tab.
LEMMA SendKeepsPage == ASSUME PInv, NEW b \in Tabs, NEW q \in Questions, Send(b, q) PROVE PInv'
  <1> DEFINE chat == Added(store[b], q, "question")
  <1>1. /\ chat \in Chats /\ chat.sessionId = store[b].sessionId /\ Shows(chat, q, "question")
        /\ \A r, k : Shows(store[b], r, k) => Shows(chat, r, k)
        /\ \A r : Shows(chat, r, "answer") => Shows(store[b], r, "answer")
    <2>1. store[b] \in Chats
      BY DEF PInv, PageTyped
    <2>2. "question" \in Kinds /\ "question" # "answer"
      BY DEF Kinds
    <2>3. /\ chat \in Chats /\ chat.sessionId = store[b].sessionId /\ Shows(chat, q, "question")
          /\ \A r, k : Shows(store[b], r, k) => Shows(chat, r, k)
      BY <2>1, <2>2, AddedShows
    <2>4. \A r, k : Shows(chat, r, k) => Shows(store[b], r, k) \/ (r = q /\ k = "question")
      BY <2>1, <2>2, AddedShows
    <2> HIDE DEF chat, PInv
    <2> QED BY <2>2, <2>3, <2>4
  <1>2. /\ store' = [store EXCEPT ![b] = chat] /\ saved' = chat
        /\ store'[b] = chat /\ \A c \in Tabs \ {b} : store'[c] = store[c]
    BY DEF Send, Set, Partialize, PInv, PageTyped
  <1> HIDE DEF chat
  <1>3. /\ UNCHANGED <<pc, in, said, answers>> /\ by[q] = "none"
        /\ sent' = sent \cup TurnsOf(q)
        /\ waiting' = [waiting EXCEPT ![b] = q] /\ waiting[b] = "none"
        /\ under' = [under EXCEPT ![q] = store[b].sessionId]
        /\ by' = [by EXCEPT ![q] = b] /\ b # "none" /\ q # "none"
    BY TabsAssumption DEF Send, vars
  <1>4. \A c \in Tabs : store'[c].sessionId = store[c].sessionId
    BY <1>1, <1>2
  <1>5. /\ by'[q] = b /\ under'[q] = store[b].sessionId /\ waiting'[b] = q
        /\ \A r \in Questions \ {q} : by'[r] = by[r] /\ under'[r] = under[r]
        /\ \A c \in Tabs \ {b} : waiting'[c] = waiting[c]
    BY <1>3 DEF PInv, PageTyped
  <1>6. \A t \in TurnsOf(q) : pc[t] = "idle"
    BY <1>3 DEF PInv, InTheSessionSent
  <1>7. \A c \in Tabs : waiting[c] # q
    BY <1>3, TabsAssumption DEF PInv, PageTyped, WaitsForItsOwn
  <1>8. PageTyped'
    BY <1>1, <1>2, <1>3 DEF PInv, PageTyped, Chats
  <1>9. SaidWhereItIs'
    BY <1>3 DEF PInv, SaidWhereItIs, In
  <1>10. InTheSessionSent'
    BY <1>3, <1>5, <1>6, TurnsOfFacts DEF PInv, InTheSessionSent
  <1>11. OwnSession'
    <2> SUFFICES ASSUME NEW r \in Questions, NEW p \in Questions,
                        NEW t \in TurnsOf(r), NEW u \in TurnsOf(p),
                        under'[r] = "none", under'[p] = "none", t # u,
                        pc[t] # "idle", pc[u] # "idle"
                 PROVE  in[t] # in[u]
      BY <1>3 DEF OwnSession
    <2>1. r # q /\ p # q
      BY <1>6
    <2> QED BY <1>5, <2>1 DEF PInv, OwnSession
  <1>12. WaitsForItsOwn'
    <2>1. ASSUME NEW c \in Tabs, waiting'[c] # "none"
          PROVE  /\ by'[waiting'[c]] = c /\ under'[waiting'[c]] = store'[c].sessionId
                 /\ Shows(store'[c], waiting'[c], "question")
      <3>1. CASE c = b
        BY <1>1, <1>2, <1>4, <1>5, <3>1
      <3>2. CASE c # b
        <4>1. waiting'[c] = waiting[c] /\ waiting[c] \in Questions \ {q}
          BY <1>5, <1>7, <2>1, <3>2 DEF PInv, PageTyped
        <4> QED BY <1>2, <1>5, <2>1, <3>2, <4>1 DEF PInv, WaitsForItsOwn
      <3> QED BY <3>1, <3>2
    <2> QED BY <1>3, <2>1 DEF PInv, WaitsForItsOwn, Shows, In
  <1>13. KnownIsIntroduced'
    <2>1. ASSUME NEW r \in Questions, NEW s \in Sessions, Introduced(r, s) PROVE Introduced(r, s)'
      <3>1. r # q
        BY <1>6, <2>1, TurnsOfFacts DEF Introduced
      <3> QED BY <1>3, <1>5, <2>1, <3>1 DEF Introduced
    <2>2. ASSUME NEW s \in Sessions,
                 \/ saved'.sessionId = s
                 \/ \E c \in Tabs : store'[c].sessionId = s
                 \/ \E r \in Questions : under'[r] = s
          PROVE  \E r \in Questions : Introduced(r, s)
      BY <1>1, <1>2, <1>4, <1>5, <2>2 DEF PInv, KnownIsIntroduced
    <2> QED BY <2>1, <2>2 DEF KnownIsIntroduced
  <1>14. AnswersOf(chat)
    BY <1>1 DEF PInv, AnswersOf
  <1>15. AnswersOf(saved)' /\ \A c \in Tabs : AnswersOf(store[c])'
    BY <1>2, <1>3, <1>14 DEF PInv, AnswersOf, Shows, In
  <1>16. ASSUME NEW c \in Tabs, OnlyBy(c)' PROVE ShowsItsQuestions(c)'
    <2>1. c = b
      BY <1>3, <1>5, <1>16 DEF OnlyBy
    <2>2. OnlyBy(b) /\ ShowsItsQuestions(b)
      BY <1>3, <1>5, <1>16, <2>1 DEF PInv, OnlyBy
    <2> SUFFICES ASSUME NEW r \in Questions, store[b].sessionId # "none",
                        \/ under'[r] = store[b].sessionId
                        \/ /\ under'[r] = "none" /\ pc[ChatOf[r]] # "idle"
                           /\ in[ChatOf[r]] = store[b].sessionId
                 PROVE  Shows(chat, r, "question")
      BY <1>2, <1>3, <1>4, <2>1 DEF ShowsItsQuestions, Shows, In
    <2> QED BY <1>1, <1>5, <2>2 DEF ShowsItsQuestions
  <1> QED BY <1>8, <1>9, <1>10, <1>11, <1>12, <1>13, <1>15, <1>16 DEF PInv

\* What a tab takes over instead of its own: nothing, or what was saved.
LEMMA TakeOverKeepsPage ==
    ASSUME PInv, NEW b \in Tabs, NEW chat \in {EmptyChat, saved},
           store' = [store EXCEPT ![b] = chat], saved' = chat,
           waiting' = [waiting EXCEPT ![b] = "none"],
           answers' \subseteq answers, UNCHANGED <<sent, under, by, vars>>
    PROVE  PInv'
  <1>1. /\ store'[b] = chat /\ \A c \in Tabs \ {b} : store'[c] = store[c]
        /\ waiting'[b] = "none" /\ \A c \in Tabs \ {b} : waiting'[c] = waiting[c]
    BY DEF PInv, PageTyped
  <1>2. UNCHANGED <<pc, in, said>>
    BY DEF vars
  <1>3. PageTyped'
    BY EmptyShowsNothing DEF PInv, PageTyped
  <1>4. SaidWhereItIs' /\ InTheSessionSent' /\ OwnSession'
    BY <1>2 DEF PInv, SaidWhereItIs, InTheSessionSent, OwnSession, In
  <1>5. WaitsForItsOwn'
    <2>1. ASSUME NEW c \in Tabs, waiting'[c] # "none" PROVE c # b
      BY <1>1, <2>1
    <2> QED BY <1>1, <1>2, <2>1 DEF PInv, WaitsForItsOwn, Shows, In
  <1>6. KnownIsIntroduced'
    <2>1. ASSUME NEW q \in Questions, NEW s \in Sessions, Introduced(q, s) PROVE Introduced(q, s)'
      BY <1>1, <1>2, <2>1, TabsAssumption DEF Introduced
    <2>2. \A s \in Sessions : s # "none"
      BY TurnsAssumption
    <2> QED BY <1>1, <2>1, <2>2, EmptyShowsNothing DEF PInv, KnownIsIntroduced
  <1>7. AnswersOf(EmptyChat)
    BY EmptyShowsNothing DEF AnswersOf
  <1>8. AnswersOf(saved)' /\ \A c \in Tabs : AnswersOf(store[c])'
    BY <1>1, <1>2, <1>7 DEF PInv, AnswersOf, Shows, In
  <1>9. ASSUME NEW c \in Tabs, OnlyBy(c)' PROVE ShowsItsQuestions(c)'
    <2>1. OnlyBy(c) /\ ShowsItsQuestions(c)
      BY <1>9 DEF PInv, OnlyBy
    <2>2. store'[c] \in {store[c], EmptyChat}
      BY <1>1, <2>1 DEF ShowsItsQuestions
    <2>3. saved' \in {store'[c], EmptyChat}
      <3>1. CASE c = b
        BY <1>1, <2>1, <3>1 DEF ShowsItsQuestions
      <3>2. CASE c # b
        BY <1>1, <2>1, <3>2 DEF ShowsItsQuestions
      <3> QED BY <3>1, <3>2
    <2> QED BY <1>2, <2>1, <2>2, <2>3, EmptyShowsNothing DEF ShowsItsQuestions, Shows, In
  <1> QED BY <1>3, <1>4, <1>5, <1>6, <1>8, <1>9 DEF PInv

\* An answer tells the tab its session, or the one it knows.
LEMMA ReceiveKeepsPage == ASSUME PInv, TypeOK, NEW b \in Tabs, Receive(b) PROVE PInv'
  <1>1. PICK q \in Questions : q = waiting[b]
    BY DEF Receive, PInv, PageTyped
  <1>2. PICK s : s = in[ChatOf[q]]
    OBVIOUS
  <1> DEFINE named == [store[b] EXCEPT !.sessionId = s]
             chat == Added(named, q, "answer")
  <1>3. /\ q # "none" /\ ChatOf[q] \in answers /\ pc[ChatOf[q]] # "idle" /\ s \in Sessions
        /\ by[q] = b /\ under[q] = store[b].sessionId /\ Shows(store[b], q, "question")
        /\ UNCHANGED <<pc, in, said, sent, under, by>>
        /\ answers' \subseteq answers
        /\ waiting' = [waiting EXCEPT ![b] = "none"]
    BY <1>1, <1>2, TurnsOfFacts DEF Receive, PInv, WaitsForItsOwn, TypeOK, vars
  <1>4. named \in Chats /\ named.sessionId = s /\ named.messages = store[b].messages
    BY <1>3 DEF PInv, PageTyped, Chats
  <1>5. /\ chat \in Chats /\ chat.sessionId = s
        /\ \A r, k : Shows(store[b], r, k) => Shows(chat, r, k)
        /\ \A r : Shows(chat, r, "answer") => Shows(store[b], r, "answer") \/ r = q
    <2> HIDE DEF named
    <2> QED BY <1>4, AddedShows DEF Kinds, Shows
  <1>6. /\ store' = [store EXCEPT ![b] = chat] /\ saved' = chat
        /\ store'[b] = chat /\ \A c \in Tabs \ {b} : store'[c] = store[c]
    BY <1>1, <1>2 DEF Receive, Set, Partialize, PInv, PageTyped
  <1> HIDE DEF chat, named
  <1>7. waiting'[b] = "none" /\ \A c \in Tabs \ {b} : waiting'[c] = waiting[c]
    BY <1>3 DEF PInv, PageTyped
  <1>8. store[b].sessionId # "none" => s = store[b].sessionId
    BY <1>2, <1>3, TurnsOfFacts DEF PInv, InTheSessionSent
  <1>9. ASSUME NEW r \in Questions, NEW u \in Sessions, Introduced(r, u) PROVE Introduced(r, u)'
    BY <1>3, <1>7, <1>9, TabsAssumption DEF Introduced
  <1>10. ASSUME store[b].sessionId = "none" PROVE Introduced(q, s)'
    <2>1. under[q] = "none"
      BY <1>3, <1>10
    <2>2. ASSUME NEW c \in Tabs PROVE waiting'[c] # q
      BY <1>3, <1>7, TabsAssumption DEF PInv, WaitsForItsOwn
    <2> QED BY <1>2, <1>3, <2>1, <2>2 DEF Introduced
  <1>11. PageTyped'
    BY <1>3, <1>5, <1>6 DEF PInv, PageTyped
  <1>12. SaidWhereItIs' /\ InTheSessionSent' /\ OwnSession'
    BY <1>3 DEF PInv, SaidWhereItIs, InTheSessionSent, OwnSession, In
  <1>13. WaitsForItsOwn'
    <2>1. ASSUME NEW c \in Tabs, waiting'[c] # "none" PROVE c # b
      BY <1>7, <2>1
    <2> QED BY <1>3, <1>6, <1>7, <2>1 DEF PInv, WaitsForItsOwn, Shows, In
  <1>14. KnownIsIntroduced'
    <2> SUFFICES ASSUME NEW u \in Sessions,
                        \/ saved'.sessionId = u
                        \/ \E c \in Tabs : store'[c].sessionId = u
                        \/ \E r \in Questions : under[r] = u
                 PROVE  \E r \in Questions : Introduced(r, u)'
      BY <1>3 DEF KnownIsIntroduced
    <2>1. CASE u = s /\ store[b].sessionId = "none"
      BY <1>10, <2>1
    <2>2. CASE u = s /\ store[b].sessionId # "none"
      BY <1>8, <1>9, <2>2 DEF PInv, KnownIsIntroduced
    <2>3. CASE u # s
      BY <1>5, <1>6, <1>9, <2>3 DEF PInv, KnownIsIntroduced
    <2> QED BY <2>1, <2>2, <2>3
  <1>15. AnswersOf(chat)
    <2> SUFFICES ASSUME NEW r \in Questions, Shows(store[b], r, "answer"), r # q
                 PROVE  pc[ChatOf[r]] # "idle" /\ in[ChatOf[r]] = s
      BY <1>2, <1>3, <1>5 DEF AnswersOf
    <2>1. pc[ChatOf[r]] # "idle" /\ in[ChatOf[r]] = store[b].sessionId
      BY DEF PInv, AnswersOf
    <2>2. in[ChatOf[r]] # "none"
      BY <2>1, TurnsOfFacts, TurnsAssumption DEF TypeOK
    <2> QED BY <1>8, <2>1, <2>2
  <1>16. AnswersOf(saved)' /\ \A c \in Tabs : AnswersOf(store[c])'
    BY <1>3, <1>6, <1>15 DEF PInv, AnswersOf, Shows, In
  <1>17. ASSUME NEW c \in Tabs, OnlyBy(c)' PROVE ShowsItsQuestions(c)'
    <2>1. OnlyBy(c) /\ c = b /\ ShowsItsQuestions(b)
      BY <1>1, <1>3, <1>17, WaitingIsNotAlone DEF PInv, OnlyBy
    <2> SUFFICES ASSUME NEW r \in Questions,
                        \/ under[r] = s
                        \/ under[r] = "none" /\ pc[ChatOf[r]] # "idle" /\ in[ChatOf[r]] = s
                 PROVE  Shows(chat, r, "question")
      BY <1>3, <1>5, <1>6, <2>1 DEF ShowsItsQuestions, Shows, In
    <2>2. CASE store[b].sessionId # "none"
      BY <1>5, <1>8, <2>1, <2>2 DEF ShowsItsQuestions
    <2>3. CASE store[b].sessionId = "none" /\ under[r] = s
      <3>1. PICK p \in Questions : Introduced(p, s)
        BY <1>3, <2>3 DEF PInv, KnownIsIntroduced
      <3>2. p # q /\ ChatOf[p] # ChatOf[q]
        BY <1>1, <3>1, TurnsOfFacts DEF Introduced
      <3> QED BY <1>2, <1>3, <2>3, <3>1, <3>2, TurnsOfFacts DEF PInv, OwnSession, Introduced
    <2>4. CASE store[b].sessionId = "none" /\ under[r] # s
      <3>1. under[q] = "none" /\ under[r] = "none" /\ in[ChatOf[r]] = in[ChatOf[q]]
            /\ pc[ChatOf[r]] # "idle"
        BY <1>2, <1>3, <2>4
      <3>2. ChatOf[r] = ChatOf[q]
        BY <1>3, <3>1, TurnsOfFacts DEF PInv, OwnSession
      <3>3. r = q
        BY <3>2, TurnsOfFacts
      <3> QED BY <1>3, <1>5, <3>3
    <2> QED BY <2>2, <2>3, <2>4
  <1> QED BY <1>11, <1>12, <1>13, <1>14, <1>16, <1>17 DEF PInv

LEMMA PageStepKeeps == TypeOK /\ PInv /\ [PageNext]_pageVars => PInv'
  <1> SUFFICES ASSUME TypeOK, PInv, [PageNext]_pageVars PROVE PInv'
    OBVIOUS
  <1>1. [Next]_vars
    BY PageStepIsChatStep DEF PInv
  <1>2. ASSUME NEW b \in Tabs, Progress(b) PROVE PInv'
    <2>1. store[b] \in Chats
      BY DEF PInv, PageTyped
    <2> QED BY <1>2, <2>1, SetKeepsPage DEF Progress
  <1>3. ASSUME NEW b \in Tabs, Fail(b) PROVE PInv'
    <2> DEFINE chat == Added(store[b], waiting[b], "error")
    <2>1. store[b] \in Chats /\ waiting[b] \in Questions /\ "error" \in Kinds /\ "error" # "answer"
      BY <1>3 DEF PInv, PageTyped, Fail, Kinds
    <2>2. /\ chat \in Chats /\ chat.sessionId = store[b].sessionId
          /\ \A q, k : Shows(store[b], q, k) => Shows(chat, q, k)
          /\ \A q : Shows(chat, q, "answer") => Shows(store[b], q, "answer")
      BY <2>1, AddedShows
    <2>3. /\ Set(b, chat) /\ waiting[b] # "none" /\ waiting' = [waiting EXCEPT ![b] = "none"]
          /\ answers' \subseteq answers /\ UNCHANGED <<sent, under, by, vars>>
      BY <1>3 DEF Fail
    <2> HIDE DEF chat
    <2> QED BY <2>2, <2>3, SetKeepsPage
  <1>4. ASSUME NEW b \in Tabs, ClearChat(b) PROVE PInv'
    <2>1. waiting' = [waiting EXCEPT ![b] = "none"]
      BY <1>4 DEF ClearChat, PInv, PageTyped
    <2> QED BY <1>4, <2>1, TakeOverKeepsPage DEF ClearChat, Set, Partialize
  <1>5. ASSUME NEW b \in Tabs, Reload(b) PROVE PInv'
    <2>1. answers' \subseteq answers
      BY <1>5 DEF Reload
    <2> QED BY <1>5, <2>1, TakeOverKeepsPage DEF Reload
  <1>6. ASSUME NEW t \in Turns, ServeTurn(t) \/ ServeSummary(t) PROVE PInv'
    <2>1. UNCHANGED <<store, saved, waiting, sent, under, by>>
      BY <1>6 DEF ServeTurn, ServeSummary, page
    <2>2. \A u \in Turns : pc[u] = "idle" => pc'[u] = "idle"
      BY <1>6 DEF ServeTurn, ServeSummary, Classify, Execute, Generate, Summarise, TypeOK
    <2>3. pc[t] # "idle" \/ answers' = answers
      BY <1>6 DEF ServeTurn, ServeSummary, Generate, page
    <2>4. answers' \subseteq answers \cup {t}
      BY <1>6 DEF ServeTurn, ServeSummary, page
    <2>5. \A u \in answers' : u \in Turns /\ pc'[u] # "idle"
      BY <1>1, <2>3, <2>4, TurnsStay DEF PInv, PageTyped, WaitsForItsOwn
    <2> QED BY <1>1, <2>1, <2>2, <2>5, ServingKeepsPage
  <1>7. ASSUME UNCHANGED page, Crash \/ UNCHANGED vars PROVE PInv'
    <2>1. \A u \in Turns : pc[u] = "idle" => pc'[u] = "idle"
      BY <1>7 DEF Crash, vars
    <2>2. \A u \in answers' : u \in Turns /\ pc'[u] # "idle"
      BY <1>1, <1>7, TurnsStay DEF page, PInv, PageTyped, WaitsForItsOwn
    <2> QED BY <1>1, <1>7, <2>1, <2>2, ServingKeepsPage DEF page
  <1> QED BY <1>1, <1>2, <1>3, <1>4, <1>5, <1>6, <1>7, SendKeepsPage, ReceiveKeepsPage,
             ArriveKeepsPage DEF PageNext, pageVars

\* What the invariant says of the page and its session.
LEMMA PInvAgrees == TypeOK /\ PInv => PageAndSessionAgree
  <1> SUFFICES ASSUME TypeOK, PInv PROVE PageAndSessionAgree
    OBVIOUS
  <1>1. AnswersAreOfTheSession
    BY TurnsOfFacts DEF PInv, AnswersOf, SaidWhereItIs, AnswersAreOfTheSession
  <1>2. ASSUME NEW b \in Tabs, NEW q \in Questions, NEW t \in TurnsOf(q),
               OnlyBy(b), store[b].sessionId # "none",
               In(Question(t), said[store[b].sessionId])
        PROVE  Shows(store[b], q, "question")
    <2>1. PICK s \in Sessions : s = store[b].sessionId
      BY <1>2 DEF PInv, PageTyped, Chats
    <2>2. t \in Turns /\ pc[t] # "idle" /\ in[t] = s
      BY <1>2, <2>1, TurnsOfFacts DEF PInv, SaidWhereItIs
    <2>3. CASE under[q] # "none"
      BY <1>2, <2>1, <2>2, <2>3 DEF PInv, InTheSessionSent, ShowsItsQuestions
    <2>4. CASE under[q] = "none"
      <3>1. PICK p \in Questions : Introduced(p, s)
        BY <2>1 DEF PInv, KnownIsIntroduced
      <3>2. ChatOf[p] = t
        BY <2>2, <2>4, <3>1, TurnsOfFacts DEF PInv, OwnSession, Introduced
      <3>3. p = q
        BY <3>2, TurnsOfFacts
      <3> QED BY <1>2, <2>1, <2>2, <2>4, <3>2, <3>3 DEF PInv, ShowsItsQuestions
    <2> QED BY <2>3, <2>4
  <1> QED BY <1>1, <1>2 DEF SessionIsOnThePage, OnlyBy, PageAndSessionAgree

\* The page and the server together: each step of the page is one of the chat, or none.
LEMMA PageInvariant == PageSpec => [](IInv /\ PInv)
  <1>1. PageInit => IInv /\ PInv
    BY InitInv, PageInitInv DEF PageInit
  <1>2. IInv /\ PInv /\ [PageNext]_pageVars => (IInv /\ PInv)'
    BY StepKeeps, PageStepIsChatStep, PageStepKeeps DEF IInv, PInv
  <1> QED BY <1>1, <1>2, PTL DEF PageSpec

\* The page uses the server as ChatMemory describes it, so that all that is proved of
\* sessions holds of those of the page.
THEOREM PageImplementsChat == PageSpec => Spec
  <1>1. PageInit => Init
    BY DEF PageInit
  <1>2. IInv /\ PInv /\ [PageNext]_pageVars => [Next]_vars
    BY PageStepIsChatStep DEF PInv
  <1> QED BY <1>1, <1>2, PageInvariant, PTL DEF PageSpec, Spec

\* Whatever is lost, reloaded, cleared or asked in however many tabs, a page shows answers
\* of the session it is in only; and one that alone has asked shows all questions its
\* session holds.
THEOREM PageAndSessionAlwaysAgree == PageSpec => []PageAndSessionAgree
  <1>1. IInv /\ PInv => PageAndSessionAgree
    BY PInvAgrees DEF IInv
  <1> QED BY <1>1, PageInvariant, PTL

-----------------------------------------------------------------------------
(* Documents: the inductive invariant                                        *)

UploadPlaces == {"idle", "extract", "embed", "schema", "insert", "readBack", "over", "dead"}
ClientPlaces == {"idle", "listSchema", "listRows", "listRecords", "deleteRows",
                 "searchSchema", "searchRows", "searchMap", "over", "dead"}

\* What an upload has stored at each of its places.
Stored(d) ==
    /\ at[d] \in UploadPlaces
    /\ at[d] \in {"idle", "extract", "embed"} => d \notin rows /\ d \notin memory
    /\ at[d] \in {"schema", "insert"} => d \notin rows
    /\ at[d] \in {"schema", "insert", "readBack"} => d \in memory
    /\ at[d] = "readBack" => d \in rows \/ d \in troubled \/ d \in asked

\* Nobody can ask to delete what nobody has been told of, and the id of an upload
\* is told with its answer.
Known(d) ==
    /\ at[d] \notin {"readBack", "over", "dead"} => d \notin asked /\ <<d, "row">> \notin told
    /\ at[d] # "over" => <<d, "file">> \notin told /\ records[d] = "none"

Answered(d) ==
    /\ Accepted(d) => d \in rows \/ d \in troubled
    /\ Accepted(d) => d \in memory \/ crashed
    /\ reply[d] \in {"refused", "failed"} /\ d \notin troubled /\ d \notin asked =>
           d \notin rows /\ d \notin memory

\* What a client has seen.
Seen(c) ==
    /\ at[c] \in ClientPlaces
    /\ at[c] \in {"deleteRows", "searchSchema", "searchRows", "searchMap"} => aim[c] \in Docs
    /\ at[c] = "deleteRows" => aim[c] \in asked
    /\ at[c] \in {"searchSchema", "searchRows"} => found[c] = "error"
    /\ at[c] = "searchMap" /\ found[c] = "nothing" /\ Accepted(aim[c]) =>
           aim[c] \in troubled \/ aim[c] \in memory

KnowledgeInv ==
    /\ Typed
    /\ \A d \in Docs : Stored(d) /\ Known(d) /\ Answered(d)
    /\ \A c \in Clients : Seen(c)

\* Documents are not clients.
LEMMA Apart == Docs \cap Clients = {} /\ Docs \subseteq Requests /\ Clients \subseteq Requests
  BY NamesAssumption DEF Requests

LEMMA KnowledgeInitInv == KnowledgeInit => KnowledgeInv
  <1> SUFFICES ASSUME KnowledgeInit PROVE KnowledgeInv
    OBVIOUS
  <1> USE Apart
  <1>1. Typed
    BY DEF KnowledgeInit, Typed, Places, Replies, Names
  <1>2. ASSUME NEW d \in Docs PROVE Stored(d) /\ Known(d) /\ Answered(d)
    <2>1. at[d] = "idle" /\ reply[d] = "none" /\ records[d] = "none"
      BY <1>2 DEF KnowledgeInit
    <2> QED BY <2>1 DEF KnowledgeInit, Stored, Known, Answered, Accepted, UploadPlaces
  <1>3. ASSUME NEW c \in Clients PROVE Seen(c)
    <2>1. at[c] = "idle"
      BY <1>3 DEF KnowledgeInit
    <2> QED BY <2>1 DEF Seen, ClientPlaces
  <1> QED BY <1>1, <1>2, <1>3 DEF KnowledgeInv

-----------------------------------------------------------------------------
(* Documents: uploads                                                        *)

LEMMA ReceiveUploadKeeps == ASSUME KnowledgeInv, NEW d \in Docs, ReceiveUpload(d) PROVE KnowledgeInv'
  <1> USE Apart
  <1>1. ASSUME NEW r \in Requests, r # d PROVE at'[r] = at[r] /\ reply'[r] = reply[r]
    BY <1>1 DEF KnowledgeInv, Typed, ReceiveUpload, Record, Answer, GoTo, history
  <1>2. Typed'
    <2>1. schema' \in BOOLEAN /\ crashed' \in BOOLEAN
      BY DEF KnowledgeInv, Typed, ReceiveUpload, Record, Answer, GoTo, history
    <2> QED BY <2>1 DEF KnowledgeInv, ReceiveUpload, Record, Answer, GoTo, history, Typed,
                        Places, Replies, Names, Requests
  <1>3. Stored(d)' /\ Known(d)' /\ Answered(d)'
    <2>1. Stored(d)' /\ Known(d)'
      BY DEF KnowledgeInv, Stored, Known, UploadPlaces, ReceiveUpload, Record, Answer, GoTo,
             history, Typed, Names, Requests
    <2>2. Answered(d)'
      BY DEF KnowledgeInv, Stored, Known, Answered, Accepted, UploadPlaces, ReceiveUpload,
             Record, Answer, GoTo, history, Typed, Requests
    <2> QED BY <2>1, <2>2
  <1>4. ASSUME NEW x \in Docs, x # d PROVE Stored(x)' /\ Known(x)' /\ Answered(x)'
    <2>1. at'[x] = at[x] /\ reply'[x] = reply[x]
      BY <1>1, <1>4
    <2>2. records'[x] = records[x] /\ (\A n : <<x, n>> \in told' <=> <<x, n>> \in told)
      BY <1>4 DEF KnowledgeInv, Typed, ReceiveUpload, Record, Answer, GoTo, history
    <2> QED BY <1>4, <2>1, <2>2 DEF KnowledgeInv, Stored, Known, Answered, Accepted,
                                    ReceiveUpload, Record, Answer, GoTo, history
  <1>5. ASSUME NEW c \in Clients PROVE Seen(c)'
    <2>1. at'[c] = at[c]
      BY <1>1
    <2> QED BY <2>1, <1>1 DEF KnowledgeInv, Stored, Seen, Accepted, ReceiveUpload, Record,
                              Answer, GoTo, history, Typed, Requests
  <1> QED BY <1>2, <1>3, <1>4, <1>5 DEF KnowledgeInv

LEMMA ExtractKeeps == ASSUME KnowledgeInv, NEW d \in Docs, Extract(d) PROVE KnowledgeInv'
  <1> USE Apart
  <1>1. ASSUME NEW r \in Requests, r # d PROVE at'[r] = at[r] /\ reply'[r] = reply[r]
    BY <1>1 DEF KnowledgeInv, Typed, Extract, Record, Throw, Answer, GoTo, history
  <1>2. Typed'
    <2>1. schema' \in BOOLEAN /\ crashed' \in BOOLEAN
      BY DEF KnowledgeInv, Typed, Extract, Record, Throw, Answer, GoTo, history
    <2> QED BY <2>1 DEF KnowledgeInv, Extract, Record, Throw, Answer, GoTo, history, Typed,
                        Places, Replies, Names, Requests
  <1>3. Stored(d)' /\ Known(d)' /\ Answered(d)'
    <2>1. Stored(d)' /\ Known(d)'
      BY DEF KnowledgeInv, Stored, Known, UploadPlaces, Extract, Record, Throw, Answer, GoTo,
             history, Typed, Names, Requests
    <2>2. Answered(d)'
      BY DEF KnowledgeInv, Stored, Known, Answered, Accepted, UploadPlaces, Extract, Record,
             Throw, Answer, GoTo, history, Typed, Requests
    <2> QED BY <2>1, <2>2
  <1>4. ASSUME NEW x \in Docs, x # d PROVE Stored(x)' /\ Known(x)' /\ Answered(x)'
    <2>1. at'[x] = at[x] /\ reply'[x] = reply[x]
      BY <1>1, <1>4
    <2>2. records'[x] = records[x] /\ (\A n : <<x, n>> \in told' <=> <<x, n>> \in told)
      BY <1>4 DEF KnowledgeInv, Typed, Extract, Record, Throw, Answer, GoTo, history
    <2> QED BY <1>4, <2>1, <2>2 DEF KnowledgeInv, Stored, Known, Answered, Accepted, Extract,
                                    Record, Throw, Answer, GoTo, history
  <1>5. ASSUME NEW c \in Clients PROVE Seen(c)'
    <2>1. at'[c] = at[c]
      BY <1>1
    <2> QED BY <2>1, <1>1 DEF KnowledgeInv, Stored, Seen, Accepted, Extract, Record, Throw,
                              Answer, GoTo, history, Typed, Requests
  <1> QED BY <1>2, <1>3, <1>4, <1>5 DEF KnowledgeInv

LEMMA EmbedKeeps == ASSUME KnowledgeInv, NEW d \in Docs, Embed(d) PROVE KnowledgeInv'
  <1> USE Apart
  <1>1. ASSUME NEW r \in Requests, r # d PROVE at'[r] = at[r] /\ reply'[r] = reply[r]
    BY <1>1 DEF KnowledgeInv, Typed, Embed, GoTo, history
  <1>2. Typed'
    <2>1. schema' \in BOOLEAN /\ crashed' \in BOOLEAN
      BY DEF KnowledgeInv, Typed, Embed, GoTo, history
    <2> QED BY <2>1 DEF KnowledgeInv, Embed, GoTo, history, Typed, Places, Replies, Names,
                        Requests
  <1>3. Stored(d)' /\ Known(d)' /\ Answered(d)'
    <2>1. Stored(d)' /\ Known(d)'
      BY DEF KnowledgeInv, Stored, Known, UploadPlaces, Embed, GoTo, history, Typed, Names,
             Requests
    <2>2. Answered(d)'
      BY DEF KnowledgeInv, Stored, Known, Answered, Accepted, UploadPlaces, Embed, GoTo,
             history, Typed, Requests
    <2> QED BY <2>1, <2>2
  <1>4. ASSUME NEW x \in Docs, x # d PROVE Stored(x)' /\ Known(x)' /\ Answered(x)'
    <2>1. at'[x] = at[x] /\ reply'[x] = reply[x]
      BY <1>1, <1>4
    <2>2. records'[x] = records[x] /\ (\A n : <<x, n>> \in told' <=> <<x, n>> \in told)
      BY <1>4 DEF KnowledgeInv, Typed, Embed, GoTo, history
    <2> QED BY <1>4, <2>1, <2>2 DEF KnowledgeInv, Stored, Known, Answered, Accepted, Embed,
                                    GoTo, history
  <1>5. ASSUME NEW c \in Clients PROVE Seen(c)'
    <2>1. at'[c] = at[c]
      BY <1>1
    <2> QED BY <2>1, <1>1 DEF KnowledgeInv, Stored, Seen, Accepted, Embed, GoTo, history, Typed,
                              Requests
  <1> QED BY <1>2, <1>3, <1>4, <1>5 DEF KnowledgeInv

LEMMA PrepareUploadKeeps == ASSUME KnowledgeInv, NEW d \in Docs, PrepareUpload(d) PROVE KnowledgeInv'
  <1> USE Apart
  <1>1. ASSUME NEW r \in Requests, r # d PROVE at'[r] = at[r] /\ reply'[r] = reply[r]
    BY <1>1 DEF KnowledgeInv, Typed, PrepareUpload, Throw, Trouble, Answer, GoTo, history
  <1>2. Typed'
    <2>1. schema' \in BOOLEAN /\ crashed' \in BOOLEAN
      BY DEF KnowledgeInv, Typed, PrepareUpload, Throw, Trouble, Answer, GoTo, history
    <2> QED BY <2>1 DEF KnowledgeInv, PrepareUpload, Throw, Trouble, Answer, GoTo, history,
                        Typed, Places, Replies, Names, Requests
  <1>3. Stored(d)' /\ Known(d)' /\ Answered(d)'
    <2>1. Stored(d)' /\ Known(d)'
      BY DEF KnowledgeInv, Stored, Known, UploadPlaces, PrepareUpload, Throw, Trouble, Answer,
             GoTo, history, Typed, Names, Requests
    <2>2. Answered(d)'
      BY DEF KnowledgeInv, Stored, Known, Answered, Accepted, UploadPlaces, PrepareUpload,
             Throw, Trouble, Answer, GoTo, history, Typed, Requests
    <2> QED BY <2>1, <2>2
  <1>4. ASSUME NEW x \in Docs, x # d PROVE Stored(x)' /\ Known(x)' /\ Answered(x)'
    <2>1. at'[x] = at[x] /\ reply'[x] = reply[x]
      BY <1>1, <1>4
    <2>2. records'[x] = records[x] /\ (\A n : <<x, n>> \in told' <=> <<x, n>> \in told)
      BY <1>4 DEF KnowledgeInv, Typed, PrepareUpload, Throw, Trouble, Answer, GoTo, history
    <2> QED BY <1>4, <2>1, <2>2 DEF KnowledgeInv, Stored, Known, Answered, Accepted,
                                    PrepareUpload, Throw, Trouble, Answer, GoTo, history
  <1>5. ASSUME NEW c \in Clients PROVE Seen(c)'
    <2>1. at'[c] = at[c]
      BY <1>1
    <2> QED BY <2>1, <1>1 DEF KnowledgeInv, Stored, Seen, Accepted, PrepareUpload, Throw,
                              Trouble, Answer, GoTo, history, Typed, Requests
  <1> QED BY <1>2, <1>3, <1>4, <1>5 DEF KnowledgeInv

LEMMA InsertKeeps == ASSUME KnowledgeInv, NEW d \in Docs, Insert(d) PROVE KnowledgeInv'
  <1> USE Apart
  <1>1. ASSUME NEW r \in Requests, r # d PROVE at'[r] = at[r] /\ reply'[r] = reply[r]
    BY <1>1 DEF KnowledgeInv, Typed, Insert, Trouble, GoTo, Outcomes, history
  <1>2. Typed'
    <2>1. schema' \in BOOLEAN /\ crashed' \in BOOLEAN
      BY DEF KnowledgeInv, Typed, Insert, Trouble, GoTo, Outcomes, history
    <2> QED BY <2>1 DEF KnowledgeInv, Insert, Trouble, GoTo, Outcomes, history, Typed, Places,
                        Replies, Names, Requests
  <1>3. Stored(d)' /\ Known(d)' /\ Answered(d)'
    <2>1. Stored(d)' /\ Known(d)'
      <3>1. ASSUME NEW o \in Outcomes PROVE o.told => o.done
        <4>1. CASE o = [done |-> TRUE, told |-> TRUE]
          BY <4>1
        <4>2. CASE o \in [done : BOOLEAN, told : {FALSE}]
          BY <4>2
        <4> QED BY <4>1, <4>2 DEF Outcomes
      <3>2. PICK o \in Outcomes : /\ rows' = IF o.done THEN rows \cup {d} ELSE rows
                                 /\ IF o.told THEN UNCHANGED troubled ELSE Trouble(d)
        BY DEF Insert
      <3>3. d \in rows' \/ d \in troubled'
        BY <3>1, <3>2 DEF Trouble
      <3>4. at[d] = "insert" /\ at'[d] = "readBack" /\ UNCHANGED <<memory, asked, told, records>>
        BY DEF Insert, GoTo, KnowledgeInv, Typed, history
      <3> QED BY <3>3, <3>4 DEF KnowledgeInv, Stored, Known, UploadPlaces
    <2>2. Answered(d)'
      BY DEF KnowledgeInv, Stored, Known, Answered, Accepted, UploadPlaces, Insert, Trouble,
             GoTo, Outcomes, history, Typed, Requests
    <2> QED BY <2>1, <2>2
  <1>4. ASSUME NEW x \in Docs, x # d PROVE Stored(x)' /\ Known(x)' /\ Answered(x)'
    <2>1. at'[x] = at[x] /\ reply'[x] = reply[x]
      BY <1>1, <1>4
    <2>2. records'[x] = records[x] /\ (\A n : <<x, n>> \in told' <=> <<x, n>> \in told)
      BY <1>4 DEF KnowledgeInv, Typed, Insert, Trouble, GoTo, Outcomes, history
    <2> QED BY <1>4, <2>1, <2>2 DEF KnowledgeInv, Stored, Known, Answered, Accepted, Insert,
                                    Trouble, GoTo, Outcomes, history
  <1>5. ASSUME NEW c \in Clients PROVE Seen(c)'
    <2>1. at'[c] = at[c]
      BY <1>1
    <2> QED BY <2>1, <1>1 DEF KnowledgeInv, Stored, Seen, Accepted, Insert, Trouble, GoTo,
                              Outcomes, history, Typed, Requests
  <1> QED BY <1>2, <1>3, <1>4, <1>5 DEF KnowledgeInv

LEMMA ReadBackKeeps == ASSUME KnowledgeInv, NEW d \in Docs, ReadBack(d) PROVE KnowledgeInv'
  <1> USE Apart
  <1>1. ASSUME NEW r \in Requests, r # d PROVE at'[r] = at[r] /\ reply'[r] = reply[r]
    BY <1>1 DEF KnowledgeInv, Typed, ReadBack, Record, Trouble, Answer, GoTo, history
  <1>2. Typed'
    <2>1. schema' \in BOOLEAN /\ crashed' \in BOOLEAN
      BY DEF KnowledgeInv, Typed, ReadBack, Record, Trouble, Answer, GoTo, history
    <2> QED BY <2>1 DEF KnowledgeInv, ReadBack, Record, Trouble, Answer, GoTo, history, Typed,
                        Places, Replies, Names, Requests
  <1>3. Stored(d)' /\ Known(d)' /\ Answered(d)'
    <2>1. Stored(d)' /\ Known(d)'
      BY DEF KnowledgeInv, Stored, Known, UploadPlaces, ReadBack, Record, Trouble, Answer, GoTo,
             history, Typed, Names, Requests
    <2>2. Answered(d)'
      BY DEF KnowledgeInv, Stored, Known, Answered, Accepted, UploadPlaces, ReadBack, Record,
             Trouble, Answer, GoTo, history, Typed, Requests
    <2> QED BY <2>1, <2>2
  <1>4. ASSUME NEW x \in Docs, x # d PROVE Stored(x)' /\ Known(x)' /\ Answered(x)'
    <2>1. at'[x] = at[x] /\ reply'[x] = reply[x]
      BY <1>1, <1>4
    <2>2. records'[x] = records[x] /\ (\A n : <<x, n>> \in told' <=> <<x, n>> \in told)
      BY <1>4 DEF KnowledgeInv, Typed, ReadBack, Record, Trouble, Answer, GoTo, history
    <2> QED BY <1>4, <2>1, <2>2 DEF KnowledgeInv, Stored, Known, Answered, Accepted, ReadBack,
                                    Record, Trouble, Answer, GoTo, history
  <1>5. ASSUME NEW c \in Clients PROVE Seen(c)'
    <2>1. at'[c] = at[c]
      BY <1>1
    <2> QED BY <2>1, <1>1 DEF KnowledgeInv, Stored, Seen, Accepted, ReadBack, Record, Trouble,
                              Answer, GoTo, history, Typed, Requests
  <1> QED BY <1>2, <1>3, <1>4, <1>5 DEF KnowledgeInv

-----------------------------------------------------------------------------
(* Documents: clients                                                        *)

\* What another request leaves to a client
Elsewhere(x) ==
    /\ at'[x] = at[x] /\ aim'[x] = aim[x] /\ found'[x] = found[x]
    /\ asked \subseteq asked' /\ troubled' = troubled /\ memory \subseteq memory' \cup asked'
    /\ \A d \in Docs : reply'[d] = reply[d]

\* It finds what it would have found, or somebody has asked for a deletion.
LEMMA SeenStays ==
    ASSUME NEW x \in Clients, Seen(x), Elsewhere(x)
    PROVE  Seen(x)'
  <1>1. at'[x] = "searchMap" /\ found'[x] = "nothing" /\ Accepted(aim[x])' =>
           aim[x] \in troubled \/ aim[x] \in memory'
    <2> SUFFICES ASSUME at[x] = "searchMap", found[x] = "nothing", Accepted(aim[x])'
                 PROVE  aim[x] \in troubled \/ aim[x] \in memory'
      BY DEF Elsewhere
    <2>1. aim[x] \in Docs
      BY DEF Seen
    <2>2. reply[aim[x]] = "accepted" /\ aim[x] \notin asked'
      BY <2>1 DEF Accepted, Elsewhere
    <2>3. aim[x] \in troubled \/ aim[x] \in memory
      BY <2>2 DEF Seen, Accepted, Elsewhere
    <2> QED BY <2>2, <2>3 DEF Elsewhere
  <1> QED BY <1>1 DEF Seen, Elsewhere, Accepted

LEMMA StartListKeeps == ASSUME KnowledgeInv, NEW c \in Clients, StartList(c) PROVE KnowledgeInv'
  <1> USE Apart
  <1>1. ASSUME NEW r \in Requests, r # c PROVE at'[r] = at[r] /\ reply'[r] = reply[r]
    BY <1>1 DEF KnowledgeInv, Typed, StartList, GoTo, history
  <1>2. Typed'
    <2>1. schema' \in BOOLEAN /\ crashed' \in BOOLEAN
      BY DEF KnowledgeInv, Typed, StartList, GoTo, history
    <2> QED BY <2>1 DEF KnowledgeInv, Seen, StartList, GoTo, history, Typed, Places, Replies,
                        Names, Requests
  <1>3. ASSUME NEW x \in Docs PROVE Stored(x)' /\ Known(x)' /\ Answered(x)'
    <2>1. at'[x] = at[x] /\ reply'[x] = reply[x]
      BY <1>1
    <2> QED BY <2>1 DEF KnowledgeInv, Stored, Known, Answered, Accepted, Seen, Typed, StartList,
                        GoTo, history
  <1>4. Seen(c)'
    BY <1>1 DEF KnowledgeInv, Stored, Answered, Accepted, Seen, ClientPlaces, StartList, GoTo,
                history, Typed, Requests
  <1>5. ASSUME NEW x \in Clients, x # c PROVE Seen(x)'
    <2>1. at'[x] = at[x] /\ \A d \in Docs : reply'[d] = reply[d]
      BY <1>1, <1>5
    <2>2. Typed /\ Seen(x)
      BY DEF KnowledgeInv
    <2>3. aim'[x] = aim[x] /\ found'[x] = found[x]
      BY <1>5, <2>2 DEF Typed, StartList
    <2>4. asked \subseteq asked' /\ troubled' = troubled /\ memory \subseteq memory' \cup asked'
      BY DEF StartList, history
    <2> QED BY <2>1, <2>2, <2>3, <2>4, SeenStays DEF Elsewhere
  <1> QED BY <1>2, <1>3, <1>4, <1>5 DEF KnowledgeInv

LEMMA PrepareListKeeps == ASSUME KnowledgeInv, NEW c \in Clients, PrepareList(c) PROVE KnowledgeInv'
  <1> USE Apart
  <1>1. ASSUME NEW r \in Requests, r # c PROVE at'[r] = at[r] /\ reply'[r] = reply[r]
    BY <1>1 DEF KnowledgeInv, Typed, PrepareList, Prepare, GoTo, history
  <1>2. Typed'
    <2>1. schema' \in BOOLEAN /\ crashed' \in BOOLEAN
      BY DEF KnowledgeInv, Typed, PrepareList, Prepare, GoTo, history
    <2> QED BY <2>1 DEF KnowledgeInv, Seen, PrepareList, Prepare, GoTo, history, Typed, Places,
                        Replies, Names, Requests
  <1>3. ASSUME NEW x \in Docs PROVE Stored(x)' /\ Known(x)' /\ Answered(x)'
    <2>1. at'[x] = at[x] /\ reply'[x] = reply[x]
      BY <1>1
    <2> QED BY <2>1 DEF KnowledgeInv, Stored, Known, Answered, Accepted, Seen, Typed,
                        PrepareList, Prepare, GoTo, history
  <1>4. Seen(c)'
    BY <1>1 DEF KnowledgeInv, Stored, Answered, Accepted, Seen, ClientPlaces, PrepareList,
                Prepare, GoTo, history, Typed, Requests
  <1>5. ASSUME NEW x \in Clients, x # c PROVE Seen(x)'
    <2>1. at'[x] = at[x] /\ \A d \in Docs : reply'[d] = reply[d]
      BY <1>1, <1>5
    <2>2. Typed /\ Seen(x)
      BY DEF KnowledgeInv
    <2>3. aim'[x] = aim[x] /\ found'[x] = found[x]
      BY <1>5, <2>2 DEF Typed, PrepareList, Prepare
    <2>4. asked \subseteq asked' /\ troubled' = troubled /\ memory \subseteq memory' \cup asked'
      BY DEF PrepareList, Prepare, history
    <2> QED BY <2>1, <2>2, <2>3, <2>4, SeenStays DEF Elsewhere
  <1> QED BY <1>2, <1>3, <1>4, <1>5 DEF KnowledgeInv

LEMMA ListRowsKeeps == ASSUME KnowledgeInv, NEW c \in Clients, ListRows(c) PROVE KnowledgeInv'
  <1> USE Apart
  <1>1. ASSUME NEW r \in Requests, r # c PROVE at'[r] = at[r] /\ reply'[r] = reply[r]
    BY <1>1 DEF KnowledgeInv, Typed, ListRows, Answer, GoTo, history
  <1>2. Typed'
    <2>1. schema' \in BOOLEAN /\ crashed' \in BOOLEAN
      BY DEF KnowledgeInv, Typed, ListRows, Answer, GoTo, history
    <2> QED BY <2>1 DEF KnowledgeInv, Seen, ListRows, Answer, GoTo, history, Typed, Places,
                        Replies, Names, Requests
  <1>3. ASSUME NEW x \in Docs PROVE Stored(x)' /\ Known(x)' /\ Answered(x)'
    <2>1. at'[x] = at[x] /\ reply'[x] = reply[x]
      BY <1>1
    <2>2. /\ <<x, "file">> \in told' => <<x, "file">> \in told \/ records[x] # "none"
          /\ <<x, "row">> \in told' => <<x, "row">> \in told \/ x \in rows
      <3>1. told' = told \/ told' = told \cup (rows \X {"row"})
        BY DEF ListRows
      <3> QED BY <3>1
    <2> QED BY <2>1, <2>2 DEF KnowledgeInv, Stored, Known, Answered, Accepted, UploadPlaces,
                              ListRows, Answer, GoTo, history
  <1>4. Seen(c)'
    BY <1>1 DEF KnowledgeInv, Stored, Answered, Accepted, Seen, ClientPlaces, ListRows, Answer,
                GoTo, history, Typed, Requests
  <1>5. ASSUME NEW x \in Clients, x # c PROVE Seen(x)'
    <2>1. at'[x] = at[x] /\ \A d \in Docs : reply'[d] = reply[d]
      BY <1>1, <1>5
    <2>2. Typed /\ Seen(x)
      BY DEF KnowledgeInv
    <2>3. aim'[x] = aim[x] /\ found'[x] = found[x]
      BY <1>5, <2>2 DEF Typed, ListRows
    <2>4. asked \subseteq asked' /\ troubled' = troubled /\ memory \subseteq memory' \cup asked'
      BY DEF ListRows, history
    <2> QED BY <2>1, <2>2, <2>3, <2>4, SeenStays DEF Elsewhere
  <1> QED BY <1>2, <1>3, <1>4, <1>5 DEF KnowledgeInv

LEMMA ListRecordsKeeps == ASSUME KnowledgeInv, NEW c \in Clients, ListRecords(c) PROVE KnowledgeInv'
  <1> USE Apart
  <1>1. ASSUME NEW r \in Requests, r # c PROVE at'[r] = at[r] /\ reply'[r] = reply[r]
    BY <1>1 DEF KnowledgeInv, Typed, ListRecords, Answer, GoTo, history
  <1>2. Typed'
    <2>1. schema' \in BOOLEAN /\ crashed' \in BOOLEAN
      BY DEF KnowledgeInv, Typed, ListRecords, Answer, GoTo, history
    <2> QED BY <2>1 DEF KnowledgeInv, Seen, ListRecords, Answer, GoTo, history, Typed, Places,
                        Replies, Names, Requests
  <1>3. ASSUME NEW x \in Docs PROVE Stored(x)' /\ Known(x)' /\ Answered(x)'
    <2>1. at'[x] = at[x] /\ reply'[x] = reply[x]
      BY <1>1
    <2>2. /\ <<x, "file">> \in told' => <<x, "file">> \in told \/ records[x] # "none"
          /\ <<x, "row">> \in told' => <<x, "row">> \in told \/ x \in rows
      BY DEF ListRecords
    <2> QED BY <2>1, <2>2 DEF KnowledgeInv, Stored, Known, Answered, Accepted, ListRecords,
                              Answer, GoTo, history
  <1>4. Seen(c)'
    BY <1>1 DEF KnowledgeInv, Stored, Answered, Accepted, Seen, ClientPlaces, ListRecords,
                Answer, GoTo, history, Typed, Requests
  <1>5. ASSUME NEW x \in Clients, x # c PROVE Seen(x)'
    <2>1. at'[x] = at[x] /\ \A d \in Docs : reply'[d] = reply[d]
      BY <1>1, <1>5
    <2>2. Typed /\ Seen(x)
      BY DEF KnowledgeInv
    <2>3. aim'[x] = aim[x] /\ found'[x] = found[x]
      BY <1>5, <2>2 DEF Typed, ListRecords
    <2>4. asked \subseteq asked' /\ troubled' = troubled /\ memory \subseteq memory' \cup asked'
      BY DEF ListRecords, history
    <2> QED BY <2>1, <2>2, <2>3, <2>4, SeenStays DEF Elsewhere
  <1> QED BY <1>2, <1>3, <1>4, <1>5 DEF KnowledgeInv

LEMMA StartDeleteKeeps == ASSUME KnowledgeInv, NEW c \in Clients, StartDelete(c) PROVE KnowledgeInv'
  <1> USE Apart
  <1>1. ASSUME NEW r \in Requests, r # c PROVE at'[r] = at[r] /\ reply'[r] = reply[r]
    BY <1>1 DEF KnowledgeInv, Typed, StartDelete, GoTo, history
  <1>2. Typed'
    <2>1. schema' \in BOOLEAN /\ crashed' \in BOOLEAN
      BY DEF KnowledgeInv, Typed, StartDelete, GoTo, history
    <2> QED BY <2>1 DEF KnowledgeInv, Seen, StartDelete, GoTo, history, Typed, Places, Replies,
                        Names, Requests
  <1>3. ASSUME NEW x \in Docs PROVE Stored(x)' /\ Known(x)' /\ Answered(x)'
    <2>1. at'[x] = at[x] /\ reply'[x] = reply[x]
      BY <1>1
    <2>2. PICK d \in Docs, n \in Names :
            /\ <<d, n>> \in told
            /\ asked' = asked \cup {d}
            /\ memory' = IF n = "file" THEN memory \ {d} ELSE memory
            /\ records' = IF n = "file" THEN [records EXCEPT ![d] = "none"] ELSE records
      BY DEF StartDelete
    <2>3. at[d] \in {"readBack", "over", "dead"} /\ (n = "file" => at[d] = "over")
      BY <2>2 DEF KnowledgeInv, Stored, Known, Names, UploadPlaces
    <2> QED BY <2>1, <2>2, <2>3 DEF KnowledgeInv, Stored, Known, Answered, Accepted, Typed,
                                    StartDelete, history
  <1>4. Seen(c)'
    BY <1>1 DEF KnowledgeInv, Stored, Answered, Accepted, Seen, ClientPlaces, StartDelete, GoTo,
                history, Typed, Requests
  <1>5. ASSUME NEW x \in Clients, x # c PROVE Seen(x)'
    <2>1. at'[x] = at[x] /\ \A d \in Docs : reply'[d] = reply[d]
      BY <1>1, <1>5
    <2>2. Typed /\ Seen(x)
      BY DEF KnowledgeInv
    <2>3. aim'[x] = aim[x] /\ found'[x] = found[x]
      BY <1>5, <2>2 DEF Typed, StartDelete
    <2>4. asked \subseteq asked' /\ troubled' = troubled /\ memory \subseteq memory' \cup asked'
      BY DEF StartDelete, history
    <2> QED BY <2>1, <2>2, <2>3, <2>4, SeenStays DEF Elsewhere
  <1> QED BY <1>2, <1>3, <1>4, <1>5 DEF KnowledgeInv

LEMMA DeleteRowsKeeps == ASSUME KnowledgeInv, NEW c \in Clients, DeleteRows(c) PROVE KnowledgeInv'
  <1> USE Apart
  <1>1. ASSUME NEW r \in Requests, r # c PROVE at'[r] = at[r] /\ reply'[r] = reply[r]
    BY <1>1 DEF KnowledgeInv, Typed, DeleteRows, Answer, GoTo, history
  <1>2. Typed'
    <2>1. schema' \in BOOLEAN /\ crashed' \in BOOLEAN
      BY DEF KnowledgeInv, Typed, DeleteRows, Answer, GoTo, history
    <2> QED BY <2>1 DEF KnowledgeInv, Seen, DeleteRows, Answer, GoTo, history, Typed, Places,
                        Replies, Names, Requests
  <1>3. ASSUME NEW x \in Docs PROVE Stored(x)' /\ Known(x)' /\ Answered(x)'
    <2>1. at'[x] = at[x] /\ reply'[x] = reply[x]
      BY <1>1
    <2> QED BY <2>1 DEF KnowledgeInv, Stored, Known, Answered, Accepted, Seen, Typed,
                        DeleteRows, Answer, GoTo, history
  <1>4. Seen(c)'
    BY <1>1 DEF KnowledgeInv, Stored, Answered, Accepted, Seen, ClientPlaces, DeleteRows,
                Answer, GoTo, history, Typed, Requests
  <1>5. ASSUME NEW x \in Clients, x # c PROVE Seen(x)'
    <2>1. at'[x] = at[x] /\ \A d \in Docs : reply'[d] = reply[d]
      BY <1>1, <1>5
    <2>2. Typed /\ Seen(x)
      BY DEF KnowledgeInv
    <2>3. aim'[x] = aim[x] /\ found'[x] = found[x]
      BY <1>5, <2>2 DEF Typed, DeleteRows
    <2>4. asked \subseteq asked' /\ troubled' = troubled /\ memory \subseteq memory' \cup asked'
      BY DEF DeleteRows, history
    <2> QED BY <2>1, <2>2, <2>3, <2>4, SeenStays DEF Elsewhere
  <1> QED BY <1>2, <1>3, <1>4, <1>5 DEF KnowledgeInv

LEMMA StartSearchKeeps == ASSUME KnowledgeInv, NEW c \in Clients, StartSearch(c) PROVE KnowledgeInv'
  <1> USE Apart
  <1>1. ASSUME NEW r \in Requests, r # c PROVE at'[r] = at[r] /\ reply'[r] = reply[r]
    BY <1>1 DEF KnowledgeInv, Typed, StartSearch, GoTo, history
  <1>2. Typed'
    <2>1. schema' \in BOOLEAN /\ crashed' \in BOOLEAN
      BY DEF KnowledgeInv, Typed, StartSearch, GoTo, history
    <2> QED BY <2>1 DEF KnowledgeInv, Seen, StartSearch, GoTo, history, Typed, Places, Replies,
                        Names, Requests
  <1>3. ASSUME NEW x \in Docs PROVE Stored(x)' /\ Known(x)' /\ Answered(x)'
    <2>1. at'[x] = at[x] /\ reply'[x] = reply[x]
      BY <1>1
    <2> QED BY <2>1 DEF KnowledgeInv, Stored, Known, Answered, Accepted, Seen, Typed,
                        StartSearch, GoTo, history
  <1>4. Seen(c)'
    BY <1>1 DEF KnowledgeInv, Stored, Answered, Accepted, Seen, ClientPlaces, StartSearch, GoTo,
                history, Typed, Requests
  <1>5. ASSUME NEW x \in Clients, x # c PROVE Seen(x)'
    <2>1. at'[x] = at[x] /\ \A d \in Docs : reply'[d] = reply[d]
      BY <1>1, <1>5
    <2>2. Typed /\ Seen(x)
      BY DEF KnowledgeInv
    <2>3. aim'[x] = aim[x] /\ found'[x] = found[x]
      BY <1>5, <2>2 DEF Typed, StartSearch
    <2>4. asked \subseteq asked' /\ troubled' = troubled /\ memory \subseteq memory' \cup asked'
      BY DEF StartSearch, history
    <2> QED BY <2>1, <2>2, <2>3, <2>4, SeenStays DEF Elsewhere
  <1> QED BY <1>2, <1>3, <1>4, <1>5 DEF KnowledgeInv

LEMMA PrepareSearchKeeps == ASSUME KnowledgeInv, NEW c \in Clients, PrepareSearch(c) PROVE KnowledgeInv'
  <1> USE Apart
  <1>1. ASSUME NEW r \in Requests, r # c PROVE at'[r] = at[r] /\ reply'[r] = reply[r]
    BY <1>1 DEF KnowledgeInv, Typed, PrepareSearch, Prepare, GoTo, history
  <1>2. Typed'
    <2>1. schema' \in BOOLEAN /\ crashed' \in BOOLEAN
      BY DEF KnowledgeInv, Typed, PrepareSearch, Prepare, GoTo, history
    <2> QED BY <2>1 DEF KnowledgeInv, Seen, PrepareSearch, Prepare, GoTo, history, Typed,
                        Places, Replies, Names, Requests
  <1>3. ASSUME NEW x \in Docs PROVE Stored(x)' /\ Known(x)' /\ Answered(x)'
    <2>1. at'[x] = at[x] /\ reply'[x] = reply[x]
      BY <1>1
    <2> QED BY <2>1 DEF KnowledgeInv, Stored, Known, Answered, Accepted, Seen, Typed,
                        PrepareSearch, Prepare, GoTo, history
  <1>4. Seen(c)'
    <2>1. Typed /\ Seen(c) /\ c \in Requests
      BY DEF KnowledgeInv
    <2>2. aim[c] \in Docs /\ found[c] = "error" /\ aim' = aim /\ found' = found
      BY <2>1 DEF Seen, PrepareSearch, Prepare
    <2>3. at'[c] \in {"searchRows", "searchMap"}
      BY <2>1 DEF Typed, PrepareSearch, Prepare, GoTo
    <2> QED BY <2>2, <2>3 DEF Seen, ClientPlaces
  <1>5. ASSUME NEW x \in Clients, x # c PROVE Seen(x)'
    <2>1. at'[x] = at[x] /\ \A d \in Docs : reply'[d] = reply[d]
      BY <1>1, <1>5
    <2>2. Typed /\ Seen(x)
      BY DEF KnowledgeInv
    <2>3. aim'[x] = aim[x] /\ found'[x] = found[x]
      BY <1>5, <2>2 DEF Typed, PrepareSearch, Prepare
    <2>4. asked \subseteq asked' /\ troubled' = troubled /\ memory \subseteq memory' \cup asked'
      BY DEF PrepareSearch, Prepare, history
    <2> QED BY <2>1, <2>2, <2>3, <2>4, SeenStays DEF Elsewhere
  <1> QED BY <1>2, <1>3, <1>4, <1>5 DEF KnowledgeInv

LEMMA SearchRowsKeeps == ASSUME KnowledgeInv, NEW c \in Clients, SearchRows(c) PROVE KnowledgeInv'
  <1> USE Apart
  <1>1. ASSUME NEW r \in Requests, r # c PROVE at'[r] = at[r] /\ reply'[r] = reply[r]
    BY <1>1 DEF KnowledgeInv, Typed, SearchRows, GoTo, history
  <1>2. Typed'
    <2>1. schema' \in BOOLEAN /\ crashed' \in BOOLEAN
      BY DEF KnowledgeInv, Typed, SearchRows, GoTo, history
    <2> QED BY <2>1 DEF KnowledgeInv, Seen, SearchRows, GoTo, history, Typed, Places, Replies,
                        Names, Requests
  <1>3. ASSUME NEW x \in Docs PROVE Stored(x)' /\ Known(x)' /\ Answered(x)'
    <2>1. at'[x] = at[x] /\ reply'[x] = reply[x]
      BY <1>1
    <2> QED BY <2>1 DEF KnowledgeInv, Stored, Known, Answered, Accepted, Seen, Typed,
                        SearchRows, GoTo, history
  <1>4. Seen(c)'
    <2>1. Typed /\ Seen(c) /\ c \in Requests
      BY DEF KnowledgeInv
    <2>2. /\ aim[c] \in Docs /\ found[c] = "error" /\ aim' = aim /\ at'[c] = "searchMap"
          /\ reply' = reply /\ asked' = asked /\ troubled' = troubled /\ memory' = memory
      BY <2>1 DEF Seen, Typed, SearchRows, GoTo, history
    <2>3. found'[c] = "nothing" => aim[c] \notin rows
      BY <2>1, <2>2 DEF Typed, SearchRows
    <2>4. Accepted(aim[c]) => aim[c] \in rows \/ aim[c] \in troubled
      BY <2>2 DEF KnowledgeInv, Answered, Accepted
    <2> QED BY <2>2, <2>3, <2>4 DEF Seen, ClientPlaces, Accepted
  <1>5. ASSUME NEW x \in Clients, x # c PROVE Seen(x)'
    <2>1. at'[x] = at[x] /\ \A d \in Docs : reply'[d] = reply[d]
      BY <1>1, <1>5
    <2>2. Typed /\ Seen(x)
      BY DEF KnowledgeInv
    <2>3. aim'[x] = aim[x] /\ found'[x] = found[x]
      BY <1>5, <2>2 DEF Typed, SearchRows
    <2>4. asked \subseteq asked' /\ troubled' = troubled /\ memory \subseteq memory' \cup asked'
      BY DEF SearchRows, history
    <2> QED BY <2>1, <2>2, <2>3, <2>4, SeenStays DEF Elsewhere
  <1> QED BY <1>2, <1>3, <1>4, <1>5 DEF KnowledgeInv

LEMMA ScoreKeeps == ASSUME KnowledgeInv, NEW c \in Clients, Score(c) PROVE KnowledgeInv'
  <1> USE Apart
  <1>1. ASSUME NEW r \in Requests, r # c PROVE at'[r] = at[r] /\ reply'[r] = reply[r]
    BY <1>1 DEF KnowledgeInv, Typed, Score, QueryKnowledge, Forget, Answer, GoTo, history
  <1>2. Typed'
    <2>1. schema' \in BOOLEAN /\ crashed' \in BOOLEAN
      BY DEF KnowledgeInv, Typed, Score, QueryKnowledge, Forget, Answer, GoTo, history
    <2> QED BY <2>1 DEF KnowledgeInv, Seen, Score, QueryKnowledge, Forget, Answer, GoTo,
                        history, Typed, Places, Replies, Names, Requests
  <1>3. ASSUME NEW x \in Docs PROVE Stored(x)' /\ Known(x)' /\ Answered(x)'
    <2>1. at'[x] = at[x] /\ reply'[x] = reply[x]
      BY <1>1
    <2> QED BY <2>1 DEF KnowledgeInv, Stored, Known, Answered, Accepted, Seen, Typed, Score,
                        QueryKnowledge, Forget, Answer, GoTo, history
  <1>4. Seen(c)'
    BY <1>1 DEF KnowledgeInv, Stored, Answered, Accepted, Seen, ClientPlaces, Score,
                QueryKnowledge, Forget, Answer, GoTo, history, Typed, Requests
  <1>5. ASSUME NEW x \in Clients, x # c PROVE Seen(x)'
    <2>1. at'[x] = at[x] /\ \A d \in Docs : reply'[d] = reply[d]
      BY <1>1, <1>5
    <2>2. Typed /\ Seen(x)
      BY DEF KnowledgeInv
    <2>3. aim'[x] = aim[x] /\ found'[x] = found[x]
      BY <1>5, <2>2 DEF Typed, Score, Forget
    <2>4. asked \subseteq asked' /\ troubled' = troubled /\ memory \subseteq memory' \cup asked'
      BY DEF Score, Forget, history
    <2> QED BY <2>1, <2>2, <2>3, <2>4, SeenStays DEF Elsewhere
  <1> QED BY <1>2, <1>3, <1>4, <1>5 DEF KnowledgeInv

-----------------------------------------------------------------------------
(* Documents: restarts                                                       *)

LEMMA RestartKeeps == ASSUME KnowledgeInv, Restart PROVE KnowledgeInv'
  <1> USE Apart
  <1>1. Typed'
    BY DEF KnowledgeInv, Restart, Active, Typed, Places, Replies, Names, Requests
  <1>2. ASSUME NEW x \in Docs PROVE Stored(x)' /\ Known(x)' /\ Answered(x)'
    BY DEF KnowledgeInv, Stored, Known, Answered, Accepted, UploadPlaces, Restart, Active,
           Typed, Places, Names, Requests
  <1>3. ASSUME NEW x \in Clients PROVE Seen(x)'
    BY DEF KnowledgeInv, Seen, ClientPlaces, Restart, Active, Typed, Places, Requests
  <1> QED BY <1>1, <1>2, <1>3 DEF KnowledgeInv

LEMMA KnowledgeNextKeeps == KnowledgeInv /\ [KnowledgeNext]_knowledgeVars => KnowledgeInv'
  <1> SUFFICES ASSUME KnowledgeInv, [KnowledgeNext]_knowledgeVars PROVE KnowledgeInv'
    OBVIOUS
  <1>1. CASE UNCHANGED knowledgeVars
    BY <1>1 DEF knowledgeVars, history, KnowledgeInv, Typed, Stored, Known, Answered, Accepted,
                Seen
  <1>2. CASE Restart
    BY <1>2, RestartKeeps
  <1>3. ASSUME NEW d \in Docs, Upload(d) PROVE KnowledgeInv'
    BY <1>3, ReceiveUploadKeeps, ExtractKeeps, EmbedKeeps, PrepareUploadKeeps, InsertKeeps,
         ReadBackKeeps DEF Upload
  <1>4. ASSUME NEW c \in Clients, Client(c) PROVE KnowledgeInv'
    BY <1>4, StartListKeeps, PrepareListKeeps, ListRowsKeeps, ListRecordsKeeps, StartDeleteKeeps,
       DeleteRowsKeeps, StartSearchKeeps, PrepareSearchKeeps, SearchRowsKeeps, ScoreKeeps DEF Client
  <1> QED BY <1>1, <1>2, <1>3, <1>4 DEF KnowledgeNext

LEMMA KnowledgeInductive == KnowledgeSpec => []KnowledgeInv
  BY KnowledgeInitInv, KnowledgeNextKeeps, PTL DEF KnowledgeSpec

-----------------------------------------------------------------------------
(* Documents: theorems                                                       *)

\* Every reachable state is well typed, and answers and places agree.
THEOREM KnowledgeTyped == KnowledgeSpec => []Typed
  <1>1. KnowledgeInv => Typed BY DEF KnowledgeInv
  <1> QED BY <1>1, KnowledgeInductive, PTL

\* What was accepted is kept, whatever fails and however requests interleave.
THEOREM AcceptedKept == KnowledgeSpec => []AcceptedIsKept
  <1>1. KnowledgeInv => AcceptedIsKept BY DEF KnowledgeInv, AcceptedIsKept, Answered
  <1> QED BY <1>1, KnowledgeInductive, PTL

\* What was refused has left nothing behind, unless its upload met a fault.
THEOREM RefusedLeft == KnowledgeSpec => []RefusedLeavesNothing
  <1>1. KnowledgeInv => RefusedLeavesNothing BY DEF KnowledgeInv, RefusedLeavesNothing, Answered
  <1> QED BY <1>1, KnowledgeInductive, PTL

\* A search misses an accepted document only after a crash, and if its rows could
\* not be found.
THEOREM AcceptedFound == KnowledgeSpec => AcceptedIsFound
  <1>1. KnowledgeInv /\ [KnowledgeNext]_knowledgeVars => [MissIsExplained]_knowledgeVars
    <2> SUFFICES ASSUME KnowledgeInv, KnowledgeNext, NEW c \in Clients,
                        at[c] = "searchMap", reply'[c] = "unknown", Accepted(aim[c])
                 PROVE  crashed /\ (aim[c] \in troubled \/ found[c] \in {"far", "error"})
      BY DEF MissIsExplained
    <2>1. reply[c] = "none"
      BY Apart DEF KnowledgeInv, Typed
    <2>2. ~Restart
      BY <2>1, Apart DEF Restart
    <2>3. ASSUME NEW d \in Docs, Upload(d) PROVE FALSE
      BY <2>1, <2>3, Apart DEF Upload, ReceiveUpload, Extract, Embed, PrepareUpload, Insert,
                               ReadBack, Record, Throw, Answer, KnowledgeInv, Typed
    <2>4. PICK e \in Clients : Client(e)
      BY <2>2, <2>3 DEF KnowledgeNext
    <2>5. e = c
      BY <2>1, <2>4, Apart DEF Client, StartList, PrepareList, ListRows, ListRecords, StartDelete,
         DeleteRows, StartSearch, PrepareSearch, SearchRows, Score, Prepare, QueryKnowledge, Answer,
         KnowledgeInv, Typed
    <2>6. Score(c)
      BY <2>4, <2>5 DEF Client, StartList, PrepareList, ListRows, ListRecords, StartDelete,
         DeleteRows, StartSearch, PrepareSearch, SearchRows, Prepare
    <2>7. found[c] # "row" /\ aim[c] \notin memory
      <3>1. Typed /\ c \in Requests
        BY Apart DEF KnowledgeInv
      <3>2. reply'[c] = IF found[c] = "row" \/ aim[c] \in memory THEN "answered" ELSE "unknown"
        BY <2>6, <3>1 DEF Score, QueryKnowledge, Answer, Typed
      <3> QED BY <3>2
    <2> QED BY <2>7 DEF KnowledgeInv, Typed, Seen, Answered
  <1>2. KnowledgeSpec => [][MissIsExplained]_knowledgeVars
    BY <1>1, KnowledgeInductive, PTL DEF KnowledgeSpec
  <1> QED BY <1>2 DEF AcceptedIsFound

-----------------------------------------------------------------------------
(* Documents: refinement of the catalogue                                    *)

\* A step that only concerns one document, or none.
Others(d) == \A x \in Docs \ {d} : Phase(x)' = Phase(x) /\ reply'[x] = reply[x]

Still == /\ \A x \in Docs : Phase(x)' = Phase(x) /\ reply'[x] = reply[x]
         /\ asked' = asked

LEMMA StillStutters == Still => UNCHANGED Shelf!vars
  BY DEF Still, Shelf!vars

LEMMA UploadFrame ==
    ASSUME Typed, NEW d \in Docs, NEW p, NEW a,
           at' = [at EXCEPT ![d] = p], reply' = [reply EXCEPT ![d] = a],
           rows' \in {rows, rows \cup {d}}, memory' \in {memory, memory \cup {d}}
    PROVE  Others(d)
  <1> SUFFICES ASSUME NEW x \in Docs \ {d} PROVE Phase(x)' = Phase(x) /\ reply'[x] = reply[x]
    BY DEF Others
  <1>1. at'[x] = at[x] /\ reply'[x] = reply[x] /\ (x \in rows' <=> x \in rows) /\ (x \in memory' <=> x \in memory)
    BY Apart DEF Typed
  <1> QED BY <1>1 DEF Phase, Active

LEMMA UploadRefines == ASSUME KnowledgeInv, NEW d \in Docs, Upload(d) PROVE Shelf!Next \/ UNCHANGED Shelf!vars
  <1> USE Apart
  <1>0. Typed /\ Stored(d) /\ at[d] \in UploadPlaces /\ reply \in [Requests -> Replies] /\ at \in [Requests -> Places]
    BY DEF KnowledgeInv, Typed, Stored
  <1>1. PICK p, a : at' = [at EXCEPT ![d] = p] /\ reply' = [reply EXCEPT ![d] = a]
    <2>1. \E p : at' = [at EXCEPT ![d] = p]
      BY DEF Upload, ReceiveUpload, Extract, Embed, PrepareUpload, Insert, ReadBack, Record,
             Throw, Answer, GoTo
    <2>2. reply = [reply EXCEPT ![d] = reply[d]]
      BY <1>0
    <2>3. \E a : reply' = [reply EXCEPT ![d] = a]
      BY <2>2 DEF Upload, ReceiveUpload, Extract, Embed, PrepareUpload, Insert, ReadBack,
                  Record, Throw, Answer, GoTo
    <2> QED BY <2>1, <2>3
  <1>2. /\ rows' \in {rows, rows \cup {d}} /\ memory' \in {memory, memory \cup {d}} /\ asked' = asked
    BY DEF Upload, ReceiveUpload, Extract, Embed, PrepareUpload, Insert, ReadBack, history
  <1>3. Others(d)
    BY <1>0, <1>1, <1>2, UploadFrame
  <1>4. at'[d] = p /\ reply'[d] = a
    BY <1>0, <1>1
  <1>5. at[d] \notin {"over", "dead"} /\ reply[d] = "none"
    BY <1>0 DEF Typed, Upload, ReceiveUpload, Extract, Embed, PrepareUpload, Insert, ReadBack
  <1>6. ASSUME Phase(d)' = Phase(d), a = "none" PROVE UNCHANGED Shelf!vars
    BY <1>2, <1>3, <1>4, <1>5, <1>6, StillStutters DEF Still, Others
  <1>7. ASSUME a \in {"refused", "failed"}, Phase(d) # "out",
               Phase(d)' = IF Phase(d) \in {"new", "coming"} THEN "out" ELSE Phase(d)
        PROVE  Shelf!Refuse(d)
    BY <1>2, <1>3, <1>4, <1>5, <1>7 DEF Others, Shelf!Refuse, Shelf!Say
  <1>8. Phase(d) = CASE at[d] = "idle" -> "new" [] d \in rows -> "kept"
                     [] d \in memory /\ d \notin rows -> "in" [] OTHER -> "coming"
    BY <1>0, <1>5 DEF Phase, Active, Stored
  <1>9. CASE ReceiveUpload(d)
    <2>1. Phase(d) = "new" /\ d \notin rows' /\ d \notin memory'
      BY <1>0, <1>8, <1>9 DEF ReceiveUpload, Stored
    <2>2. CASE at'[d] = "extract" /\ reply'[d] = "none"
      <3>1. Phase(d)' = "coming"
        BY <2>1, <2>2 DEF Phase, Active
      <3> QED BY <1>2, <1>3, <1>5, <2>1, <2>2, <3>1 DEF Others, Shelf!Next, Shelf!Offer,
           Shelf!Move
    <2>3. CASE at'[d] = "over" /\ a = "refused"
      <3>1. Phase(d)' = "out"
        BY <2>1, <2>3 DEF Phase, Active
      <3> QED BY <1>7, <2>1, <2>3, <3>1 DEF Shelf!Next
    <2> QED BY <1>0, <1>1, <1>4, <1>5, <1>9, <2>2, <2>3 DEF ReceiveUpload, Record, Answer, GoTo
  <1>10. CASE Extract(d)
    BY <1>0, <1>1, <1>4, <1>5, <1>6, <1>7, <1>8, <1>10
       DEF Extract, Record, Throw, Answer, GoTo, Stored, Phase, Active, Shelf!Next
  <1>11. CASE Embed(d)
    <2>1. Phase(d) = "coming"
      BY <1>0, <1>8, <1>11 DEF Embed, Stored
    <2>2. at'[d] = "schema" /\ d \notin rows' /\ d \in memory' /\ reply' = reply
      BY <1>0, <1>11 DEF Embed, GoTo, Stored
    <2>3. Phase(d)' = "in"
      BY <2>2 DEF Phase, Active
    <2> QED BY <1>2, <1>3, <2>1, <2>2, <2>3 DEF Others, Shelf!Next, Shelf!Appear, Shelf!Move
  <1>12. CASE PrepareUpload(d)
    BY <1>0, <1>1, <1>4, <1>5, <1>6, <1>7, <1>8, <1>12
       DEF PrepareUpload, Throw, Answer, GoTo, Stored, Phase, Active, Shelf!Next
  <1>13. CASE Insert(d)
    <2>1. Phase(d) = "in" /\ a = "none" /\ Phase(d)' \in {"in", "kept"}
      BY <1>0, <1>4, <1>5, <1>8, <1>13 DEF Insert, GoTo, Stored, Phase, Active
    <2>2. CASE Phase(d)' = "kept"
      BY <1>2, <1>3, <1>4, <1>5, <2>1, <2>2 DEF Others, Shelf!Next, Shelf!Keep, Shelf!Move
    <2> QED BY <1>6, <2>1, <2>2
  <1>14. CASE ReadBack(d)
    <2>1. Phase(d) \in {"in", "kept"} /\ Phase(d)' = Phase(d) /\ a \in {"accepted", "refused"}
      BY <1>0, <1>1, <1>4, <1>5, <1>8, <1>14 DEF ReadBack, Record, Answer, GoTo, Stored, Phase,
                                                 Active
    <2>2. CASE a = "accepted"
      BY <1>2, <1>3, <1>4, <1>5, <2>1, <2>2 DEF Others, Shelf!Next, Shelf!Accept, Shelf!Say
    <2> QED BY <1>7, <2>1, <2>2 DEF Shelf!Next
  <1> QED BY <1>9, <1>10, <1>11, <1>12, <1>13, <1>14 DEF Upload

LEMMA ClientRefines == ASSUME KnowledgeInv, NEW c \in Clients, Client(c) PROVE Shelf!Next \/ UNCHANGED Shelf!vars
  <1> USE Apart
  <1>1. ASSUME NEW x \in Docs PROVE at'[x] = at[x] /\ reply'[x] = reply[x]
    BY DEF KnowledgeInv, Typed, Client, StartList, PrepareList, ListRows, ListRecords,
           StartDelete, DeleteRows,
           StartSearch, PrepareSearch, SearchRows, Score, Prepare, QueryKnowledge, Answer, GoTo
  <1>2. CASE StartDelete(c)
    <2>1. PICK d \in Docs, n \in Names :
            /\ <<d, n>> \in told
            /\ asked' = asked \cup {d}
            /\ memory' = IF n = "file" THEN memory \ {d} ELSE memory
      BY <1>2 DEF StartDelete
    <2>2. at[d] \in {"readBack", "over", "dead"} /\ (n = "file" => at[d] = "over") /\ rows' = rows
      BY <1>2, <2>1 DEF KnowledgeInv, Stored, Known, Names, UploadPlaces, StartDelete
    <2>3. ASSUME NEW x \in Docs, x # d PROVE Phase(x)' = Phase(x)
      BY <1>1, <2>1, <2>2, <2>3 DEF Phase, Active
    <2>4. /\ Phase(d) \in {"in", "kept", "out"}
          /\ Phase(d)' = Phase(d) \/ (Phase(d) = "in" /\ Phase(d)' = "out")
      BY <1>1, <2>1, <2>2 DEF Phase, Active, KnowledgeInv, Stored
    <2> QED BY <1>1, <2>1, <2>3, <2>4 DEF Shelf!Next, Shelf!Ask
  <1>3. CASE DeleteRows(c)
    <2>0. Typed /\ Seen(c)
      BY DEF KnowledgeInv
    <2>1. PICK e \in Docs : e = aim[c] /\ e \in asked
      BY <1>3, <2>0 DEF DeleteRows, Seen, Typed
    <2>2. asked' = asked /\ memory' = memory /\ (rows' = rows \/ (e \in rows /\ rows' = rows \ {e}))
      BY <1>3, <2>1 DEF DeleteRows, history
    <2>3. CASE rows' = rows
      BY <1>1, <2>2, <2>3, StillStutters DEF Still, Phase, Active
    <2>4. CASE e \in rows /\ rows' = rows \ {e}
      <3>1. ASSUME NEW x \in Docs, x # e PROVE Phase(x)' = Phase(x)
        BY <1>1, <2>2, <2>4, <3>1 DEF Phase, Active
      <3>2. Phase(e) = "kept" /\ Phase(e)' \in {"in", "out"}
        <4>1. at[e] \in {"readBack", "over", "dead"} /\ (at[e] = "readBack" => e \in memory)
          BY <2>4 DEF KnowledgeInv, Stored, UploadPlaces
        <4> QED BY <1>1, <2>2, <2>4, <4>1 DEF Phase, Active
      <3>3. Shelf!Remove(e)
        BY <1>1, <2>1, <2>2, <3>1, <3>2 DEF Shelf!Remove, Shelf!Move
      <3> QED BY <3>3 DEF Shelf!Next
    <2> QED BY <2>2, <2>3, <2>4
  <1>4. CASE ~StartDelete(c) /\ ~DeleteRows(c)
    <2>1. UNCHANGED <<rows, memory, asked>>
      BY <1>4 DEF Client, StartList, PrepareList, ListRows, ListRecords, StartSearch,
                  PrepareSearch,
                  SearchRows, Score, Prepare, history
    <2> QED BY <1>1, <2>1, StillStutters DEF Still, Phase, Active
  <1> QED BY <1>2, <1>3, <1>4

LEMMA RestartRefines == ASSUME KnowledgeInv, Restart PROVE Shelf!Crash
  <1> USE Apart
  <1>1. ASSUME NEW x \in Docs
        PROVE  /\ Phase(x)' = IF Phase(x) \in {"coming", "in"} THEN "out" ELSE Phase(x)
               /\ reply'[x] = IF Phase(x) \in {"coming", "in", "kept"} /\ reply[x] = "none"
                              THEN "lost" ELSE reply[x]
    BY DEF KnowledgeInv, Typed, Stored, Restart, Active, Phase
  <1> QED BY <1>1 DEF Restart, Shelf!Crash

\* The two stores implement the safety part of the catalogue.
THEOREM ImplementsCatalogueSafely == KnowledgeSpec => Shelf!Spec
  <1>1. KnowledgeInit => Shelf!Init
    <2> SUFFICES ASSUME KnowledgeInit PROVE Shelf!Init
      OBVIOUS
    <2>1. ASSUME NEW d \in Docs PROVE Phase(d) = "new" /\ reply[d] = "none"
      <3>1. at[d] = "idle" /\ reply[d] = "none" /\ d \notin rows /\ d \notin memory
        BY Apart DEF KnowledgeInit
      <3> QED BY <3>1 DEF Phase, Active
    <2> QED BY <2>1 DEF KnowledgeInit, Shelf!Init
  <1>2. KnowledgeInv /\ [KnowledgeNext]_knowledgeVars => [Shelf!Next]_(Shelf!vars)
    <2>1. UNCHANGED knowledgeVars => UNCHANGED Shelf!vars
      BY StillStutters DEF knowledgeVars, history, Still, Phase, Active
    <2> QED BY <2>1, UploadRefines, ClientRefines, RestartRefines DEF KnowledgeNext, Shelf!Next
  <1> QED BY <1>1, <1>2, KnowledgeInductive, PTL DEF KnowledgeSpec, Shelf!Spec
================================================================================
