-------------------------- MODULE LiveAnswersProofs --------------------------
(***************************************************************************)
(* Proofs about LiveAnswers, for any tables, any tree of joins, any limits *)
(* and any order of statements and flushes: what an observable keeps is    *)
(* the answer of its query, or what the answer can be made from.           *)
(*                                                                         *)
(* The argument.  Between two flushes a database d, as the last one found  *)
(* it, becomes db; every row that differs is queued with its contents      *)
(* before and after (Covered).  The worklist ends in a set of dirty rows   *)
(* that no join of other rows leads out of (ClosedOff), so that a root row *)
(* that is not dirty yields the same in d and db (Transfer).  What is kept *)
(* for d is therefore wrong for dirty root rows only (AffectedSound), and  *)
(* patch, window and subset put right what they keep of those.             *)
(***************************************************************************)
EXTENDS LiveAnswers, Iteration, FiniteSetTheorems, TLAPS

-----------------------------------------------------------------------------
(* Sequences in a strict order R, a set of pairs.                           *)
Strict(S, R) ==
  /\ \A x \in S : <<x, x>> \notin R
  /\ \A x, y, z \in S : <<x, y>> \in R /\ <<y, z>> \in R => <<x, z>> \in R
  /\ \A x, y \in S : x # y => <<x, y>> \in R \/ <<y, x>> \in R

Ordered(s, R) == \A m, n \in DOMAIN s : m < n => <<s[m], s[n]>> \in R

Below(S, R, x) == {y \in S : <<y, x>> \in R}
RankOf(S, R, x) == Cardinality(Below(S, R, x))
Arranged(S, R) == [n \in 1..Cardinality(S) |-> CHOOSE x \in S : RankOf(S, R, x) = n - 1]

(* Every element of a finite set has its rank, and every rank its element. *)
LEMMA Ranks ==
  ASSUME NEW S, NEW R, IsFiniteSet(S), Strict(S, R)
  PROVE  /\ Cardinality(S) \in Nat
         /\ \A x \in S : RankOf(S, R, x) \in 0..(Cardinality(S) - 1)
         /\ \A x, y \in S : <<x, y>> \in R => RankOf(S, R, x) < RankOf(S, R, y)
         /\ \A x, y \in S : RankOf(S, R, x) = RankOf(S, R, y) => x = y
         /\ \A n \in 0..(Cardinality(S) - 1) : \E x \in S : RankOf(S, R, x) = n
<1> DEFINE m == Cardinality(S)
           B(x) == Below(S, R, x)
           rank(x) == RankOf(S, R, x)
<1>1. m \in Nat
  BY FS_CardinalityType
<1>2. \A x \in S : B(x) \subseteq S /\ x \notin B(x) /\ IsFiniteSet(B(x)) /\ Cardinality(B(x)) \in Nat
  <2> TAKE x \in S
  <2>1. B(x) \subseteq S /\ x \notin B(x)
    BY DEF Below, Strict
  <2> QED BY <2>1, FS_Subset, FS_CardinalityType
<1>3. \A x \in S : IsFiniteSet(B(x) \cup {x}) /\ Cardinality(B(x) \cup {x}) = rank(x) + 1
  <2> TAKE x \in S
  <2>1. x \notin B(x) /\ IsFiniteSet(B(x))
    BY <1>2
  <2> HIDE DEF B
  <2>2. IsFiniteSet(B(x) \cup {x}) /\ Cardinality(B(x) \cup {x}) = Cardinality(B(x)) + 1
    BY <2>1, FS_AddElement
  <2> QED BY <2>2 DEF RankOf, B
<1>4. ASSUME NEW x \in S PROVE rank(x) \in 0..(m - 1)
  <2>1. B(x) \cup {x} \subseteq S
    BY <1>2
  <2>2. Cardinality(B(x) \cup {x}) <= m
    BY <2>1, FS_Subset
  <2>3. rank(x) \in Nat
    BY <1>2 DEF RankOf
  <2> HIDE DEF m, rank, B
  <2> QED BY <1>1, <1>3, <2>2, <2>3
<1>5. ASSUME NEW x \in S, NEW y \in S, <<x, y>> \in R PROVE rank(x) < rank(y)
  <2>1. B(x) \cup {x} \subseteq B(y)
    BY <1>5 DEF Below, Strict
  <2>2. Cardinality(B(x) \cup {x}) <= Cardinality(B(y))
    BY <1>2, <2>1, FS_Subset
  <2>3. rank(x) \in Nat /\ rank(y) \in Nat /\ rank(y) = Cardinality(B(y))
    BY <1>2 DEF RankOf
  <2> HIDE DEF rank, B
  <2> QED BY <1>3, <2>2, <2>3
<1>6. ASSUME NEW x \in S, NEW y \in S, rank(x) = rank(y) PROVE x = y
  <2> SUFFICES ASSUME x # y PROVE FALSE
    OBVIOUS
  <2>1. <<x, y>> \in R \/ <<y, x>> \in R
    BY DEF Strict
  <2>2. rank(x) \in Nat
    BY <1>1, <1>4
  <2> HIDE DEF rank
  <2> QED BY <1>5, <1>6, <2>1, <2>2
<1> DEFINE T == 0..(m - 1)
           f == [x \in S |-> rank(x)]
<1>7. f \in Injection(S, T)
  BY <1>4, <1>6 DEF Injection, IsInjective
<1>8. IsFiniteSet(T) /\ Cardinality(T) = m
  <2> HIDE DEF m
  <2>1. IsFiniteSet(0..(m - 1)) /\ Cardinality(0..(m - 1)) = IF 0 > m - 1 THEN 0 ELSE m - 1 - 0 + 1
    BY <1>1, FS_Interval
  <2> QED BY <1>1, <2>1
<1>9. f \in Surjection(S, T)
  <2> HIDE DEF f, T
  <2> QED BY <1>7, <1>8, FS_Injection
<1>10. \A n \in T : \E x \in S : rank(x) = n
  BY <1>9 DEF Surjection
<1> QED BY <1>1, <1>4, <1>5, <1>6, <1>10

(* The arrangement of a set has each element once, in order.               *)
LEMMA ArrangedFacts ==
  ASSUME NEW S, NEW R, IsFiniteSet(S), Strict(S, R)
  PROVE  /\ Arranged(S, R) \in Seq(S)
         /\ Len(Arranged(S, R)) = Cardinality(S)
         /\ Ordered(Arranged(S, R), R)
         /\ ToSet(Arranged(S, R)) = S
<1> DEFINE s == Arranged(S, R)
           m == Cardinality(S)
           at(n) == CHOOSE x \in S : RankOf(S, R, x) = n - 1
<1>1. /\ m \in Nat
      /\ \A x \in S : RankOf(S, R, x) \in 0..(m - 1)
      /\ \A x, y \in S : <<x, y>> \in R => RankOf(S, R, x) < RankOf(S, R, y)
      /\ \A x, y \in S : RankOf(S, R, x) = RankOf(S, R, y) => x = y
      /\ \A n \in 0..(m - 1) : \E x \in S : RankOf(S, R, x) = n
  BY Ranks
<1>2. s = [n \in 1..m |-> at(n)]
  BY DEF Arranged
<1> HIDE DEF m
<1>3. ASSUME NEW n \in 1..m PROVE at(n) \in S /\ RankOf(S, R, at(n)) = n - 1
  <2>1. n - 1 \in 0..(m - 1)
    BY <1>1
  <2>2. \E x \in S : RankOf(S, R, x) = n - 1
    BY <1>1, <2>1
  <2> QED BY <2>2
<1>4. ASSUME NEW x \in S PROVE \E n \in 1..m : at(n) = x
  <2>1. RankOf(S, R, x) \in 0..(m - 1)
    BY <1>1
  <2>2. PICK n \in 1..m : n - 1 = RankOf(S, R, x)
    <3>1. \A k \in 0..(m - 1) : k + 1 \in 1..m /\ (k + 1) - 1 = k
      BY <1>1
    <3> QED BY <2>1, <3>1
  <2>3. at(n) = x
    BY <1>1, <1>3, <2>2
  <2> QED BY <2>3
<1> HIDE DEF s, at
<1>5. s \in Seq(S) /\ Len(s) = m /\ DOMAIN s = 1..m
  BY <1>1, <1>2, <1>3
<1>6. ASSUME NEW i \in 1..m, NEW n \in 1..m, i < n PROVE <<at(i), at(n)>> \in R
  <2>1. at(i) \in S /\ at(n) \in S /\ RankOf(S, R, at(i)) = i - 1 /\ RankOf(S, R, at(n)) = n - 1
    BY <1>3
  <2>2. CASE at(i) = at(n)
    BY <1>6, <2>1, <2>2
  <2>3. CASE <<at(n), at(i)>> \in R
    <3>1. n - 1 < i - 1
      BY <1>1, <2>1, <2>3
    <3> QED BY <1>6, <3>1
  <2> QED BY <2>1, <2>2, <2>3 DEF Strict
<1>7. Ordered(s, R)
  BY <1>2, <1>5, <1>6 DEF Ordered
<1>8. ToSet(s) = S
  BY <1>2, <1>3, <1>4, <1>5 DEF ToSet
<1> QED BY <1>5, <1>7, <1>8 DEF s, m

(* There is one way to arrange a set.                                      *)
LEMMA ArrangedIs ==
  ASSUME NEW S, NEW R, IsFiniteSet(S), Strict(S, R), NEW s \in Seq(S), Ordered(s, R), ToSet(s) = S
  PROVE  s = Arranged(S, R)
<1> DEFINE a == Arranged(S, R)
           m == Cardinality(S)
<1>1. /\ m \in Nat
      /\ \A x, y \in S : RankOf(S, R, x) = RankOf(S, R, y) => x = y
  BY Ranks
<1>2. /\ a \in Seq(S) /\ Len(a) = m /\ Ordered(a, R) /\ ToSet(a) = S
  BY ArrangedFacts
<1> DEFINE N == Len(s)
<1>3. N \in Nat /\ s \in [1..N -> S] /\ DOMAIN s = 1..N /\ \A x \in S : \E n \in 1..N : s[n] = x
  BY DEF ToSet
<1>4. \A i, n \in 1..N : s[i] = s[n] => i = n
  <2> SUFFICES ASSUME NEW i \in 1..N, NEW n \in 1..N, s[i] = s[n], i # n PROVE FALSE
    OBVIOUS
  <2>1. i < n \/ n < i
    BY <1>3
  <2>2. <<s[i], s[i]>> \in R
    BY <1>3, <2>1 DEF Ordered
  <2>3. s[i] \in S
    BY <1>3
  <2> QED BY <2>2, <2>3 DEF Strict
<1>5. ASSUME NEW n \in 1..N PROVE RankOf(S, R, s[n]) = n - 1
  <2> DEFINE I == 1..(n - 1)
             B == Below(S, R, s[n])
             f == [i \in I |-> s[i]]
  <2>0. I \subseteq 1..N /\ n \in Nat
    BY <1>3
  <2>1. ASSUME NEW i \in I PROVE s[i] \in B
    <3>1. i \in 1..N /\ i < n
      BY <2>0
    <3>2. <<s[i], s[n]>> \in R /\ s[i] \in S
      BY <1>3, <3>1 DEF Ordered
    <3> QED BY <3>2 DEF Below
  <2>2. ASSUME NEW x \in B PROVE \E i \in I : s[i] = x
    <3>1. x \in S /\ <<x, s[n]>> \in R /\ s[n] \in S
      BY <1>3 DEF Below
    <3>2. PICK i \in 1..N : s[i] = x
      BY <1>3, <3>1
    <3>3. ~(n < i)
      <4> SUFFICES ASSUME n < i PROVE FALSE
        OBVIOUS
      <4>1. <<s[n], s[i]>> \in R
        BY <1>3 DEF Ordered
      <4> QED BY <3>1, <3>2, <4>1 DEF Strict
    <3>4. i # n
      BY <3>1, <3>2 DEF Strict
    <3>5. i \in I
      BY <2>0, <3>2, <3>3, <3>4
    <3> QED BY <3>2, <3>5
  <2>3. f \in Bijection(I, B)
    <3>1. f \in [I -> B] /\ \A i, k \in I : f[i] = f[k] => i = k
      BY <1>4, <2>0, <2>1
    <3>2. \A x \in B : \E i \in I : f[i] = x
      BY <2>2
    <3> HIDE DEF f, I, B
    <3> QED BY <3>1, <3>2 DEF Bijection, Injection, Surjection, IsInjective
  <2>4. IsFiniteSet(I) /\ Cardinality(I) = n - 1
    <3>1. IsFiniteSet(1..(n - 1)) /\ Cardinality(1..(n - 1)) = IF 1 > n - 1 THEN 0 ELSE n - 1 - 1 + 1
      BY <2>0, FS_Interval
    <3> QED BY <2>0, <3>1
  <2> HIDE DEF f, I, B
  <2>5. Cardinality(B) = Cardinality(I)
    <3>1. ExistsBijection(I, B)
      BY <2>3 DEF ExistsBijection
    <3> QED BY <2>4, <3>1, FS_Bijection
  <2> QED BY <2>4, <2>5 DEF RankOf, B
<1>6. N = m
  <2> DEFINE f == s
  <2>1. s \in Bijection(1..N, S)
    BY <1>3, <1>4 DEF Bijection, Injection, Surjection, IsInjective
  <2>2. IsFiniteSet(1..N) /\ Cardinality(1..N) = N
    <3> HIDE DEF N
    <3>1. IsFiniteSet(1..N) /\ Cardinality(1..N) = IF 1 > N THEN 0 ELSE N - 1 + 1
      BY <1>3, FS_Interval
    <3> QED BY <1>3, <3>1
  <2>3. ExistsBijection(1..N, S)
    BY <2>1 DEF ExistsBijection
  <2> HIDE DEF N, m
  <2> QED BY <2>2, <2>3, FS_Bijection DEF m
<1>7. ASSUME NEW n \in 1..N PROVE s[n] = a[n]
  <2>1. a[n] = CHOOSE x \in S : RankOf(S, R, x) = n - 1
    BY <1>6 DEF Arranged
  <2>2. s[n] \in S /\ RankOf(S, R, s[n]) = n - 1
    BY <1>3, <1>5
  <2>3. a[n] \in S /\ RankOf(S, R, a[n]) = n - 1
    BY <2>1, <2>2
  <2> QED BY <1>1, <2>2, <2>3
<1> HIDE DEF a, m, N
<1>8. s = [n \in 1..N |-> s[n]] /\ a = [n \in 1..N |-> a[n]]
  BY <1>2, <1>3, <1>6
<1> QED BY <1>7, <1>8 DEF a


(* Picked looks at one element after the other.                             *)
Picks(f, s, C, E) ==
  /\ f \in [0..Len(s) -> Seq(E)] /\ f[0] = <<>>
  /\ \A n \in 1..Len(s) : f[n] = (IF s[n] \in C THEN Append(f[n - 1], s[n]) ELSE f[n - 1])

LEMMA PicksExists ==
  ASSUME NEW E, NEW s \in Seq(E), NEW C
  PROVE  \E f : Picks(f, s, C, E) /\ Picked(s, C) = f[Len(s)]
<1> DEFINE N == Len(s)
           S == Seq(E)
           One(x, n) == (IF s[n] \in C THEN Append(x, s[n]) ELSE x)
           G == [n \in 1..N |-> [x \in S |-> One(x, n)]]
           Step(f, n) == IF n = 0 THEN <<>> ELSE (IF s[n] \in C THEN Append(f[n - 1], s[n]) ELSE f[n - 1])
           Is(f) == f = [n \in 0..N |-> Step(f, n)]
           A == CHOOSE f : Is(f)
<1>1. N \in Nat /\ <<>> \in S
  OBVIOUS
<1>2. \A n \in 1..N, x \in S : One(x, n) \in S
  BY <1>1
<1>3. Steps(G, S, N)
  BY <1>2 DEF Steps
<1>4. \A n \in 1..N, x \in S : G[n][x] = One(x, n)
  OBVIOUS
<1>5. Picked(s, C) = A[N]
  BY DEF Picked
<1>6. \A f : \A n \in 1..N : n \in 0..N /\ n - 1 \in 0..N /\ Step(f, n) = One(f[n - 1], n)
  BY <1>1
<1>7. \A f : 0 \in 0..N /\ Step(f, 0) = <<>>
  BY <1>1
<1>8. \A n \in 0..N : n = 0 \/ n \in 1..N
  BY <1>1
<1>9. \A f : \A n \in 1..N : One(f[n - 1], n) = (IF s[n] \in C THEN Append(f[n - 1], s[n]) ELSE f[n - 1])
  OBVIOUS
<1> HIDE DEF G, N, S, One, Step
<1>10. PICK g : Iterates(g, G, S, N, <<>>)
  BY <1>1, <1>3, IterationExists
<1>11. Is(g)
  <2>1. ASSUME NEW n \in 0..N PROVE g[n] = Step(g, n)
    <3>1. CASE n = 0
      BY <1>7, <1>10, <3>1 DEF Iterates
    <3>2. CASE n \in 1..N
      <4>1. g[n - 1] \in S /\ g[n] = G[n][g[n - 1]]
        BY <1>6, <1>10, <3>2 DEF Iterates
      <4> QED BY <1>4, <1>6, <3>2, <4>1
    <3> QED BY <1>8, <3>1, <3>2
  <2> QED BY <1>10, <2>1 DEF Iterates
<1>12. Is(A)
  BY <1>11, Zenon
<1> HIDE DEF A
<1>13. A = [n \in 0..N |-> A[n]] /\ A[0] = <<>>
  BY <1>7, <1>12
<1>14. ASSUME NEW n \in 1..N, A[n - 1] \in S PROVE A[n] = G[n][A[n - 1]]
  <2>1. A[n] = One(A[n - 1], n)
    BY <1>6, <1>12
  <2> QED BY <1>4, <1>14, <2>1
<1>15. Iterates(A, G, S, N, <<>>)
  BY <1>1, <1>3, <1>13, <1>14, IterationIs
<1>16. A \in [0..N -> S] /\ \A n \in 1..N : A[n] = One(A[n - 1], n)
  BY <1>4, <1>6, <1>15 DEF Iterates
<1>17. Picked(s, C) = A[Len(s)] /\ A \in [0..Len(s) -> Seq(E)] /\ \A n \in 1..Len(s) : A[n] = (IF s[n] \in C
                                                                                               THEN Append(A[n - 1], s[n])
                                                                                               ELSE A[n - 1])
  BY <1>5, <1>9, <1>16 DEF N, S
<1> QED BY <1>13, <1>17, Zenon DEF Picks

LEMMA AppendedFacts ==
  ASSUME NEW E, NEW t \in Seq(E), NEW e \in E
  PROVE  /\ Append(t, e) \in Seq(E) /\ Len(Append(t, e)) = Len(t) + 1
         /\ ToSet(Append(t, e)) = ToSet(t) \cup {e}
         /\ \A R : Ordered(t, R) /\ (\A x \in ToSet(t) : <<x, e>> \in R) => Ordered(Append(t, e), R)
<1> DEFINE u == Append(t, e)
           N == Len(t)
<1>1. /\ N \in Nat /\ u \in Seq(E) /\ Len(u) = N + 1 /\ DOMAIN u = 1..(N + 1) /\ DOMAIN t = 1..N
      /\ u[N + 1] = e /\ \A n \in 1..N : u[n] = t[n]
  OBVIOUS
<1> HIDE DEF u, N
<1>2. \A n \in 1..(N + 1) : n \in 1..N \/ n = N + 1
  BY <1>1
<1>3. 1..N \subseteq 1..(N + 1) /\ N + 1 \in 1..(N + 1)
  BY <1>1
<1>4. ToSet(u) = ToSet(t) \cup {e}
  BY <1>1, <1>2, <1>3 DEF ToSet
<1>5. ASSUME NEW R, Ordered(t, R), \A x \in ToSet(t) : <<x, e>> \in R
      PROVE  Ordered(u, R)
  <2> SUFFICES ASSUME NEW m \in 1..(N + 1), NEW n \in 1..(N + 1), m < n PROVE <<u[m], u[n]>> \in R
    BY <1>1 DEF Ordered
  <2>1. m \in 1..N
    BY <1>1
  <2>2. CASE n \in 1..N
    BY <1>1, <1>5, <2>1, <2>2 DEF Ordered
  <2>3. CASE n = N + 1
    <3>1. t[m] \in ToSet(t)
      BY <1>1, <2>1 DEF ToSet
    <3> QED BY <1>1, <1>5, <2>1, <2>3, <3>1
  <2> QED BY <1>2, <2>2, <2>3
<1> QED BY <1>1, <1>4, <1>5 DEF u, N

(* Picked keeps what is chosen, and its order.                              *)
LEMMA PickedFacts ==
  ASSUME NEW E, NEW s \in Seq(E), NEW C
  PROVE  /\ Picked(s, C) \in Seq(E)
         /\ ToSet(Picked(s, C)) = ToSet(s) \cap C
         /\ \A R : Ordered(s, R) => Ordered(Picked(s, C), R)
<1>0. PICK f : Picks(f, s, C, E) /\ Picked(s, C) = f[Len(s)]
  BY PicksExists
<1> DEFINE N == Len(s)
<1>1. /\ f \in [0..N -> Seq(E)] /\ f[0] = <<>>
      /\ \A n \in 1..N : f[n] = IF s[n] \in C THEN Append(f[n - 1], s[n]) ELSE f[n - 1]
      /\ Picked(s, C) = f[N]
  BY <1>0 DEF Picks
<1>2. N \in Nat /\ DOMAIN s = 1..N /\ \A n \in 1..N : s[n] \in E
  OBVIOUS
<1> DEFINE First(n) == {s[i] : i \in 1..n}
           Good(n) == /\ ToSet(f[n]) = First(n) \cap C
                      /\ \A R : Ordered(s, R) => Ordered(f[n], R)
           P == {n \in 0..N : Good(n)}
<1> HIDE DEF N
<1>3. 0 \in P
  <2>1. ToSet(<<>>) = {} /\ First(0) = {}
    BY DEF ToSet
  <2>2. \A R : Ordered(<<>>, R)
    BY DEF Ordered
  <2>3. 0 \in 0..N
    BY <1>2
  <2> QED BY <1>1, <2>1, <2>2, <2>3
<1>4. ASSUME NEW n \in 1..N, n - 1 \in P PROVE n \in P
  <2> DEFINE t == f[n - 1]
  <2>1. /\ n \in 0..N /\ n - 1 \in 0..N /\ t \in Seq(E) /\ s[n] \in E
        /\ f[n] = IF s[n] \in C THEN Append(t, s[n]) ELSE t
    BY <1>1, <1>2
  <2>2. ToSet(t) = First(n - 1) \cap C /\ \A R : Ordered(s, R) => Ordered(t, R)
    BY <1>4
  <2>3. First(n) = First(n - 1) \cup {s[n]}
    <3>1. 1..n = (1..(n - 1)) \cup {n}
      BY <1>2
    <3> QED BY <3>1
  <2>4. ASSUME NEW R, Ordered(s, R), NEW x \in First(n - 1) PROVE <<x, s[n]>> \in R
    <3>1. PICK i \in 1..(n - 1) : x = s[i]
      OBVIOUS
    <3>2. i \in 1..N /\ i < n
      BY <1>2
    <3> QED BY <1>2, <2>4, <3>1, <3>2 DEF Ordered
  <2> HIDE DEF t, First
  <2>5. CASE s[n] \in C
    <3>1. /\ ToSet(f[n]) = ToSet(t) \cup {s[n]}
          /\ \A R : Ordered(t, R) /\ (\A x \in ToSet(t) : <<x, s[n]>> \in R) => Ordered(f[n], R)
      BY <2>1, <2>5, AppendedFacts
    <3> QED BY <2>1, <2>2, <2>3, <2>4, <2>5, <3>1
  <2>6. CASE s[n] \notin C
    BY <2>1, <2>2, <2>3, <2>6
  <2> QED BY <2>5, <2>6
<1> HIDE DEF P
<1>5. 0..N \subseteq P
  BY <1>2, <1>3, <1>4, StepByStep
<1>6. Good(N)
  <2>1. N \in P
    BY <1>2, <1>5
  <2> QED BY <2>1, Zenon DEF P
<1>7. First(N) = ToSet(s)
  BY <1>2 DEF ToSet
<1>8. f[N] \in Seq(E)
  BY <1>1, <1>2
<1> QED BY <1>1, <1>6, <1>7, <1>8

(* Sequences of each order one after the other. *)
LEMMA JoinedFacts ==
  ASSUME NEW E, NEW s \in Seq(E), NEW t \in Seq(E)
  PROVE  /\ s \o t \in Seq(E) /\ Len(s \o t) = Len(s) + Len(t)
         /\ ToSet(s \o t) = ToSet(s) \cup ToSet(t)
         /\ \A R : Ordered(s, R) /\ Ordered(t, R) /\ (\A x \in ToSet(s), y \in ToSet(t) : <<x, y>> \in R)
                   => Ordered(s \o t, R)
<1> DEFINE u == s \o t
           M == Len(s)
           N == Len(t)
<1>1. /\ M \in Nat /\ N \in Nat /\ u \in Seq(E) /\ Len(u) = M + N
      /\ DOMAIN u = 1..(M + N) /\ DOMAIN s = 1..M /\ DOMAIN t = 1..N
      /\ \A n \in 1..M : u[n] = s[n]
      /\ \A n \in 1..N : u[M + n] = t[n]
  OBVIOUS
<1> HIDE DEF u, M, N
<1>2. \A k \in 1..(M + N) : k \in 1..M \/ \E n \in 1..N : k = M + n
  <2> TAKE k \in 1..(M + N)
  <2>1. k \in 1..M \/ (k - M \in 1..N /\ k = M + (k - M))
    BY <1>1
  <2> QED BY <2>1
<1>3. (\A n \in 1..M : n \in 1..(M + N)) /\ \A n \in 1..N : M + n \in 1..(M + N)
  BY <1>1
<1>4. ToSet(u) = ToSet(s) \cup ToSet(t)
  <2>1. ASSUME NEW k \in 1..(M + N) PROVE u[k] \in ToSet(s) \cup ToSet(t)
    <3>1. CASE k \in 1..M
      BY <1>1, <3>1 DEF ToSet
    <3>2. CASE \E n \in 1..N : k = M + n
      <4>1. PICK n \in 1..N : k = M + n
        BY <3>2
      <4>2. u[k] = t[n] /\ n \in DOMAIN t
        BY <1>1, <4>1
      <4> QED BY <4>2 DEF ToSet
    <3> QED BY <1>2, <3>1, <3>2
  <2>2. ASSUME NEW n \in 1..M PROVE s[n] \in ToSet(u)
    BY <1>1, <1>3 DEF ToSet
  <2>3. ASSUME NEW n \in 1..N PROVE t[n] \in ToSet(u)
    <3>1. M + n \in DOMAIN u /\ u[M + n] = t[n]
      BY <1>1, <1>3
    <3> QED BY <3>1, Zenon DEF ToSet
  <2>4. ToSet(u) = {u[k] : k \in 1..(M + N)} /\ ToSet(s) = {s[n] : n \in 1..M} /\ ToSet(t) = {t[n] : n \in 1..N}
    BY <1>1 DEF ToSet
  <2> QED BY <2>1, <2>2, <2>3, <2>4
<1>5. ASSUME NEW R, Ordered(s, R), Ordered(t, R), \A x \in ToSet(s), y \in ToSet(t) : <<x, y>> \in R
      PROVE  Ordered(u, R)
  <2> SUFFICES ASSUME NEW m \in 1..(M + N), NEW n \in 1..(M + N), m < n PROVE <<u[m], u[n]>> \in R
    BY <1>1 DEF Ordered
  <2>1. CASE m \in 1..M /\ n \in 1..M
    BY <1>1, <1>5, <2>1 DEF Ordered
  <2>2. CASE m \in 1..M /\ \E k \in 1..N : n = M + k
    <3>1. PICK k \in 1..N : n = M + k
      BY <2>2
    <3>2. s[m] \in ToSet(s) /\ t[k] \in ToSet(t) /\ u[m] = s[m] /\ u[n] = t[k]
      BY <1>1, <2>2, <3>1 DEF ToSet
    <3> QED BY <1>5, <3>2
  <2>3. CASE (\E k \in 1..N : m = M + k) /\ \E k \in 1..N : n = M + k
    <3>1. PICK k \in 1..N : m = M + k
      BY <2>3
    <3>2. PICK l \in 1..N : n = M + l
      BY <2>3
    <3>3. k < l
      BY <1>1, <3>1, <3>2
    <3> QED BY <1>1, <1>5, <3>1, <3>2, <3>3 DEF Ordered
  <2>4. ~((\E k \in 1..N : m = M + k) /\ n \in 1..M)
    <3> SUFFICES ASSUME NEW k \in 1..N, m = M + k, n \in 1..M PROVE FALSE
      OBVIOUS
    <3>1. M \in Nat /\ k \in Nat /\ k > 0 /\ n \in Nat /\ n <= M /\ M + k < n
      BY <1>1
    <3> QED BY <3>1
  <2> QED BY <1>2, <2>1, <2>2, <2>3, <2>4
<1> QED BY <1>1, <1>4, <1>5 DEF u, M, N

(* What is cut off behind leaves the order of the rest.                     *)
LEMMA CutFacts ==
  ASSUME NEW E, NEW s \in Seq(E), NEW k \in Nat
  PROVE  /\ Cut(s, 1, k) \in Seq(E) /\ Len(Cut(s, 1, k)) = (IF k < Len(s) THEN k ELSE Len(s))
         /\ ToSet(Cut(s, 1, k)) \subseteq ToSet(s)
         /\ \A n \in 1..Len(Cut(s, 1, k)) : Cut(s, 1, k)[n] = s[n]
         /\ \A R : Ordered(s, R) => Ordered(Cut(s, 1, k), R)
         /\ Len(s) <= k => Cut(s, 1, k) = s
<1> DEFINE to == IF k < Len(s) THEN k ELSE Len(s)
           u == SubSeq(s, 1, to)
<1>1. Cut(s, 1, k) = u
  BY DEF Cut
<1>2. to \in 0..Len(s) /\ to \in Nat /\ Len(s) \in Nat /\ (Len(s) <= k => to = Len(s)) /\ DOMAIN s = 1..Len(s)
  OBVIOUS
<1> HIDE DEF to
<1>3. u \in Seq(E) /\ Len(u) = to /\ DOMAIN u = 1..to /\ \A n \in 1..to : u[n] = s[n] /\ n \in 1..Len(s)
  <2>1. \A m \in 0..Len(s) : SubSeq(s, 1, m) \in Seq(E) /\ Len(SubSeq(s, 1, m)) = m
    OBVIOUS
  <2>2. \A m \in 0..Len(s) : \A n \in 1..m : SubSeq(s, 1, m)[n] = s[n] /\ n \in 1..Len(s)
    OBVIOUS
  <2>3. u \in Seq(E) /\ Len(u) = to
    BY <1>2, <2>1
  <2>4. \A n \in 1..to : u[n] = s[n] /\ n \in 1..Len(s)
    BY <1>2, <2>2
  <2>5. DOMAIN u = 1..Len(u)
    BY <2>3
  <2> QED BY <2>3, <2>4, <2>5
<1>4. to = Len(s) => u = s
  BY <1>2
<1> HIDE DEF u
<1>5. ToSet(u) \subseteq ToSet(s)
  BY <1>2, <1>3 DEF ToSet
<1>6. \A R : Ordered(s, R) => Ordered(u, R)
  BY <1>2, <1>3 DEF Ordered
<1> QED BY <1>1, <1>2, <1>3, <1>4, <1>5, <1>6 DEF to

-----------------------------------------------------------------------------
(* The tables of a query form a tree, with the joins as edges.             *)
Upto(p, n) == {p.root} \cup {p.joins[m].table : m \in 1..n}


LEMMA JoinTables ==
  ASSUME NEW p, IsQuery(p)
  PROVE  /\ Len(p.joins) \in Nat /\ DOMAIN p.joins = 1..Len(p.joins)
         /\ Upto(p, 0) = {p.root} /\ Upto(p, Len(p.joins)) = Tables(p)
         /\ \A n \in 1..Len(p.joins) :
              /\ p.joins[n].left \in Upto(p, n - 1) /\ p.joins[n].table \notin Upto(p, n - 1)
              /\ Upto(p, n) = Upto(p, n - 1) \cup {p.joins[n].table}
              /\ p.joins[n].left \in Tables(p) /\ p.joins[n].table \in Tables(p)
              /\ p.joins[n].table # p.root /\ p.joins[n].outer \in BOOLEAN
         /\ \A m, n \in 1..Len(p.joins) : p.joins[m].table = p.joins[n].table => m = n
<1> DEFINE N == Len(p.joins)
           K == [left : Tables(p), lcol : Column, table : Tables(p), col : Column, outer : BOOLEAN]
<1>0. p.joins \in Seq(K)
  BY DEF IsQuery
<1> HIDE DEF K
<1>1. N \in Nat /\ DOMAIN p.joins = 1..N /\ \A n \in 1..N : p.joins[n] \in K
  BY <1>0
<1>2. ASSUME NEW n \in 1..N
      PROVE  p.joins[n].left \in Upto(p, n - 1) /\ p.joins[n].table \notin Upto(p, n - 1)
  BY <1>1 DEF IsQuery, Upto
<1> HIDE DEF N
<1>3. Upto(p, 0) = {p.root}
  <2>1. 1..0 = {}
    OBVIOUS
  <2> QED BY <2>1 DEF Upto
<1>4. Upto(p, N) = Tables(p)
  BY <1>1 DEF Upto, Tables
<1>5. ASSUME NEW n \in 1..N PROVE Upto(p, n) = Upto(p, n - 1) \cup {p.joins[n].table}
  <2>1. 1..n = (1..(n - 1)) \cup {n}
    BY <1>1
  <2> QED BY <2>1 DEF Upto
<1>6. \A n \in 1..N : p.joins[n].table # p.root
  BY <1>2 DEF Upto
<1>8. \A n \in 1..N : p.joins[n].left \in Tables(p) /\ p.joins[n].table \in Tables(p) /\ p.joins[n].outer \in BOOLEAN
  BY <1>1 DEF K
<1>7. ASSUME NEW m \in 1..N, NEW n \in 1..N, p.joins[m].table = p.joins[n].table PROVE m = n
  <2>1. ASSUME NEW i \in 1..N, NEW k \in 1..N, i < k PROVE p.joins[i].table # p.joins[k].table
    <3>1. i \in 1..(k - 1)
      BY <1>1, <2>1
    <3> QED BY <1>2, <3>1 DEF Upto
  <2>2. m < n \/ n < m \/ m = n
    BY <1>1
  <2> QED BY <1>7, <2>1, <2>2
<1> QED BY <1>1, <1>2, <1>3, <1>4, <1>5, <1>6, <1>7, <1>8 DEF N

(* Tables by their distance to the root.                                    *)
NearRun(f, p) ==
  /\ f \in [0..Len(p.joins) -> SUBSET Tables(p)] /\ f[0] = {p.root}
  /\ \A n \in 1..Len(p.joins) : f[n] = (f[n - 1] \cup {e.to : e \in {y \in JoinEdges(p) : y.from \in f[n - 1]}})

LEMMA NearRunExists ==
  ASSUME NEW p, IsQuery(p)
  PROVE  \E f : NearRun(f, p) /\ Near(p) = f
<1> DEFINE N == Len(p.joins)
           S == SUBSET Tables(p)
           One(x, n) == (x \cup {e.to : e \in {y \in JoinEdges(p) : y.from \in x}})
           G == [n \in 1..N |-> [x \in S |-> One(x, n)]]
           Step(f, n) == IF n = 0
                         THEN {p.root}
                         ELSE (f[n - 1] \cup {e.to : e \in {y \in JoinEdges(p) : y.from \in f[n - 1]}})
           Is(f) == f = [n \in 0..N |-> Step(f, n)]
           A == CHOOSE f : Is(f)
<1>0. \A e \in JoinEdges(p) : e.to \in Tables(p)
  BY JoinTables DEF JoinEdges
<1>1. N \in Nat /\ {p.root} \in S
  BY DEF IsQuery, Tables
<1>2. \A n \in 1..N, x \in S : One(x, n) \in S
  BY <1>0
<1>3. Steps(G, S, N)
  BY <1>2 DEF Steps
<1>4. \A n \in 1..N, x \in S : G[n][x] = One(x, n)
  OBVIOUS
<1>5. Near(p) = A
  BY DEF Near
<1>6. \A f : \A n \in 1..N : n \in 0..N /\ n - 1 \in 0..N /\ Step(f, n) = One(f[n - 1], n)
  BY <1>1
<1>7. \A f : 0 \in 0..N /\ Step(f, 0) = {p.root}
  BY <1>1
<1>8. \A n \in 0..N : n = 0 \/ n \in 1..N
  BY <1>1
<1>9. \A f : \A n \in 1..N : One(f[n - 1], n) = (f[n - 1] \cup {e.to : e \in {y \in JoinEdges(p) : y.from \in f[n - 1]}})
  OBVIOUS
<1> HIDE DEF G, N, S, One, Step
<1>10. PICK g : Iterates(g, G, S, N, {p.root})
  BY <1>1, <1>3, IterationExists
<1>11. Is(g)
  <2>1. ASSUME NEW n \in 0..N PROVE g[n] = Step(g, n)
    <3>1. CASE n = 0
      BY <1>7, <1>10, <3>1 DEF Iterates
    <3>2. CASE n \in 1..N
      <4>1. g[n - 1] \in S /\ g[n] = G[n][g[n - 1]]
        BY <1>6, <1>10, <3>2 DEF Iterates
      <4> QED BY <1>4, <1>6, <3>2, <4>1
    <3> QED BY <1>8, <3>1, <3>2
  <2> QED BY <1>10, <2>1 DEF Iterates
<1>12. Is(A)
  BY <1>11, Zenon
<1> HIDE DEF A
<1>13. A = [n \in 0..N |-> A[n]] /\ A[0] = {p.root}
  BY <1>7, <1>12
<1>14. ASSUME NEW n \in 1..N, A[n - 1] \in S PROVE A[n] = G[n][A[n - 1]]
  <2>1. A[n] = One(A[n - 1], n)
    BY <1>6, <1>12
  <2> QED BY <1>4, <1>14, <2>1
<1>15. Iterates(A, G, S, N, {p.root})
  BY <1>1, <1>3, <1>13, <1>14, IterationIs
<1>16. A \in [0..N -> S] /\ \A n \in 1..N : A[n] = One(A[n - 1], n)
  BY <1>4, <1>6, <1>15 DEF Iterates
<1>19. \A n \in 1..N : A[n] = (A[n - 1] \cup {e.to : e \in {y \in JoinEdges(p) : y.from \in A[n - 1]}})
  BY <1>9, <1>16
<1>17. /\ Near(p) = A
       /\ A \in [0..Len(p.joins) -> SUBSET Tables(p)]
       /\ \A n \in 1..Len(p.joins) :
            A[n] = (A[n - 1] \cup {e.to : e \in {y \in JoinEdges(p) : y.from \in A[n - 1]}})
  BY <1>5, <1>16, <1>19 DEF N, S
<1>18. NearRun(A, p)
  BY <1>13, <1>17, Zenon DEF NearRun
<1> QED BY <1>17, <1>18


(* Every table has its distance; a join leads from its left table one step  *)
(* away from the root, so that its edge back is one of those that are kept. *)
BackEdge(j) == [from |-> j.table, fcol |-> j.col, to |-> j.left, tcol |-> j.lcol]

LEMMA NearFacts ==
  ASSUME NEW p, IsQuery(p)
  PROVE  /\ \A n \in 0..Len(p.joins) : Upto(p, n) \subseteq Near(p)[n]
         /\ \A m, n \in 0..Len(p.joins) : m <= n => Near(p)[m] \subseteq Near(p)[n]
         /\ \A n \in 1..Len(p.joins), m \in 0..Len(p.joins) :
              p.joins[n].table \in Near(p)[m] => m >= 1 /\ p.joins[n].left \in Near(p)[m - 1]
         /\ \A n \in 0..Len(p.joins) : Near(p)[n] \subseteq Tables(p)
<1> DEFINE N == Len(p.joins)
           J(n) == p.joins[n]
<1>1. PICK f : NearRun(f, p) /\ Near(p) = f
  BY NearRunExists
<1>2. /\ f \in [0..N -> SUBSET Tables(p)] /\ f[0] = {p.root}
      /\ \A n \in 1..N : f[n] = f[n - 1] \cup {e.to : e \in {y \in JoinEdges(p) : y.from \in f[n - 1]}}
  BY <1>1 DEF NearRun
<1>3. /\ N \in Nat /\ DOMAIN p.joins = 1..N /\ Upto(p, 0) = {p.root}
      /\ \A n \in 1..N : /\ J(n).left \in Upto(p, n - 1) /\ J(n).table \notin Upto(p, n - 1)
                         /\ Upto(p, n) = Upto(p, n - 1) \cup {J(n).table} /\ J(n).table # p.root
      /\ \A m, n \in 1..N : J(m).table = J(n).table => m = n
  BY JoinTables
<1>4. \A e \in JoinEdges(p) : \E n \in 1..N :
        (e.from = J(n).left /\ e.to = J(n).table) \/ (e.from = J(n).table /\ e.to = J(n).left)
  BY <1>3 DEF JoinEdges
<1>5. \A n \in 1..N : \E e \in JoinEdges(p) : e.from = J(n).left /\ e.to = J(n).table
  <2> TAKE n \in 1..N
  <2> DEFINE e == [from |-> J(n).left, fcol |-> J(n).lcol, to |-> J(n).table, tcol |-> J(n).col]
  <2>1. e \in JoinEdges(p)
    BY <1>3 DEF JoinEdges
  <2> QED BY <2>1
<1> HIDE DEF N, J
<1>6. \A n \in 1..N : n \in 0..N /\ n - 1 \in 0..N /\ f[n - 1] \subseteq f[n]
  BY <1>2, <1>3
<1>7. \A m, n \in 0..N : m <= n => f[m] \subseteq f[n]
  <2> TAKE m \in 0..N
  <2> DEFINE P == {n \in 0..N : m <= n => f[m] \subseteq f[n]}
  <2>1. 0 \in P
    BY <1>3
  <2>2. ASSUME NEW n \in 1..N, n - 1 \in P PROVE n \in P
    <3>1. CASE m <= n - 1
      BY <1>6, <2>2, <3>1
    <3>2. CASE ~(m <= n - 1)
      <4>1. m <= n => m = n
        BY <1>3, <3>2
      <4> QED BY <1>6, <4>1
    <3> QED BY <3>1, <3>2
  <2> HIDE DEF P
  <2>3. 0..N \subseteq P
    BY <1>3, <2>1, <2>2, StepByStep
  <2> QED BY <2>3 DEF P
<1>8. \A n \in 0..N : Upto(p, n) \subseteq f[n]
  <2> DEFINE P == {n \in 0..N : Upto(p, n) \subseteq f[n]}
  <2>1. 0 \in P
    BY <1>2, <1>3
  <2>2. ASSUME NEW n \in 1..N, n - 1 \in P PROVE n \in P
    <3>1. J(n).left \in f[n - 1]
      BY <1>3, <2>2
    <3>2. PICK e \in JoinEdges(p) : e.from = J(n).left /\ e.to = J(n).table
      BY <1>5
    <3>3. J(n).table \in f[n]
      BY <1>2, <3>1, <3>2
    <3> QED BY <1>3, <1>6, <2>2, <3>3
  <2> HIDE DEF P
  <2>3. 0..N \subseteq P
    BY <1>3, <2>1, <2>2, StepByStep
  <2> QED BY <2>3 DEF P
<1>9. \A m \in 0..N, n \in 1..N : J(n).table \in f[m] => m >= 1 /\ J(n).left \in f[m - 1]
  <2> DEFINE P == {m \in 0..N : \A n \in 1..N : J(n).table \in f[m] => m >= 1 /\ J(n).left \in f[m - 1]}
  <2>1. 0 \in P
    BY <1>2, <1>3
  <2>2. ASSUME NEW m \in 1..N, m - 1 \in P PROVE m \in P
    <3> SUFFICES ASSUME NEW n \in 1..N, J(n).table \in f[m] PROVE J(n).left \in f[m - 1]
      BY <1>3, <1>6
    <3>0. m - 1 \in 0..N /\ f[m] = f[m - 1] \cup {e.to : e \in {y \in JoinEdges(p) : y.from \in f[m - 1]}}
      BY <1>2, <1>6
    <3>1. ASSUME J(n).table \in f[m - 1] PROVE J(n).left \in f[m - 1]
      <4>1. m - 1 >= 1 /\ J(n).left \in f[m - 2]
        <5>1. m - 1 >= 1 /\ J(n).left \in f[(m - 1) - 1]
          BY <2>2, <3>1
        <5> QED BY <1>3, <5>1
      <4>2. m - 1 \in 1..N /\ (m - 1) - 1 = m - 2
        BY <1>3, <4>1
      <4> QED BY <1>6, <4>1, <4>2
    <3>2. ASSUME NEW e \in JoinEdges(p), e.from \in f[m - 1], e.to = J(n).table PROVE J(n).left \in f[m - 1]
      <4>1. PICK k \in 1..N : (e.from = J(k).left /\ e.to = J(k).table) \/ (e.from = J(k).table /\ e.to = J(k).left)
        BY <1>4
      <4>2. CASE e.from = J(k).left /\ e.to = J(k).table
        <5>1. k = n
          BY <1>3, <3>2, <4>2
        <5> QED BY <3>2, <4>2, <5>1
      <4>3. CASE e.from = J(k).table /\ e.to = J(k).left
        <5>1. m - 1 >= 1 /\ J(n).table \in f[(m - 1) - 1]
          BY <2>2, <3>2, <4>3
        <5>2. m - 1 \in 1..N
          BY <1>3, <5>1
        <5>3. J(n).table \in f[m - 1]
          BY <1>6, <5>1, <5>2
        <5> QED BY <3>1, <5>3
      <4> QED BY <4>1, <4>2, <4>3
    <3> QED BY <3>0, <3>1, <3>2
  <2> HIDE DEF P
  <2>3. 0..N \subseteq P
    BY <1>3, <2>1, <2>2, StepByStep
  <2> QED BY <2>3 DEF P
<1>10. \A n \in 0..N : f[n] \subseteq Tables(p)
  BY <1>2
<1> QED BY <1>1, <1>7, <1>8, <1>9, <1>10 DEF N, J

LEMMA EdgeFacts ==
  ASSUME NEW p, IsQuery(p)
  PROVE  /\ \A t \in Tables(p) : DistanceToRoot(p, t) \in 0..Len(p.joins)
         /\ \A e \in EdgesToRoot(p) : /\ e.from \in Tables(p) /\ e.to \in Tables(p)
                                      /\ DistanceToRoot(p, e.to) < DistanceToRoot(p, e.from)
         /\ \A n \in 1..Len(p.joins) : BackEdge(p.joins[n]) \in EdgesToRoot(p)
<1> DEFINE N == Len(p.joins)
           near == Near(p)
           dist(t) == DistanceToRoot(p, t)
           J(n) == p.joins[n]
<1>1. /\ \A n \in 0..N : Upto(p, n) \subseteq near[n]
      /\ \A m, n \in 0..N : m <= n => near[m] \subseteq near[n]
      /\ \A n \in 1..N, m \in 0..N : J(n).table \in near[m] => m >= 1 /\ J(n).left \in near[m - 1]
  BY NearFacts
<1>2. /\ N \in Nat /\ DOMAIN p.joins = 1..N /\ Upto(p, N) = Tables(p)
      /\ \A n \in 1..N : J(n).left \in Tables(p) /\ J(n).table \in Tables(p)
  BY JoinTables
<1>3. \A t : dist(t) = CHOOSE n \in 0..N : t \in near[n] /\ (n = 0 \/ t \notin near[n - 1])
  BY DEF DistanceToRoot
<1> HIDE DEF N, near, J, dist
<1>4. ASSUME NEW t \in Tables(p) PROVE dist(t) \in 0..N /\ t \in near[dist(t)] /\ (dist(t) = 0 \/ t \notin near[dist(t) - 1])
  <2> DEFINE M == {n \in 0..N : t \in near[n]}
  <2>1. N \in M
    BY <1>1, <1>2
  <2>2. M \subseteq Nat /\ M # {}
    BY <2>1
  <2> HIDE DEF M
  <2>3. PICK m \in M : \A n \in M : m <= n
    BY <2>2, LeastNatural
  <2>4. m \in 0..N /\ t \in near[m]
    BY <2>3 DEF M
  <2>5. m = 0 \/ t \notin near[m - 1]
    <3> SUFFICES ASSUME m # 0, t \in near[m - 1] PROVE FALSE
      OBVIOUS
    <3>1. m - 1 \in M
      BY <1>2, <2>4 DEF M
    <3> QED BY <1>2, <2>3, <2>4, <3>1
  <2> QED BY <1>3, <2>4, <2>5
<1>5. ASSUME NEW n \in 1..N PROVE dist(J(n).left) < dist(J(n).table)
  <2> DEFINE m == dist(J(n).table)
             l == dist(J(n).left)
  <2>1. m \in 0..N /\ J(n).table \in near[m]
    BY <1>2, <1>4
  <2>2. m >= 1 /\ J(n).left \in near[m - 1]
    BY <1>1, <2>1
  <2>3. l \in 0..N /\ (l = 0 \/ J(n).left \notin near[l - 1])
    BY <1>2, <1>4
  <2> HIDE DEF m, l
  <2>4. CASE l <= m - 1
    BY <1>2, <2>1, <2>3, <2>4 DEF m, l
  <2>5. CASE ~(l <= m - 1)
    <3>1. m - 1 \in 0..N /\ l - 1 \in 0..N /\ m - 1 <= l - 1 /\ l # 0
      BY <1>2, <2>1, <2>2, <2>3, <2>5
    <3>2. J(n).left \in near[l - 1]
      BY <1>1, <2>2, <3>1
    <3> QED BY <2>3, <3>1, <3>2
  <2> QED BY <2>4, <2>5
<1>6. ASSUME NEW n \in 1..N PROVE BackEdge(J(n)) \in EdgesToRoot(p)
  <2>1. BackEdge(J(n)) \in JoinEdges(p)
    BY <1>2 DEF JoinEdges, BackEdge, J
  <2>2. BackEdge(J(n)).to = J(n).left /\ BackEdge(J(n)).from = J(n).table
    BY DEF BackEdge
  <2> QED BY <1>5, <2>1, <2>2 DEF EdgesToRoot, dist
<1>7. ASSUME NEW e \in EdgesToRoot(p) PROVE e.from \in Tables(p) /\ e.to \in Tables(p) /\ dist(e.to) < dist(e.from)
  <2>1. e \in JoinEdges(p) /\ dist(e.to) < dist(e.from)
    BY DEF EdgesToRoot, dist
  <2>2. e.from \in Tables(p) /\ e.to \in Tables(p)
    BY <1>2, <2>1 DEF JoinEdges, J
  <2> QED BY <2>1, <2>2
<1> QED BY <1>4, <1>6, <1>7 DEF N, dist, J

-----------------------------------------------------------------------------
(* What a query returns.                                                    *)
IsDatabase(d, p) ==
  \A t \in Tables(p) :
    /\ IsFiniteSet(d[t]) /\ Absent \notin d[t]
    /\ \A r \in d[t] : r.id \in Nat /\ r.id # 0 /\ r.v \in Int
    /\ \A r, s \in d[t] : r.id = s.id => r = s

AllRows(d, p) == UNION {d[t] : t \in Tables(p)}
Cells(d, p) == AllRows(d, p) \cup {Absent}
OutputSpace(d, p) == UNION {[D -> Cells(d, p)] : D \in SUBSET Tables(p)}

Chosen(d, p, A) == {x \in d[p.root] : x.id \in A /\ x.v \notin p.hidden}

Matches(d, j, o) ==
  {r \in d[j.table] : o[j.left] # Absent /\ o[j.left][j.lcol] # Null /\ r[j.col] = o[j.left][j.lcol]}

LEMMA JoinedMeans ==
  ASSUME NEW d, NEW X, NEW j, NEW u
  PROVE  u \in Joined(d, X, j) <=>
           \E o \in X : \/ Matches(d, j, o) = {} /\ j.outer /\ u = With(o, j.table, Absent)
                       \/ \E r \in Matches(d, j, o) : u = With(o, j.table, r)
<1> DEFINE From(o) == IF Matches(d, j, o) = {} /\ j.outer THEN {With(o, j.table, Absent)}
                      ELSE {With(o, j.table, r) : r \in Matches(d, j, o)}
<1>1. Joined(d, X, j) = UNION {From(o) : o \in X}
  BY DEF Joined, Matches
<1>2. \A o : u \in From(o) <=> \/ Matches(d, j, o) = {} /\ j.outer /\ u = With(o, j.table, Absent)
                              \/ \E r \in Matches(d, j, o) : u = With(o, j.table, r)
  OBVIOUS
<1> HIDE DEF From
<1>3. u \in UNION {From(o) : o \in X} <=> \E o \in X : u \in From(o)
  OBVIOUS
<1> QED BY <1>1, <1>2, <1>3

LEMMA WithFacts ==
  ASSUME NEW f, NEW x, NEW y
  PROVE  /\ DOMAIN With(f, x, y) = DOMAIN f \cup {x} /\ With(f, x, y)[x] = y
         /\ \A z \in DOMAIN f : z # x => With(f, x, y)[z] = f[z]
         /\ With(f, x, y) = [z \in DOMAIN f \cup {x} |-> With(f, x, y)[z]]
BY DEF With

LEMMA FiniteImage ==
  ASSUME NEW S, IsFiniteSet(S), NEW f, DOMAIN f = S
  PROVE  IsFiniteSet({f[x] : x \in S})
<1> DEFINE T == {f[x] : x \in S}
           g == [x \in S |-> f[x]]
<1>1. g \in Surjection(S, T)
  BY DEF Surjection
<1> QED BY <1>1, FS_Surjection

LEMMA JoinedFinite ==
  ASSUME NEW d, NEW X, NEW j, IsFiniteSet(X), IsFiniteSet(d[j.table])
  PROVE  IsFiniteSet(Joined(d, X, j))
<1> DEFINE M(o) == Matches(d, j, o)
           From(o) == IF M(o) = {} /\ j.outer THEN {With(o, j.table, Absent)}
                      ELSE {With(o, j.table, r) : r \in M(o)}
           F == [o \in X |-> From(o)]
<1>1. Joined(d, X, j) = UNION {F[o] : o \in X}
  BY DEF Joined, Matches
<1>2. ASSUME NEW o \in X PROVE IsFiniteSet(F[o])
  <2>1. IsFiniteSet(M(o))
    <3>1. M(o) \subseteq d[j.table]
      BY DEF Matches
    <3> QED BY <3>1, FS_Subset
  <2> DEFINE g == [r \in M(o) |-> With(o, j.table, r)]
  <2>2. IsFiniteSet({g[r] : r \in M(o)})
    <3> HIDE DEF M
    <3>1. DOMAIN g = M(o)
      OBVIOUS
    <3> HIDE DEF g
    <3> QED BY <2>1, <3>1, FiniteImage
  <2>3. {g[r] : r \in M(o)} = {With(o, j.table, r) : r \in M(o)}
    OBVIOUS
  <2>4. IsFiniteSet({With(o, j.table, Absent)})
    BY FS_Singleton
  <2>5. F[o] = From(o)
    OBVIOUS
  <2> HIDE DEF M, g, F
  <2> QED BY <2>2, <2>3, <2>4, <2>5
<1>3. DOMAIN F = X
  OBVIOUS
<1> HIDE DEF F
<1> DEFINE FF == {F[o] : o \in X}
<1>4. IsFiniteSet(FF)
  BY <1>3, FiniteImage
<1>5. \A Y \in FF : IsFiniteSet(Y)
  BY <1>2
<1> HIDE DEF FF
<1>6. IsFiniteSet(UNION FF)
  BY <1>4, <1>5, FS_UNION
<1> QED BY <1>1, <1>6 DEF FF

LEMMA JoinedInSpace ==
  ASSUME NEW d, NEW p, NEW X \in SUBSET OutputSpace(d, p), NEW j, j.table \in Tables(p)
  PROVE  Joined(d, X, j) \in SUBSET OutputSpace(d, p)
<1> SUFFICES ASSUME NEW u \in Joined(d, X, j) PROVE u \in OutputSpace(d, p)
  OBVIOUS
<1>1. PICK o \in X, r \in d[j.table] \cup {Absent} : u = With(o, j.table, r)
  BY JoinedMeans DEF Matches
<1>2. PICK D \in SUBSET Tables(p) : o \in [D -> Cells(d, p)]
  BY DEF OutputSpace
<1>3. r \in Cells(d, p)
  <2>1. d[j.table] \subseteq AllRows(d, p)
    BY DEF AllRows
  <2> QED BY <2>1 DEF Cells
<1>4. u \in [D \cup {j.table} -> Cells(d, p)]
  BY <1>1, <1>2, <1>3 DEF With
<1>5. D \cup {j.table} \in SUBSET Tables(p)
  OBVIOUS
<1> QED BY <1>4, <1>5 DEF OutputSpace


(* The outputs of the joins up to each.                                     *)
OutputsRun(f, d, p, A) ==
  /\ f \in [0..Len(p.joins) -> SUBSET OutputSpace(d, p)] /\ f[0] = {RootRow(p, r) : r \in Chosen(d, p, A)}
  /\ \A n \in 1..Len(p.joins) : f[n] = Joined(d, f[n - 1], p.joins[n])

LEMMA OutputsRunExists ==
  ASSUME NEW d, NEW p, IsQuery(p), NEW A
  PROVE  \E f : OutputsRun(f, d, p, A) /\ Outputs(d, p, A) = f[Len(p.joins)]
<1> DEFINE N == Len(p.joins)
           S == SUBSET OutputSpace(d, p)
           One(x, n) == Joined(d, x, p.joins[n])
           G == [n \in 1..N |-> [x \in S |-> One(x, n)]]
           Step(f, n) == IF n = 0 THEN {RootRow(p, r) : r \in Chosen(d, p, A)} ELSE Joined(d, f[n - 1], p.joins[n])
           Is(f) == f = [n \in 0..N |-> Step(f, n)]
           Fun == CHOOSE f : Is(f)
<1>0. \A r \in d[p.root] : RootRow(p, r) \in OutputSpace(d, p)
  <2> TAKE r \in d[p.root]
  <2>1. RootRow(p, r) \in [{p.root} -> Cells(d, p)] /\ {p.root} \in SUBSET Tables(p)
    BY DEF RootRow, Cells, AllRows, Tables
  <2> QED BY <2>1 DEF OutputSpace
<1>1. N \in Nat /\ {RootRow(p, r) : r \in Chosen(d, p, A)} \in S
  BY <1>0, JoinTables DEF Chosen
<1>2. \A n \in 1..N, x \in S : One(x, n) \in S
  BY JoinTables, JoinedInSpace
<1>3. Steps(G, S, N)
  BY <1>2 DEF Steps
<1>4. \A n \in 1..N, x \in S : G[n][x] = One(x, n)
  OBVIOUS
<1>5. Outputs(d, p, A) = Fun[Len(p.joins)]
  BY DEF Outputs, Chosen
<1>6. \A f : \A n \in 1..N : n \in 0..N /\ n - 1 \in 0..N /\ Step(f, n) = One(f[n - 1], n)
  BY <1>1
<1>7. \A f : 0 \in 0..N /\ Step(f, 0) = {RootRow(p, r) : r \in Chosen(d, p, A)}
  BY <1>1
<1>8. \A n \in 0..N : n = 0 \/ n \in 1..N
  BY <1>1
<1>9. \A f : \A n \in 1..N : One(f[n - 1], n) = Joined(d, f[n - 1], p.joins[n])
  OBVIOUS
<1> HIDE DEF G, N, S, One, Step
<1>10. PICK g : Iterates(g, G, S, N, {RootRow(p, r) : r \in Chosen(d, p, A)})
  BY <1>1, <1>3, IterationExists
<1>11. Is(g)
  <2>1. ASSUME NEW n \in 0..N PROVE g[n] = Step(g, n)
    <3>1. CASE n = 0
      BY <1>7, <1>10, <3>1 DEF Iterates
    <3>2. CASE n \in 1..N
      <4>1. g[n - 1] \in S /\ g[n] = G[n][g[n - 1]]
        BY <1>6, <1>10, <3>2 DEF Iterates
      <4> QED BY <1>4, <1>6, <3>2, <4>1
    <3> QED BY <1>8, <3>1, <3>2
  <2> QED BY <1>10, <2>1 DEF Iterates
<1>12. Is(Fun)
  BY <1>11, Zenon
<1> HIDE DEF Fun
<1>13. Fun = [n \in 0..N |-> Fun[n]] /\ Fun[0] = {RootRow(p, r) : r \in Chosen(d, p, A)}
  BY <1>7, <1>12
<1>14. ASSUME NEW n \in 1..N, Fun[n - 1] \in S PROVE Fun[n] = G[n][Fun[n - 1]]
  <2>1. Fun[n] = One(Fun[n - 1], n)
    BY <1>6, <1>12
  <2> QED BY <1>4, <1>14, <2>1
<1>15. Iterates(Fun, G, S, N, {RootRow(p, r) : r \in Chosen(d, p, A)})
  BY <1>1, <1>3, <1>13, <1>14, IterationIs
<1>16. Fun \in [0..N -> S] /\ \A n \in 1..N : Fun[n] = One(Fun[n - 1], n)
  BY <1>4, <1>6, <1>15 DEF Iterates
<1>17. /\ Outputs(d, p, A) = Fun[Len(p.joins)]
       /\ Fun \in [0..Len(p.joins) -> SUBSET OutputSpace(d, p)]
       /\ \A n \in 1..Len(p.joins) :
            Fun[n] = Joined(d, Fun[n - 1], p.joins[n])
  BY <1>5, <1>9, <1>16 DEF N, S
<1>18. OutputsRun(Fun, d, p, A)
  BY <1>13, <1>17, Zenon DEF OutputsRun
<1> QED BY <1>17, <1>18

(* An output has a row or none for each table, and a root row.              *)
IsOutput(o, d, p, A, D) ==
  /\ o = [t \in D |-> o[t]] /\ p.root \in D
  /\ o[p.root] \in Chosen(d, p, A)
  /\ \A t \in D : o[t] \in d[t] \cup {Absent}

LEMMA OutputStages ==
  ASSUME NEW d, NEW p, IsQuery(p), IsDatabase(d, p), NEW A, NEW f, OutputsRun(f, d, p, A),
         NEW n \in 0..Len(p.joins)
  PROVE  IsFiniteSet(f[n]) /\ \A o \in f[n] : IsOutput(o, d, p, A, Upto(p, n))
<1> DEFINE N == Len(p.joins)
           Good(k) == IsFiniteSet(f[k]) /\ \A o \in f[k] : IsOutput(o, d, p, A, Upto(p, k))
           P == {k \in 0..N : Good(k)}
<1>1. /\ N \in Nat /\ Upto(p, 0) = {p.root}
      /\ \A k \in 1..N : /\ Upto(p, k) = Upto(p, k - 1) \cup {p.joins[k].table}
                         /\ p.joins[k].table \notin Upto(p, k - 1) /\ p.joins[k].table \in Tables(p)
  BY JoinTables
<1>2. /\ f[0] = {RootRow(p, r) : r \in Chosen(d, p, A)}
      /\ \A k \in 1..N : f[k] = Joined(d, f[k - 1], p.joins[k])
  BY DEF OutputsRun
<1>3. p.root \in Tables(p)
  BY DEF Tables
<1>4. Good(0)
  <2>1. IsFiniteSet(Chosen(d, p, A))
    <3>1. Chosen(d, p, A) \subseteq d[p.root]
      BY DEF Chosen
    <3> QED BY <1>3, <3>1, FS_Subset DEF IsDatabase
  <2> DEFINE g == [r \in Chosen(d, p, A) |-> RootRow(p, r)]
  <2>2. IsFiniteSet({g[r] : r \in Chosen(d, p, A)})
    <3>1. DOMAIN g = Chosen(d, p, A)
      OBVIOUS
    <3> HIDE DEF g
    <3> QED BY <2>1, <3>1, FiniteImage
  <2>3. {g[r] : r \in Chosen(d, p, A)} = f[0]
    BY <1>2
  <2>4. ASSUME NEW r \in Chosen(d, p, A) PROVE IsOutput(RootRow(p, r), d, p, A, {p.root})
    BY DEF IsOutput, RootRow, Chosen
  <2>5. ASSUME NEW o \in f[0] PROVE IsOutput(o, d, p, A, Upto(p, 0))
    <3>1. PICK r \in Chosen(d, p, A) : o = RootRow(p, r)
      BY <1>2
    <3>2. Upto(p, 0) = {p.root}
      BY <1>1
    <3> QED BY <2>4, <3>1, <3>2
  <2> HIDE DEF g
  <2> QED BY <2>2, <2>3, <2>5
<1>5. ASSUME NEW k \in 1..N, k - 1 \in P PROVE k \in P
  <2> DEFINE j == p.joins[k]
             D == Upto(p, k - 1)
  <2>1. IsFiniteSet(f[k - 1]) /\ \A o \in f[k - 1] : IsOutput(o, d, p, A, D)
    BY <1>5
  <2>2. f[k] = Joined(d, f[k - 1], j) /\ Upto(p, k) = D \cup {j.table} /\ j.table \notin D /\ IsFiniteSet(d[j.table])
    BY <1>1, <1>2 DEF IsDatabase
  <2>3. IsFiniteSet(f[k])
    BY <2>1, <2>2, JoinedFinite
  <2>4. ASSUME NEW u \in f[k] PROVE IsOutput(u, d, p, A, D \cup {j.table})
    <3> HIDE DEF j, D
    <3>1. PICK o \in f[k - 1], r \in d[j.table] \cup {Absent} : u = With(o, j.table, r)
      BY <2>2, JoinedMeans DEF Matches
    <3>2. IsOutput(o, d, p, A, D)
      BY <2>1
    <3>3. DOMAIN o = D
      BY <3>2 DEF IsOutput
    <3>4. /\ DOMAIN u = D \cup {j.table} /\ u[j.table] = r /\ u = [z \in D \cup {j.table} |-> u[z]]
          /\ \A z \in D : u[z] = o[z]
      BY <2>2, <3>1, <3>3 DEF With
    <3> QED BY <3>2, <3>4 DEF IsOutput
  <2>5. k \in 0..N
    BY <1>1
  <2> QED BY <2>2, <2>3, <2>4, <2>5
<1>6. 0 \in P
  BY <1>1, <1>4
<1> HIDE DEF P
<1>7. 0..N \subseteq P
  BY <1>1, <1>5, <1>6, StepByStep
<1> QED BY <1>7 DEF P

LEMMA OutputFacts ==
  ASSUME NEW d, NEW p, IsQuery(p), IsDatabase(d, p), NEW A
  PROVE  /\ IsFiniteSet(Outputs(d, p, A))
         /\ \A o \in Outputs(d, p, A) : IsOutput(o, d, p, A, Tables(p))
<1>1. PICK f : OutputsRun(f, d, p, A) /\ Outputs(d, p, A) = f[Len(p.joins)]
  BY OutputsRunExists
<1>2. Len(p.joins) \in 0..Len(p.joins) /\ Upto(p, Len(p.joins)) = Tables(p)
  BY JoinTables
<1> QED BY <1>1, <1>2, OutputStages

-----------------------------------------------------------------------------
(* The joins of rows that are not in D, rows of each table, do not lead     *)
(* into D, and outside D the databases d and c are the same.                *)
ClosedOff(d, c, p, D) ==
  /\ \A t \in Tables(p) : /\ \A r \in d[t] : r.id \notin D[t] => r \in c[t]
                          /\ \A r \in c[t] : r.id \notin D[t] => r \in d[t]
  /\ \A n \in 1..Len(p.joins) :
       LET j == p.joins[n]
       IN  \A x \in d[j.left] \cup c[j.left], r \in d[j.table] \cup c[j.table] :
             x.id \notin D[j.left] /\ x[j.lcol] # Null /\ r[j.col] = x[j.lcol] => r.id \notin D[j.table]

LEMMA SettledBothWays ==
  ASSUME NEW d, NEW c, NEW p, NEW D, ClosedOff(d, c, p, D)
  PROVE  ClosedOff(c, d, p, D)
BY DEF ClosedOff

Clean(o, D, T) == \A t \in T : o[t] = Absent \/ o[t].id \notin D[t]

(* What a root row outside D yields is the same in both.                    *)
LEMMA TransferStages ==
  ASSUME NEW d, NEW c, NEW p, IsQuery(p), IsDatabase(d, p), IsDatabase(c, p), NEW D, ClosedOff(d, c, p, D),
         NEW A, NEW B, NEW f, NEW g, OutputsRun(f, d, p, A), OutputsRun(g, c, p, B),
         NEW b \in A \cap B, b \notin D[p.root], NEW n \in 0..Len(p.joins), NEW u \in f[n], u[p.root].id = b
  PROVE  u \in g[n] /\ Clean(u, D, Upto(p, n))
<1> DEFINE N == Len(p.joins)
           Good(k) == \A o \in f[k] : o[p.root].id = b => o \in g[k] /\ Clean(o, D, Upto(p, k))
           P == {k \in 0..N : Good(k)}
<1>1. /\ N \in Nat /\ Upto(p, 0) = {p.root}
      /\ \A k \in 1..N : /\ Upto(p, k) = Upto(p, k - 1) \cup {p.joins[k].table}
                         /\ p.joins[k].table \notin Upto(p, k - 1) /\ p.joins[k].table \in Tables(p)
                         /\ p.joins[k].left \in Upto(p, k - 1) /\ p.joins[k].left \in Tables(p)
  BY JoinTables
<1>2. /\ f[0] = {RootRow(p, r) : r \in Chosen(d, p, A)}
      /\ \A k \in 1..N : f[k] = Joined(d, f[k - 1], p.joins[k])
  BY DEF OutputsRun
<1>3. /\ g[0] = {RootRow(p, r) : r \in Chosen(c, p, B)}
      /\ \A k \in 1..N : g[k] = Joined(c, g[k - 1], p.joins[k])
  BY DEF OutputsRun
<1>4. Good(0)
  <2>1. ASSUME NEW o \in f[0], o[p.root].id = b PROVE o \in g[0] /\ Clean(o, D, {p.root})
    <3>1. PICK r \in Chosen(d, p, A) : o = RootRow(p, r)
      BY <1>2
    <3>2. o[p.root] = r
      BY <3>1 DEF RootRow
    <3>3. r \in Chosen(c, p, B)
      BY <2>1, <3>2 DEF Chosen, ClosedOff, Tables
    <3> QED BY <1>3, <2>1, <3>1, <3>2, <3>3 DEF Clean
  <2>2. Upto(p, 0) = {p.root}
    BY <1>1
  <2> QED BY <2>1, <2>2, Zenon
<1>5. ASSUME NEW k \in 1..N, k - 1 \in P PROVE k \in P
  <2> DEFINE j == p.joins[k]
             T == Upto(p, k - 1)
  <2>1. \A o \in f[k - 1] : o[p.root].id = b => o \in g[k - 1] /\ Clean(o, D, T)
    BY <1>5
  <2>2. /\ f[k] = Joined(d, f[k - 1], j) /\ g[k] = Joined(c, g[k - 1], j)
        /\ Upto(p, k) = T \cup {j.table} /\ j.table \notin T /\ j.left \in T
        /\ j.table \in Tables(p) /\ j.left \in Tables(p)
    BY <1>1, <1>2, <1>3
  <2>3. \A o \in f[k - 1] : IsOutput(o, d, p, A, T)
    <3>1. k - 1 \in 0..N
      BY <1>1
    <3> QED BY <3>1, OutputStages
  <2>4. \A x \in d[j.left] \cup c[j.left], r \in d[j.table] \cup c[j.table] :
          x.id \notin D[j.left] /\ x[j.lcol] # Null /\ r[j.col] = x[j.lcol] => r.id \notin D[j.table]
    BY DEF ClosedOff
  <2>5. k \in 0..N
    BY <1>1
  <2> HIDE DEF j, T
  <2>6. ASSUME NEW w \in f[k], w[p.root].id = b PROVE w \in g[k] /\ Clean(w, D, T \cup {j.table})
    <3>1. PICK o \in f[k - 1] : \/ Matches(d, j, o) = {} /\ j.outer /\ w = With(o, j.table, Absent)
                                \/ \E r \in Matches(d, j, o) : w = With(o, j.table, r)
      <4>1. w \in Joined(d, f[k - 1], j)
        BY <2>2
      <4> DEFINE X == f[k - 1]
      <4>2. w \in Joined(d, X, j)
        BY <4>1
      <4> HIDE DEF X
      <4>3. \E o \in X : \/ Matches(d, j, o) = {} /\ j.outer /\ w = With(o, j.table, Absent)
                         \/ \E r \in Matches(d, j, o) : w = With(o, j.table, r)
        BY <4>2, JoinedMeans
      <4> QED BY <4>3 DEF X
    <3>2. IsOutput(o, d, p, A, T) /\ DOMAIN o = T
      BY <2>3 DEF IsOutput
    <3>3. p.root \in T /\ o[j.left] \in d[j.left] \cup {Absent}
      BY <2>2, <3>2 DEF IsOutput
    <3>4. w[p.root] = o[p.root] /\ \A t \in T : w[t] = o[t]
      BY <2>2, <3>1, <3>2, <3>3 DEF With
    <3>5. o \in g[k - 1] /\ Clean(o, D, T)
      BY <2>1, <2>6, <3>4
    <3>6. \A r \in Matches(d, j, o) \cup Matches(c, j, o) : r \in d[j.table] /\ r \in c[j.table] /\ r.id \notin D[j.table]
      <4> TAKE r \in Matches(d, j, o) \cup Matches(c, j, o)
      <4>1. r \in d[j.table] \cup c[j.table] /\ o[j.left] # Absent /\ o[j.left][j.lcol] # Null /\ r[j.col] = o[j.left][j.lcol]
        BY DEF Matches
      <4>2. o[j.left] \in d[j.left] /\ o[j.left].id \notin D[j.left]
        BY <2>2, <3>3, <3>5, <4>1 DEF Clean
      <4>3. r.id \notin D[j.table]
        BY <2>4, <4>1, <4>2
      <4> QED BY <2>2, <4>1, <4>3 DEF ClosedOff
    <3>7. Matches(d, j, o) = Matches(c, j, o)
      BY <3>6 DEF Matches
    <3>8. w \in g[k]
      BY <2>2, <3>1, <3>5, <3>7, JoinedMeans
    <3>9. w[j.table] = Absent \/ w[j.table].id \notin D[j.table]
      BY <3>1, <3>6 DEF With
    <3> QED BY <3>4, <3>5, <3>8, <3>9 DEF Clean
  <2> QED BY <2>2, <2>5, <2>6
<1>6. 0 \in P
  BY <1>1, <1>4
<1> HIDE DEF P
<1>7. 0..N \subseteq P
  BY <1>1, <1>5, <1>6, StepByStep
<1>8. Good(n)
  BY <1>7 DEF P
<1> QED BY <1>8

LEMMA Transfer ==
  ASSUME NEW d, NEW c, NEW p, IsQuery(p), IsDatabase(d, p), IsDatabase(c, p), NEW D, ClosedOff(d, c, p, D),
         NEW A, NEW B, NEW b \in A \cap B, b \notin D[p.root], NEW u, u[p.root].id = b
  PROVE  u \in Outputs(d, p, A) <=> u \in Outputs(c, p, B)
<1>1. PICK f : OutputsRun(f, d, p, A) /\ Outputs(d, p, A) = f[Len(p.joins)]
  BY OutputsRunExists
<1>2. PICK g : OutputsRun(g, c, p, B) /\ Outputs(c, p, B) = g[Len(p.joins)]
  BY OutputsRunExists
<1>3. Len(p.joins) \in 0..Len(p.joins)
  BY JoinTables
<1>4. ClosedOff(c, d, p, D)
  BY SettledBothWays
<1>5. ASSUME u \in f[Len(p.joins)] PROVE u \in g[Len(p.joins)]
  BY <1>1, <1>2, <1>3, <1>5, TransferStages
<1>6. ASSUME u \in g[Len(p.joins)] PROVE u \in f[Len(p.joins)]
  BY <1>1, <1>2, <1>3, <1>4, <1>6, TransferStages
<1> QED BY <1>1, <1>2, <1>5, <1>6

(* Each root row yields its outputs, whichever others there are.            *)
LEMMA OutputsByRoot ==
  ASSUME NEW d, NEW p, IsQuery(p), IsDatabase(d, p), NEW A, NEW B
  PROVE  /\ \A u \in Outputs(d, p, A) : u[p.root].id \in A
         /\ \A u : u[p.root].id \in A \cap B => (u \in Outputs(d, p, A) <=> u \in Outputs(d, p, B))
<1>1. \A u \in Outputs(d, p, A) : u[p.root].id \in A
  BY OutputFacts DEF IsOutput, Chosen
<1> DEFINE D == [t \in Tables(p) |-> {}]
<1>2. ClosedOff(d, d, p, D) /\ \A b : b \notin D[p.root]
  <2>1. p.root \in Tables(p) /\ \A n \in 1..Len(p.joins) : p.joins[n].table \in Tables(p)
    BY JoinTables DEF Tables
  <2> QED BY <2>1 DEF ClosedOff
<1> HIDE DEF D
<1>3. ASSUME NEW u, u[p.root].id \in A \cap B
      PROVE  u \in Outputs(d, p, A) <=> u \in Outputs(d, p, B)
  BY <1>2, <1>3, Transfer
<1> QED BY <1>1, <1>3

-----------------------------------------------------------------------------
(* The rows that a table is reached by, over the edges that lead to it.     *)
Reached(c, p, x, seen, t) ==
  UNION {{r.id : r \in {y \in c[t] : y[e.tcol] \in JoinValues(c, x[e.from], seen, e)}} :
         e \in {y \in EdgesToRoot(p) : y.to = t}}

LEMMA ReachedMeans ==
  ASSUME NEW c, NEW p, NEW x, NEW seen, NEW t
  PROVE  /\ \A i : i \in Reached(c, p, x, seen, t) <=>
                   \E e \in EdgesToRoot(p), r \in c[t] :
                     e.to = t /\ i = r.id /\ r[e.tcol] \in JoinValues(c, x[e.from], seen, e)
<1> DEFINE From(e) == {r.id : r \in {y \in c[t] : y[e.tcol] \in JoinValues(c, x[e.from], seen, e)}}
           E == {y \in EdgesToRoot(p) : y.to = t}
<1>1. Reached(c, p, x, seen, t) = UNION {From(e) : e \in E}
  BY DEF Reached
<1>2. \A e, i : i \in From(e) <=> \E r \in c[t] : i = r.id /\ r[e.tcol] \in JoinValues(c, x[e.from], seen, e)
  OBVIOUS
<1> HIDE DEF From
<1>3. \A i : i \in UNION {From(e) : e \in E} <=> \E e \in E : i \in From(e)
  OBVIOUS
<1> QED BY <1>1, <1>2, <1>3


(* The rounds of the worklist.                                              *)
DirtyRun(f, c, p, marked, seen) ==
  /\ f \in [0..Len(p.joins) -> [Tables(p) -> SUBSET Nat]] /\ f[0] = [t \in Tables(p) |-> marked[t]]
  /\ \A n \in 1..Len(p.joins) : f[n] = [t \in Tables(p) |-> f[n - 1][t] \cup Reached(c, p, f[n - 1], seen, t)]

LEMMA DirtyRunExists ==
  ASSUME NEW c, NEW p, IsQuery(p), IsDatabase(c, p), NEW marked, \A t \in Tables(p) : marked[t] \subseteq Nat, NEW seen
  PROVE  \E f : DirtyRun(f, c, p, marked, seen) /\ DirtyRows(c, p, marked, seen) = f[Len(p.joins)]
<1> DEFINE N == Len(p.joins)
           S == [Tables(p) -> SUBSET Nat]
           One(x, n) == [t \in Tables(p) |-> x[t] \cup Reached(c, p, x, seen, t)]
           G == [n \in 1..N |-> [x \in S |-> One(x, n)]]
           Step(f, n) == IF n = 0
                         THEN [t \in Tables(p) |-> marked[t]]
                         ELSE [t \in Tables(p) |-> f[n - 1][t] \cup Reached(c, p, f[n - 1], seen, t)]
           Is(f) == f = [n \in 0..N |-> Step(f, n)]
           Fun == CHOOSE f : Is(f)
<1>0. \A x : \A t \in Tables(p) : Reached(c, p, x, seen, t) \subseteq Nat
  BY ReachedMeans DEF IsDatabase
<1>1. N \in Nat /\ [t \in Tables(p) |-> marked[t]] \in S
  BY JoinTables
<1>2. \A n \in 1..N, x \in S : One(x, n) \in S
  BY <1>0
<1>3. Steps(G, S, N)
  BY <1>2 DEF Steps
<1>4. \A n \in 1..N, x \in S : G[n][x] = One(x, n)
  OBVIOUS
<1>5. DirtyRows(c, p, marked, seen) = Fun[Len(p.joins)]
  BY DEF DirtyRows, Reached
<1>6. \A f : \A n \in 1..N : n \in 0..N /\ n - 1 \in 0..N /\ Step(f, n) = One(f[n - 1], n)
  BY <1>1
<1>7. \A f : 0 \in 0..N /\ Step(f, 0) = [t \in Tables(p) |-> marked[t]]
  BY <1>1
<1>8. \A n \in 0..N : n = 0 \/ n \in 1..N
  BY <1>1
<1>9. \A f : \A n \in 1..N : One(f[n - 1], n) = [t \in Tables(p) |-> f[n - 1][t] \cup Reached(c, p, f[n - 1], seen, t)]
  OBVIOUS
<1> HIDE DEF G, N, S, One, Step
<1>10. PICK g : Iterates(g, G, S, N, [t \in Tables(p) |-> marked[t]])
  BY <1>1, <1>3, IterationExists
<1>11. Is(g)
  <2>1. ASSUME NEW n \in 0..N PROVE g[n] = Step(g, n)
    <3>1. CASE n = 0
      BY <1>7, <1>10, <3>1 DEF Iterates
    <3>2. CASE n \in 1..N
      <4>1. g[n - 1] \in S /\ g[n] = G[n][g[n - 1]]
        BY <1>6, <1>10, <3>2 DEF Iterates
      <4> QED BY <1>4, <1>6, <3>2, <4>1
    <3> QED BY <1>8, <3>1, <3>2
  <2> QED BY <1>10, <2>1 DEF Iterates
<1>12. Is(Fun)
  BY <1>11, Zenon
<1> HIDE DEF Fun
<1>13. Fun = [n \in 0..N |-> Fun[n]] /\ Fun[0] = [t \in Tables(p) |-> marked[t]]
  BY <1>7, <1>12
<1>14. ASSUME NEW n \in 1..N, Fun[n - 1] \in S PROVE Fun[n] = G[n][Fun[n - 1]]
  <2>1. Fun[n] = One(Fun[n - 1], n)
    BY <1>6, <1>12
  <2> QED BY <1>4, <1>14, <2>1
<1>15. Iterates(Fun, G, S, N, [t \in Tables(p) |-> marked[t]])
  BY <1>1, <1>3, <1>13, <1>14, IterationIs
<1>16. Fun \in [0..N -> S] /\ \A n \in 1..N : Fun[n] = One(Fun[n - 1], n)
  BY <1>4, <1>6, <1>15 DEF Iterates
<1>17. /\ DirtyRows(c, p, marked, seen) = Fun[Len(p.joins)]
       /\ Fun \in [0..Len(p.joins) -> [Tables(p) -> SUBSET Nat]]
       /\ \A n \in 1..Len(p.joins) :
            Fun[n] = [t \in Tables(p) |-> Fun[n - 1][t] \cup Reached(c, p, Fun[n - 1], seen, t)]
  BY <1>5, <1>9, <1>16 DEF N, S
<1>18. DirtyRun(Fun, c, p, marked, seen)
  BY <1>13, <1>17, Zenon DEF DirtyRun
<1> QED BY <1>17, <1>18


LEMMA DirtyFacts ==
  ASSUME NEW c, NEW p, IsQuery(p), IsDatabase(c, p), NEW marked, \A t \in Tables(p) : marked[t] \subseteq Nat, NEW seen
  PROVE  LET D == DirtyRows(c, p, marked, seen)
         IN  /\ \A t \in Tables(p) : /\ marked[t] \subseteq D[t]
                                     /\ D[t] \subseteq marked[t] \cup {r.id : r \in c[t]}
             /\ \A e \in EdgesToRoot(p) : \A x \in c[e.to] :
                  x[e.tcol] \in JoinValues(c, D[e.from], seen, e) => x.id \in D[e.to]
<1> DEFINE N == Len(p.joins)
           dist(t) == DistanceToRoot(p, t)
           R(x, t) == Reached(c, p, x, seen, t)
           IdsIn(t) == {r.id : r \in c[t]}
<1>1. PICK f : DirtyRun(f, c, p, marked, seen) /\ DirtyRows(c, p, marked, seen) = f[N]
  BY DirtyRunExists
<1>2. /\ f[0] = [t \in Tables(p) |-> marked[t]] /\ f \in [0..N -> [Tables(p) -> SUBSET Nat]]
      /\ \A n \in 1..N : f[n] = [t \in Tables(p) |-> f[n - 1][t] \cup R(f[n - 1], t)]
  BY <1>1 DEF DirtyRun
<1>9. \A n \in 1..N, t \in Tables(p) : f[n][t] = f[n - 1][t] \cup R(f[n - 1], t)
  BY <1>2
<1>3. /\ \A t \in Tables(p) : dist(t) \in 0..N
      /\ \A e \in EdgesToRoot(p) : e.from \in Tables(p) /\ e.to \in Tables(p) /\ dist(e.to) < dist(e.from)
  BY EdgeFacts
<1>4. N \in Nat
  BY JoinTables
<1>5. \A x, t : \A i : i \in R(x, t) <=>
                   \E e \in EdgesToRoot(p), r \in c[t] :
                     e.to = t /\ i = r.id /\ r[e.tcol] \in JoinValues(c, x[e.from], seen, e)
  BY ReachedMeans
<1> HIDE DEF N, dist, R
<1>6. \A t \in Tables(p) : marked[t] \subseteq f[N][t] /\ f[N][t] \subseteq marked[t] \cup IdsIn(t)
  <2> DEFINE Good(n) == \A t \in Tables(p) : marked[t] \subseteq f[n][t] /\ f[n][t] \subseteq marked[t] \cup IdsIn(t)
             P == {n \in 0..N : Good(n)}
  <2>1. 0 \in P
    BY <1>2, <1>4
  <2>2. ASSUME NEW n \in 1..N, n - 1 \in P PROVE n \in P
    <3>1. \A t \in Tables(p) : R(f[n - 1], t) \subseteq IdsIn(t)
      BY <1>5
    <3>2. \A t \in Tables(p) : f[n][t] = f[n - 1][t] \cup R(f[n - 1], t)
      BY <1>9
    <3>3. n \in 0..N /\ Good(n - 1)
      BY <1>4, <2>2
    <3> HIDE DEF IdsIn
    <3> QED BY <3>1, <3>2, <3>3
  <2> HIDE DEF P
  <2>3. 0..N \subseteq P
    BY <1>4, <2>1, <2>2, StepByStep
  <2>4. Good(N)
    BY <1>4, <2>3 DEF P
  <2> QED BY <2>4
(* A table is done when those farther from the root are.                    *)
<1>7. \A n \in 1..N, t \in Tables(p) : n - 1 >= N - dist(t) => f[n][t] = f[n - 1][t]
  <2> DEFINE Good(n) == n = 0 \/ \A t \in Tables(p) : n - 1 >= N - dist(t) => f[n][t] = f[n - 1][t]
             P == {n \in 0..N : Good(n)}
  <2>1. 0 \in P
    BY <1>4
  <2>2. ASSUME NEW n \in 1..N, n - 1 \in P PROVE n \in P
    <3>1. n \in 0..N /\ n - 1 \in 0..N /\ Good(n - 1)
      BY <1>4, <2>2
    <3>2. ASSUME NEW t \in Tables(p), n - 1 >= N - dist(t) PROVE f[n][t] = f[n - 1][t]
      <4>1. f[n][t] = f[n - 1][t] \cup R(f[n - 1], t)
        BY <1>9
      <4>2. CASE n = 1
        <5>1. ~\E e \in EdgesToRoot(p) : e.to = t
          <6> SUFFICES ASSUME NEW e \in EdgesToRoot(p), e.to = t PROVE FALSE
            OBVIOUS
          <6>1. dist(e.from) \in 0..N /\ dist(t) \in 0..N /\ dist(t) < dist(e.from)
            BY <1>3
          <6> QED BY <1>4, <3>2, <4>2, <6>1
        <5>2. R(f[n - 1], t) = {}
          BY <1>5, <5>1
        <5> QED BY <4>1, <5>2
      <4>3. CASE n # 1
        <5>1. n - 1 \in 1..N
          BY <1>4, <4>3
        <5>2. f[n - 1][t] = f[n - 2][t] \cup R(f[n - 2], t)
          <6>1. (n - 1) - 1 = n - 2
            BY <1>4
          <6>2. \A m \in 1..N : f[m][t] = f[m - 1][t] \cup R(f[m - 1], t)
            BY <1>9
          <6>3. f[n - 1][t] = f[(n - 1) - 1][t] \cup R(f[(n - 1) - 1], t)
            BY <5>1, <6>2
          <6> QED BY <6>1, <6>3
        <5>3. ASSUME NEW e \in EdgesToRoot(p), e.to = t PROVE f[n - 1][e.from] = f[n - 2][e.from]
          <6>1. e.from \in Tables(p) /\ dist(e.from) \in 0..N /\ dist(t) \in 0..N /\ dist(t) < dist(e.from)
            BY <1>3, <5>3
          <6>2. (n - 1) - 1 >= N - dist(e.from) /\ (n - 1) - 1 = n - 2 /\ n - 1 # 0
            BY <1>4, <3>2, <4>3, <6>1
          <6> QED BY <3>1, <6>1, <6>2
        <5>4. R(f[n - 1], t) = R(f[n - 2], t)
          <6>1. \A i : i \in R(f[n - 1], t) <=> i \in R(f[n - 2], t)
            <7> TAKE i
            <7>1. \A e \in EdgesToRoot(p), y \in c[t] : e.to = t =>
                    (y[e.tcol] \in JoinValues(c, f[n - 1][e.from], seen, e)
                     <=> y[e.tcol] \in JoinValues(c, f[n - 2][e.from], seen, e))
              BY <5>3
            <7>2. i \in R(f[n - 1], t) <=>
                   \E e \in EdgesToRoot(p), y \in c[t] :
                     e.to = t /\ i = y.id /\ y[e.tcol] \in JoinValues(c, f[n - 1][e.from], seen, e)
              BY <1>5
            <7>3. i \in R(f[n - 2], t) <=>
                   \E e \in EdgesToRoot(p), y \in c[t] :
                     e.to = t /\ i = y.id /\ y[e.tcol] \in JoinValues(c, f[n - 2][e.from], seen, e)
              BY <1>5
            <7> QED BY <7>1, <7>2, <7>3
          <6> QED BY <6>1
        <5> QED BY <4>1, <5>2, <5>4
      <4> QED BY <4>2, <4>3
    <3> QED BY <3>1, <3>2
  <2> HIDE DEF P
  <2>3. 0..N \subseteq P
    BY <1>4, <2>1, <2>2, StepByStep
  <2>4. \A n \in 1..N : n \in 0..N /\ n # 0
    BY <1>4
  <2> QED BY <2>3, <2>4 DEF P
<1>8. ASSUME NEW e \in EdgesToRoot(p), NEW x \in c[e.to], x[e.tcol] \in JoinValues(c, f[N][e.from], seen, e)
      PROVE  x.id \in f[N][e.to]
  <2>1. e.from \in Tables(p) /\ e.to \in Tables(p) /\ dist(e.from) \in 0..N /\ dist(e.to) \in 0..N /\ dist(e.to) < dist(e.from)
    BY <1>3
  <2>2. N \in 1..N /\ N - 1 >= N - dist(e.from)
    BY <1>4, <2>1
  <2>3. f[N][e.from] = f[N - 1][e.from]
    BY <1>7, <2>1, <2>2
  <2>4. x.id \in R(f[N - 1], e.to)
    BY <1>5, <1>8, <2>3
  <2>5. f[N][e.to] = f[N - 1][e.to] \cup R(f[N - 1], e.to)
    BY <1>9, <2>1, <2>2
  <2> QED BY <2>4, <2>5
<1> QED BY <1>1, <1>6, <1>8

-----------------------------------------------------------------------------
(* From d to c, rows whose ids are not marked have not changed, and those   *)
(* with a marked id have been seen.                                         *)
Covered(d, c, p, marked, seen) ==
  \A t \in Tables(p) :
    /\ \A r \in d[t] : IF r.id \in marked[t] THEN r \in seen[t] ELSE r \in c[t]
    /\ \A r \in c[t] : IF r.id \in marked[t] THEN r \in seen[t] ELSE r \in d[t]

LEMMA DirtySettled ==
  ASSUME NEW d, NEW c, NEW p, IsQuery(p), IsDatabase(c, p), NEW marked, NEW seen,
         \A t \in Tables(p) : marked[t] \subseteq Nat, Covered(d, c, p, marked, seen)
  PROVE  ClosedOff(d, c, p, DirtyRows(c, p, marked, seen))
<1> DEFINE D == DirtyRows(c, p, marked, seen)
<1>1. /\ \A t \in Tables(p) : marked[t] \subseteq D[t]
      /\ \A e \in EdgesToRoot(p) : \A x \in c[e.to] :
           x[e.tcol] \in JoinValues(c, D[e.from], seen, e) => x.id \in D[e.to]
  BY DirtyFacts
<1> HIDE DEF D
<1>2. ASSUME NEW t \in Tables(p)
      PROVE  /\ \A r \in d[t] : r.id \notin D[t] => r \in c[t]
             /\ \A r \in c[t] : r.id \notin D[t] => r \in d[t]
  BY <1>1 DEF Covered
<1>3. ASSUME NEW n \in 1..Len(p.joins), NEW x \in d[p.joins[n].left] \cup c[p.joins[n].left],
             NEW r \in d[p.joins[n].table] \cup c[p.joins[n].table],
             x.id \notin D[p.joins[n].left], x[p.joins[n].lcol] # Null, r[p.joins[n].col] = x[p.joins[n].lcol],
             r.id \in D[p.joins[n].table]
      PROVE  FALSE
  <2> DEFINE j == p.joins[n]
             e == BackEdge(j)
  <2>1. e \in EdgesToRoot(p) /\ j.left \in Tables(p) /\ j.table \in Tables(p)
    BY EdgeFacts, JoinTables
  <2>2. e.from = j.table /\ e.fcol = j.col /\ e.to = j.left /\ e.tcol = j.lcol
    BY DEF BackEdge
  <2> HIDE DEF e, j
  <2>3. x \in c[e.to]
    BY <1>2, <1>3, <2>1, <2>2 DEF j
  <2>4. r[e.fcol] \in JoinValues(c, D[e.from], seen, e)
    <3>1. r.id \in D[e.from] /\ r[e.fcol] # Null /\ r \in d[e.from] \cup c[e.from] /\ e.from \in Tables(p)
      BY <1>3, <2>1, <2>2 DEF j
    <3>2. r \in c[e.from] \/ r \in seen[e.from]
      BY <3>1 DEF Covered
    <3> QED BY <3>1, <3>2 DEF JoinValues
  <2>5. x.id \in D[e.to]
    <3>1. x[e.tcol] = r[e.fcol]
      BY <1>3, <2>2 DEF j
    <3> QED BY <1>1, <2>1, <2>3, <2>4, <3>1
  <2> QED BY <1>3, <2>2, <2>5 DEF j
<1> QED BY <1>2, <1>3 DEF ClosedOff, D

-----------------------------------------------------------------------------
(* The order of the rows of an answer.                                      *)
LEMMA BeforeStrict ==
  ASSUME NEW L \in Nat
  PROVE  /\ \A s \in [1..L -> Int] : ~Before(s, s)
         /\ \A s, t, u \in [1..L -> Int] : Before(s, t) /\ Before(t, u) => Before(s, u)
         /\ \A s, t \in [1..L -> Int] : s # t => Before(s, t) \/ Before(t, s)
<1>1. \A s \in [1..L -> Int] : ~Before(s, s)
  BY DEF Before
<1>2. ASSUME NEW s \in [1..L -> Int], NEW t \in [1..L -> Int], NEW u \in [1..L -> Int], Before(s, t), Before(t, u)
      PROVE  Before(s, u)
  <2>1. PICK m \in 1..L : s[m] < t[m] /\ \A k \in 1..(m - 1) : s[k] = t[k]
    BY <1>2 DEF Before
  <2>2. PICK n \in 1..L : t[n] < u[n] /\ \A k \in 1..(n - 1) : t[k] = u[k]
    BY <1>2 DEF Before
  <2>3. \A k \in 1..L : s[k] \in Int /\ t[k] \in Int /\ u[k] \in Int
    OBVIOUS
  <2>4. CASE m <= n
    <3>1. \A k \in 1..(m - 1) : k \in 1..(n - 1)
      BY <2>4
    <3>2. s[m] < u[m]
      <4>1. m = n \/ m \in 1..(n - 1)
        BY <2>4
      <4> QED BY <2>1, <2>2, <2>3, <4>1
    <3>3. \A k \in 1..(m - 1) : s[k] = u[k]
      BY <2>1, <2>2, <3>1
    <3> QED BY <3>2, <3>3 DEF Before
  <2>5. CASE n < m
    <3>1. n \in 1..(m - 1) /\ \A k \in 1..(n - 1) : k \in 1..(m - 1)
      BY <2>5
    <3>2. s[n] < u[n]
      BY <2>1, <2>2, <2>3, <3>1
    <3>3. \A k \in 1..(n - 1) : s[k] = u[k]
      BY <2>1, <2>2, <3>1
    <3> QED BY <3>2, <3>3 DEF Before
  <2> QED BY <2>4, <2>5
<1>3. ASSUME NEW s \in [1..L -> Int], NEW t \in [1..L -> Int], s # t
      PROVE  Before(s, t) \/ Before(t, s)
  <2> DEFINE Differ == {n \in 1..L : s[n] # t[n]}
  <2>1. Differ # {} /\ Differ \subseteq Nat
    BY <1>3
  <2>2. PICK m \in Differ : \A n \in Differ : m <= n
    <3> HIDE DEF Differ
    <3> QED BY <2>1, LeastNatural, Zenon
  <2>3. m \in 1..L /\ s[m] # t[m] /\ s[m] \in Int /\ t[m] \in Int
    OBVIOUS
  <2>4. \A k \in 1..(m - 1) : s[k] = t[k]
    BY <2>2
  <2>5. s[m] < t[m] \/ t[m] < s[m]
    BY <2>3
  <2>6. m \in DOMAIN s /\ m \in DOMAIN t
    BY <2>3
  <2> HIDE DEF Differ
  <2>7. s[m] < t[m] => Before(s, t)
    BY <2>4, <2>6 DEF Before
  <2>8. t[m] < s[m] => Before(t, s)
    BY <2>4, <2>6 DEF Before
  <2> QED BY <2>5, <2>7, <2>8
<1> QED BY <1>1, <1>2, <1>3

LEMMA JoinedAt ==
  ASSUME NEW E, NEW s \in Seq(E), NEW t \in Seq(E)
  PROVE  /\ s \o t \in Seq(E) /\ Len(s \o t) = Len(s) + Len(t)
         /\ \A n \in 1..Len(s) : (s \o t)[n] = s[n]
         /\ \A n \in 1..Len(t) : (s \o t)[Len(s) + n] = t[n]
OBVIOUS

\* Whether the payload comes first.
Lead(p) == IF p.ordered THEN 1 ELSE 0

IdAt(o, t) == IF o[t] = Absent THEN 0 ELSE o[t].id

LEMMA KeyFacts ==
  ASSUME NEW d, NEW p, IsQuery(p), IsDatabase(d, p), NEW A, NEW o, IsOutput(o, d, p, A, Tables(p))
  PROVE  /\ SortKey(p, o) \in [1..(Lead(p) + 1 + Len(p.joins)) -> Int]
         /\ SortKey(p, o)[Lead(p) + 1] = o[p.root].id
         /\ \A n \in 1..Len(p.joins) : SortKey(p, o)[Lead(p) + 1 + n] = IdAt(o, p.joins[n].table)
<1> DEFINE h == Lead(p)
           N == Len(p.joins)
           K1 == IF p.ordered THEN <<o[p.root].v>> ELSE <<>>
           K2 == <<o[p.root].id>>
           K3 == [n \in DOMAIN p.joins |-> LET r == o[p.joins[n].table] IN IF r = Absent THEN 0 ELSE r.id]
<1>1. SortKey(p, o) = K1 \o K2 \o K3
  BY DEF SortKey
<1>2. N \in Nat /\ DOMAIN p.joins = 1..N /\ \A n \in 1..N : p.joins[n].table \in Tables(p)
  BY JoinTables
<1>3. o[p.root].v \in Int /\ o[p.root].id \in Int
  BY DEF IsOutput, Chosen, IsDatabase, Tables
<1>4. K1 \in Seq(Int) /\ Len(K1) = h
  BY <1>3 DEF Lead
<1>5. K2 \in Seq(Int) /\ Len(K2) = 1 /\ K2[1] = o[p.root].id
  BY <1>3
<1>6. ASSUME NEW n \in 1..N PROVE K3[n] \in Int /\ K3[n] = IdAt(o, p.joins[n].table)
  <2>1. p.joins[n].table \in Tables(p) /\ n \in DOMAIN p.joins
    BY <1>2
  <2>2. o[p.joins[n].table] \in d[p.joins[n].table] \cup {Absent}
    BY <2>1 DEF IsOutput
  <2>3. K3[n] = IdAt(o, p.joins[n].table)
    BY <2>1 DEF IdAt
  <2> QED BY <2>1, <2>2, <2>3 DEF IsDatabase, IdAt
<1>7. K3 = [n \in 1..N |-> K3[n]]
  BY <1>2
<1> HIDE DEF K1, K2, K3, N
<1>8. K3 \in Seq(Int) /\ Len(K3) = N
  BY <1>2, <1>6, <1>7
<1> DEFINE K == K1 \o K2
<1>9. h \in Nat /\ K \in Seq(Int) /\ Len(K) = h + 1 /\ K[h + 1] = o[p.root].id
  <2>1. h \in Nat
    BY DEF Lead
  <2>2. 1 \in 1..Len(K2)
    BY <1>5
  <2> HIDE DEF h
  <2> DEFINE J == K1 \o K2
  <2>3. J \in Seq(Int) /\ Len(J) = Len(K1) + Len(K2) /\ \A n \in 1..Len(K2) : J[Len(K1) + n] = K2[n]
    <3>1. \A s, t \in Seq(Int) :
            s \o t \in Seq(Int) /\ Len(s \o t) = Len(s) + Len(t) /\ \A n \in 1..Len(t) : (s \o t)[Len(s) + n] = t[n]
      BY JoinedAt
    <3> QED BY <1>4, <1>5, <3>1, Zenon
  <2> HIDE DEF J
  <2>4. J[Len(K1) + 1] = K2[1]
    BY <2>2, <2>3
  <2>5. K = J
    BY DEF J
  <2> QED BY <1>4, <1>5, <2>1, <2>3, <2>4, <2>5
<1> HIDE DEF K, h
<1>10. /\ K \o K3 \in Seq(Int) /\ Len(K \o K3) = h + 1 + N
       /\ (K \o K3)[h + 1] = K[h + 1]
       /\ \A n \in 1..N : (K \o K3)[h + 1 + n] = K3[n]
  <2>1. /\ K \o K3 \in Seq(Int) /\ Len(K \o K3) = Len(K) + Len(K3)
        /\ \A n \in 1..Len(K) : (K \o K3)[n] = K[n]
        /\ \A n \in 1..Len(K3) : (K \o K3)[Len(K) + n] = K3[n]
    <3>1. \A s, t \in Seq(Int) :
            /\ s \o t \in Seq(Int) /\ Len(s \o t) = Len(s) + Len(t)
            /\ \A n \in 1..Len(s) : (s \o t)[n] = s[n]
            /\ \A n \in 1..Len(t) : (s \o t)[Len(s) + n] = t[n]
      BY JoinedAt
    <3>2. K \in Seq(Int) /\ K3 \in Seq(Int)
      BY <1>8, <1>9
    <3> QED BY <3>1, <3>2, Zenon
  <2>2. h + 1 \in 1..Len(K)
    BY <1>9
  <2> QED BY <1>8, <1>9, <2>1, <2>2
<1>11. SortKey(p, o) = K \o K3
  BY <1>1 DEF K
<1>12. K \o K3 \in [1..(h + 1 + N) -> Int]
  <2> DEFINE s == K \o K3
             M == h + 1 + N
  <2>1. s \in Seq(Int) /\ Len(s) = M
    BY <1>10
  <2> HIDE DEF s, M
  <2>2. s \in [1..M -> Int]
    BY <2>1
  <2> QED BY <2>2 DEF s, M
<1> QED BY <1>6, <1>9, <1>10, <1>11, <1>12 DEF h, N

LEMMA SameKey ==
  ASSUME NEW d, NEW p, IsQuery(p), IsDatabase(d, p), NEW A, NEW o, IsOutput(o, d, p, A, Tables(p)),
         NEW u, IsOutput(u, d, p, A, Tables(p)), SortKey(p, o) = SortKey(p, u)
  PROVE  o = u
<1>1. o[p.root].id = u[p.root].id /\ \A n \in 1..Len(p.joins) : IdAt(o, p.joins[n].table) = IdAt(u, p.joins[n].table)
  BY KeyFacts
<1>2. DOMAIN p.joins = 1..Len(p.joins)
  BY JoinTables
<1>3. ASSUME NEW t \in Tables(p) PROVE o[t] = u[t]
  <2>1. o[t] \in d[t] \cup {Absent} /\ u[t] \in d[t] \cup {Absent}
    BY DEF IsOutput
  <2>2. CASE t = p.root
    <3>1. o[t] \in d[t] /\ u[t] \in d[t]
      BY <2>2 DEF IsOutput, Chosen
    <3> QED BY <1>1, <2>2, <3>1 DEF IsDatabase
  <2>3. CASE t # p.root
    <3>1. IdAt(o, t) = IdAt(u, t)
      BY <1>1, <1>2, <2>3 DEF Tables
    <3> QED BY <2>1, <3>1 DEF IdAt, IsDatabase
  <2> QED BY <2>2, <2>3
<1> QED BY <1>3 DEF IsOutput

SortPairs(p, U) == {x \in U \X U : Before(SortKey(p, x[1]), SortKey(p, x[2]))}

LEMMA SortStrict ==
  ASSUME NEW d, NEW p, IsQuery(p), IsDatabase(d, p), NEW A, NEW U, NEW S \in SUBSET U,
         \A o \in S : IsOutput(o, d, p, A, Tables(p))
  PROVE  Strict(S, SortPairs(p, U))
<1> DEFINE L == Lead(p) + 1 + Len(p.joins)
           R == SortPairs(p, U)
<1>1. L \in Nat
  <2>1. Len(p.joins) \in Nat
    BY JoinTables
  <2>2. Lead(p) \in Nat
    BY DEF Lead
  <2> QED BY <2>1, <2>2
<1>2. \A o \in S : SortKey(p, o) \in [1..L -> Int]
  BY KeyFacts
<1>3. \A x, y \in S : <<x, y>> \in R <=> Before(SortKey(p, x), SortKey(p, y))
  BY DEF SortPairs
<1>4. \A x, y \in S : SortKey(p, x) = SortKey(p, y) => x = y
  BY SameKey
<1> HIDE DEF L, R
<1>5. /\ \A s \in [1..L -> Int] : ~Before(s, s)
      /\ \A s, t, u \in [1..L -> Int] : Before(s, t) /\ Before(t, u) => Before(s, u)
      /\ \A s, t \in [1..L -> Int] : s # t => Before(s, t) \/ Before(t, s)
  BY <1>1, BeforeStrict
<1>6. \A x \in S : <<x, x>> \notin R
  BY <1>2, <1>3, <1>5
<1>7. \A x, y, z \in S : <<x, y>> \in R /\ <<y, z>> \in R => <<x, z>> \in R
  BY <1>2, <1>3, <1>5
<1>8. \A x, y \in S : x # y => <<x, y>> \in R \/ <<y, x>> \in R
  BY <1>2, <1>3, <1>4, <1>5
<1> QED BY <1>6, <1>7, <1>8 DEF Strict, R

LEMMA InOrderIs ==
  ASSUME NEW p, NEW U, NEW S \in SUBSET U
  PROVE  InOrder(p, S) = Arranged(S, SortPairs(p, U))
<1> DEFINE R == SortPairs(p, U)
           Lower(o) == {x \in S : Before(SortKey(p, x), SortKey(p, o))}
<1>1. \A o \in S : Lower(o) = Below(S, R, o)
  BY DEF Below, SortPairs
<1>2. InOrder(p, S) = [n \in 1..Cardinality(S) |-> CHOOSE o \in S : Cardinality(Lower(o)) = n - 1]
  BY DEF InOrder
<1> HIDE DEF Lower, R
<1>3. \A o \in S : Cardinality(Lower(o)) = RankOf(S, R, o)
  BY <1>1 DEF RankOf
<1>4. \A n : (CHOOSE o \in S : Cardinality(Lower(o)) = n - 1) = (CHOOSE o \in S : RankOf(S, R, o) = n - 1)
  BY <1>3
<1> QED BY <1>2, <1>4 DEF Arranged, R

(* Parts of an answer, in order.                                            *)
WholeSet(d, p) == Outputs(d, p, AllRoots(d, p))
NoTwice(s) == \A m, n \in DOMAIN s : s[m] = s[n] => m = n
AreOutputs(S, d, p) == \A o \in S : IsOutput(o, d, p, AllRoots(d, p), Tables(p))

LEMMA InOrderFacts ==
  ASSUME NEW d, NEW p, IsQuery(p), IsDatabase(d, p), NEW U, NEW S \in SUBSET U, IsFiniteSet(S), AreOutputs(S, d, p)
  PROVE  /\ InOrder(p, S) \in Seq(S) /\ Len(InOrder(p, S)) = Cardinality(S) /\ Cardinality(S) \in Nat
         /\ ToSet(InOrder(p, S)) = S
         /\ Ordered(InOrder(p, S), SortPairs(p, U))
         /\ NoTwice(InOrder(p, S))
         /\ \A s \in Seq(S) : Ordered(s, SortPairs(p, U)) /\ ToSet(s) = S => s = InOrder(p, S)
<1> DEFINE R == SortPairs(p, U)
<1>1. Strict(S, R)
  BY SortStrict DEF AreOutputs
<1>2. InOrder(p, S) = Arranged(S, R)
  BY InOrderIs
<1> HIDE DEF R
<1>3. /\ Arranged(S, R) \in Seq(S) /\ Len(Arranged(S, R)) = Cardinality(S)
      /\ Ordered(Arranged(S, R), R) /\ ToSet(Arranged(S, R)) = S
  BY <1>1, ArrangedFacts
<1>4. \A s \in Seq(S) : Ordered(s, R) /\ ToSet(s) = S => s = Arranged(S, R)
  BY <1>1, ArrangedIs
<1>5. \A s \in Seq(S) : Ordered(s, R) => NoTwice(s)
  <2> SUFFICES ASSUME NEW s \in Seq(S), Ordered(s, R), NEW m \in 1..Len(s), NEW n \in 1..Len(s), s[m] = s[n], m < n
               PROVE  FALSE
    BY DEF NoTwice
  <2>1. m \in DOMAIN s /\ n \in DOMAIN s /\ s[m] \in S
    OBVIOUS
  <2>2. <<s[m], s[n]>> \in R
    BY <2>1 DEF Ordered
  <2> QED BY <1>1, <2>1, <2>2 DEF Strict
<1>6. Cardinality(S) \in Nat
  BY FS_CardinalityType
<1> QED BY <1>2, <1>3, <1>4, <1>5, <1>6 DEF R

(* The beginning of what is in order is in order.                           *)
LEMMA CutInOrder ==
  ASSUME NEW d, NEW p, IsQuery(p), IsDatabase(d, p), NEW S, IsFiniteSet(S), AreOutputs(S, d, p), NEW k \in Nat
  PROVE  LET s == Cut(InOrder(p, S), 1, k)
         IN  /\ ToSet(s) \subseteq S /\ s = InOrder(p, ToSet(s)) /\ IsFiniteSet(ToSet(s))
             /\ Len(s) = (IF k < Cardinality(S) THEN k ELSE Cardinality(S)) /\ Len(s) = Cardinality(ToSet(s))
             /\ Cardinality(S) <= k => ToSet(s) = S
<1> DEFINE a == InOrder(p, S)
           s == Cut(a, 1, k)
           T == ToSet(s)
<1>1. /\ a \in Seq(S) /\ Len(a) = Cardinality(S) /\ Cardinality(S) \in Nat /\ ToSet(a) = S
      /\ Ordered(a, SortPairs(p, S))
  BY InOrderFacts
<1> HIDE DEF a
<1>2. /\ s \in Seq(S) /\ Len(s) = (IF k < Len(a) THEN k ELSE Len(a)) /\ T \subseteq S
      /\ Ordered(s, SortPairs(p, S)) /\ (Len(a) <= k => s = a)
  <2>1. /\ Cut(a, 1, k) \in Seq(S) /\ Len(Cut(a, 1, k)) = (IF k < Len(a) THEN k ELSE Len(a))
        /\ ToSet(Cut(a, 1, k)) \subseteq ToSet(a)
        /\ \A R : Ordered(a, R) => Ordered(Cut(a, 1, k), R)
        /\ Len(a) <= k => Cut(a, 1, k) = a
    BY <1>1, CutFacts
  <2> QED BY <1>1, <2>1
<1> HIDE DEF s
<1>3. s \in Seq(T)
  BY <1>2 DEF ToSet
<1>4. IsFiniteSet(T) /\ AreOutputs(T, d, p)
  BY <1>2, FS_Subset DEF AreOutputs
<1> HIDE DEF T
<1>5. s = InOrder(p, T) /\ Len(InOrder(p, T)) = Cardinality(T)
  BY <1>2, <1>3, <1>4, InOrderFacts DEF T
<1>6. Cardinality(S) <= k => T = S
  BY <1>1, <1>2 DEF T
<1> QED BY <1>1, <1>2, <1>4, <1>5, <1>6 DEF s, T, a

LEMMA WholeFacts ==
  ASSUME NEW d, NEW p, IsQuery(p), IsDatabase(d, p)
  PROVE  IsFiniteSet(WholeSet(d, p)) /\ AreOutputs(WholeSet(d, p), d, p) /\ Whole(d, p) = InOrder(p, WholeSet(d, p))
BY OutputFacts DEF WholeSet, AreOutputs, Whole

-----------------------------------------------------------------------------
(* What a flush does not have to look at has not changed.                   *)
LEMMA AffectedSound ==
  ASSUME NEW d, NEW c, NEW p, IsQuery(p), IsDatabase(d, p), IsDatabase(c, p), NEW marked, NEW seen,
         \A t \in Tables(p) : marked[t] \subseteq Nat, Covered(d, c, p, marked, seen)
  PROVE  LET R == AffectedRoots(c, p, marked, seen)
         IN  /\ \A r : r.id \notin R => (r \in d[p.root] <=> r \in c[p.root])
             /\ \A u : u[p.root].id \notin R => (u \in WholeSet(d, p) <=> u \in WholeSet(c, p))
             /\ Outputs(c, p, R) = {u \in WholeSet(c, p) : u[p.root].id \in R}
             /\ marked[p.root] \subseteq R /\ R \subseteq marked[p.root] \cup AllRoots(c, p)
<1> DEFINE D == DirtyRows(c, p, marked, seen)
           R == AffectedRoots(c, p, marked, seen)
<1>1. R = D[p.root] /\ p.root \in Tables(p)
  BY DEF AffectedRoots, Tables
<1>2. ClosedOff(d, c, p, D)
  BY DirtySettled
<1>3. \A t \in Tables(p) : marked[t] \subseteq D[t] /\ D[t] \subseteq marked[t] \cup {r.id : r \in c[t]}
  BY DirtyFacts
<1> HIDE DEF D, R
<1>4. \A r : r.id \notin R => (r \in d[p.root] <=> r \in c[p.root])
  BY <1>1, <1>2 DEF ClosedOff
<1>5. /\ \A u \in WholeSet(d, p) : u[p.root] \in d[p.root] /\ u[p.root].id \in AllRoots(d, p)
      /\ \A u \in WholeSet(c, p) : u[p.root] \in c[p.root] /\ u[p.root].id \in AllRoots(c, p)
  BY WholeFacts DEF AreOutputs, IsOutput, Chosen
<1>6. ASSUME NEW u, u[p.root].id \notin R
      PROVE  u \in WholeSet(d, p) <=> u \in WholeSet(c, p)
  <2>1. CASE u[p.root] \in d[p.root] /\ u[p.root] \in c[p.root]
    <3>1. u[p.root].id \in AllRoots(d, p) \cap AllRoots(c, p)
      BY <2>1 DEF AllRoots
    <3> QED BY <1>1, <1>2, <1>6, <3>1, Transfer DEF WholeSet
  <2>2. CASE ~(u[p.root] \in d[p.root] /\ u[p.root] \in c[p.root])
    BY <1>4, <1>5, <1>6, <2>2
  <2> QED BY <2>1, <2>2
<1>7. Outputs(c, p, R) = {u \in WholeSet(c, p) : u[p.root].id \in R}
  <2>1. \A u \in Outputs(c, p, R) : u[p.root].id \in R /\ u[p.root].id \in AllRoots(c, p)
    BY OutputFacts DEF IsOutput, Chosen, AllRoots
  <2>2. \A u : u[p.root].id \in R \cap AllRoots(c, p) => (u \in Outputs(c, p, R) <=> u \in WholeSet(c, p))
    BY OutputsByRoot DEF WholeSet
  <2> QED BY <1>5, <2>1, <2>2
<1>8. marked[p.root] \subseteq R /\ R \subseteq marked[p.root] \cup AllRoots(c, p)
  BY <1>1, <1>3 DEF AllRoots
<1> QED BY <1>4, <1>6, <1>7, <1>8 DEF R

-----------------------------------------------------------------------------
(* The window.                                                              *)
WindowOf(d, p, w) ==
  /\ w = InOrder(p, ToSet(w)) /\ ToSet(w) \subseteq WholeSet(d, p)
  /\ Len(w) <= CandidateLimit(p)
  /\ Len(w) >= MinShadowWindow(p) \/ ToSet(w) = WholeSet(d, p)

LEMMA Limits ==
  ASSUME NEW p, IsQuery(p)
  PROVE  /\ p.offset \in Nat /\ p.limit \in Nat /\ p.overscan \in Nat
         /\ CandidateLimit(p) \in Nat /\ MinShadowWindow(p) \in Nat
         /\ MinShadowWindow(p) <= CandidateLimit(p) /\ p.offset + p.limit + p.overscan = MinShadowWindow(p)
<1>1. p.offset \in Nat /\ p.limit \in Nat /\ p.overscan \in Nat
  BY DEF IsQuery
<1> QED BY <1>1 DEF CandidateLimit, MinShadowWindow

(* A window of the first candidates.                                        *)
LEMMA CandidatesWindow ==
  ASSUME NEW d, NEW p, IsQuery(p), IsDatabase(d, p)
  PROVE  WindowOf(d, p, Candidates(d, p, AllRoots(d, p)))
<1> DEFINE W == WholeSet(d, p)
           k == CandidateLimit(p)
           s == Cut(InOrder(p, W), 1, k)
<1>1. Candidates(d, p, AllRoots(d, p)) = s
  BY DEF Candidates, WholeSet
<1>2. IsFiniteSet(W) /\ AreOutputs(W, d, p)
  BY WholeFacts
<1>3. k \in Nat /\ MinShadowWindow(p) \in Nat /\ MinShadowWindow(p) <= k
  BY Limits
<1>4. /\ ToSet(s) \subseteq W /\ s = InOrder(p, ToSet(s))
      /\ Len(s) = (IF k < Cardinality(W) THEN k ELSE Cardinality(W))
      /\ Cardinality(W) <= k => ToSet(s) = W
  BY <1>2, <1>3, CutInOrder
<1>5. Cardinality(W) \in Nat
  BY <1>2, FS_CardinalityType
<1> HIDE DEF s, W, k
<1> QED BY <1>1, <1>3, <1>4, <1>5 DEF WindowOf, W, k

(* Merging what is affected into a window that is not drained.              *)
LEMMA MergedWindow ==
  ASSUME NEW d, NEW c, NEW p, IsQuery(p), IsDatabase(d, p), IsDatabase(c, p), NEW marked, NEW seen,
         \A t \in Tables(p) : marked[t] \subseteq Nat, Covered(d, c, p, marked, seen),
         NEW w, WindowOf(d, p, w),
         ~Drained(p, w, Merged(c, p, w, AffectedRoots(c, p, marked, seen)))
  PROVE  WindowOf(c, p, Merged(c, p, w, AffectedRoots(c, p, marked, seen)))
<1> DEFINE R == AffectedRoots(c, p, marked, seen)
           W == WholeSet(c, p)
           V == WholeSet(d, p)
           k == CandidateLimit(p)
           O == Outputs(c, p, R)
           C == ToSet(Cut(InOrder(p, O), 1, k))
           K == {o \in ToSet(w) : o[p.root].id \notin R}
           S == K \cup C
           m == Cut(InOrder(p, S), 1, k)
<1>1. Merged(c, p, w, R) = m
  BY DEF Merged, Candidates
<1>2. IsFiniteSet(W) /\ AreOutputs(W, c, p)
  BY WholeFacts
<1>3. k \in Nat /\ MinShadowWindow(p) \in Nat /\ MinShadowWindow(p) <= k
  BY Limits
<1>4. /\ \A u : u[p.root].id \notin R => (u \in V <=> u \in W)
      /\ O = {u \in W : u[p.root].id \in R}
  BY AffectedSound
<1>5. ToSet(w) \subseteq V /\ (Len(w) >= MinShadowWindow(p) \/ ToSet(w) = V)
  BY DEF WindowOf
<1>6. ~(Len(m) < MinShadowWindow(p) /\ Len(w) >= MinShadowWindow(p))
  BY <1>1 DEF Drained
<1> HIDE DEF R, W, V, k, m
<1>7. IsFiniteSet(O) /\ AreOutputs(O, c, p) /\ O \subseteq W
  <2>1. O \subseteq W
    BY <1>4
  <2> QED BY <1>2, <2>1, FS_Subset DEF AreOutputs
<1> HIDE DEF O
<1>8. /\ C \subseteq O /\ IsFiniteSet(C)
      /\ Cardinality(C) = (IF k < Cardinality(O) THEN k ELSE Cardinality(O))
      /\ Cardinality(O) <= k => C = O
  <2> DEFINE s == Cut(InOrder(p, O), 1, k)
  <2>1. /\ ToSet(s) \subseteq O /\ IsFiniteSet(ToSet(s))
        /\ Len(s) = (IF k < Cardinality(O) THEN k ELSE Cardinality(O)) /\ Len(s) = Cardinality(ToSet(s))
        /\ Cardinality(O) <= k => ToSet(s) = O
    BY <1>3, <1>7, CutInOrder
  <2> HIDE DEF s
  <2>2. C = ToSet(s)
    BY DEF s
  <2> HIDE DEF C
  <2> QED BY <2>1, <2>2
<1> HIDE DEF C
<1>9. S \subseteq W
  BY <1>4, <1>5, <1>7, <1>8
<1>10. IsFiniteSet(S) /\ AreOutputs(S, c, p)
  BY <1>2, <1>9, FS_Subset DEF AreOutputs
<1> HIDE DEF S
<1>11. /\ ToSet(m) \subseteq S /\ m = InOrder(p, ToSet(m))
       /\ Len(m) = (IF k < Cardinality(S) THEN k ELSE Cardinality(S))
       /\ Cardinality(S) <= k => ToSet(m) = S
  BY <1>3, <1>10, CutInOrder DEF m
<1>12. Cardinality(S) \in Nat /\ Cardinality(O) \in Nat /\ Cardinality(C) <= Cardinality(S)
  <2>1. C \subseteq S
    BY DEF S
  <2> QED BY <1>7, <1>10, <2>1, FS_Subset, FS_CardinalityType
<1>13. Len(m) <= k
  BY <1>3, <1>11, <1>12
<1>14. Len(m) >= MinShadowWindow(p) \/ ToSet(m) = W
  <2>1. CASE Len(m) >= MinShadowWindow(p)
    BY <2>1
  <2>2. CASE ~(Len(m) >= MinShadowWindow(p))
    <3>1. Len(m) < MinShadowWindow(p) /\ Len(m) < k
      BY <1>3, <1>11, <1>12, <2>2
    <3>2. ToSet(w) = V
      BY <1>5, <1>6, <3>1
    <3>3. Cardinality(S) <= k /\ Cardinality(S) < k
      BY <1>3, <1>11, <1>12, <3>1
    <3>4. Cardinality(O) <= k
      BY <1>3, <1>8, <1>12, <3>3
    <3>5. S = W
      BY <1>4, <1>8, <1>9, <3>2, <3>4 DEF S
    <3> QED BY <1>11, <3>3, <3>5
  <2> QED BY <2>1, <2>2
<1> QED BY <1>1, <1>9, <1>11, <1>13, <1>14 DEF WindowOf, W, R, k

(* Where the window agrees with the answer as far as it is shown.           *)
StraysOf(w, whole) ==
  LET good == {n \in 0..Len(w) : n <= Len(whole) /\ SubSeq(w, 1, n) = SubSeq(whole, 1, n)}
  IN  Len(w) - (CHOOSE n \in good : \A m \in good : m <= n)

LEMMA StraysFacts ==
  ASSUME NEW E, NEW w \in Seq(E), NEW whole \in Seq(E)
  PROVE  \E n \in 0..Len(w) : /\ n <= Len(whole) /\ StraysOf(w, whole) = Len(w) - n
                              /\ \A m \in 1..n : w[m] = whole[m]
<1> DEFINE good == {n \in 0..Len(w) : n <= Len(whole) /\ SubSeq(w, 1, n) = SubSeq(whole, 1, n)}
           Rest == {Len(w) - n : n \in good}
           best == CHOOSE n \in good : \A m \in good : m <= n
<1>1. Len(w) \in Nat /\ Len(whole) \in Nat
  OBVIOUS
<1>2. 0 \in good
  <2>1. SubSeq(w, 1, 0) = <<>> /\ SubSeq(whole, 1, 0) = <<>>
    OBVIOUS
  <2> QED BY <1>1, <2>1
<1>3. good \subseteq 0..Len(w)
  OBVIOUS
<1>4. \A n \in good : n <= Len(whole) /\ SubSeq(w, 1, n) = SubSeq(whole, 1, n)
  OBVIOUS
<1> HIDE DEF good
<1>5. \E n \in good : \A m \in good : m <= n
  <2>1. Rest \subseteq Nat /\ Rest # {}
    BY <1>1, <1>2, <1>3
  <2>2. PICK k \in Rest : \A l \in Rest : k <= l
    <3> HIDE DEF Rest
    <3> QED BY <2>1, LeastNatural, Zenon
  <2>3. PICK n \in good : k = Len(w) - n
    OBVIOUS
  <2>4. ASSUME NEW m \in good PROVE m <= n
    <3>1. Len(w) - m \in Rest
      OBVIOUS
    <3>2. Len(w) - n <= Len(w) - m
      BY <2>2, <2>3, <3>1
    <3> QED BY <1>1, <1>3, <3>2
  <2> QED BY <2>4
<1>6. best \in good
  BY <1>5
<1>7. StraysOf(w, whole) = Len(w) - best
  BY DEF StraysOf, good
<1> HIDE DEF best
<1>8. ASSUME NEW m \in 1..best PROVE w[m] = whole[m]
  <2>1. SubSeq(w, 1, best)[m] = w[m] /\ SubSeq(whole, 1, best)[m] = whole[m]
    BY <1>1, <1>3, <1>4, <1>6
  <2> QED BY <1>4, <1>6, <2>1
<1> QED BY <1>3, <1>4, <1>6, <1>7, <1>8

LEMMA SameCut ==
  ASSUME NEW E, NEW s \in Seq(E), NEW t \in Seq(E), NEW from \in Nat, NEW to \in Nat, from >= 1, from <= to + 1,
         to <= Len(s), to <= Len(t), \A m \in 1..to : s[m] = t[m]
  PROVE  Cut(s, from, to) = Cut(t, from, to)
<1>1. Cut(s, from, to) = SubSeq(s, from, to) /\ Cut(t, from, to) = SubSeq(t, from, to)
  <2>1. (IF to < Len(s) THEN to ELSE Len(s)) = to /\ (IF to < Len(t) THEN to ELSE Len(t)) = to
    OBVIOUS
  <2> QED BY <2>1 DEF Cut
<1>2. \A n \in 1..(to - from + 1) : from + n - 1 \in 1..to
  OBVIOUS
<1>3. \A u \in Seq(E) : to <= Len(u) =>
        SubSeq(u, from, to) = [n \in 1..(to - from + 1) |-> u[from + n - 1]]
  OBVIOUS
<1>4. \A n \in 1..(to - from + 1) : s[from + n - 1] = t[from + n - 1]
  BY <1>2
<1>5. [n \in 1..(to - from + 1) |-> s[from + n - 1]] = [n \in 1..(to - from + 1) |-> t[from + n - 1]]
  BY <1>4
<1> QED BY <1>1, <1>3, <1>5

(* What is shown of the candidates is the answer.                           *)
LEMMA VisibleCandidates ==
  ASSUME NEW d, NEW p, IsQuery(p), IsDatabase(d, p), p.limit # 0
  PROVE  Visible(p, Candidates(d, p, AllRoots(d, p))) = Answer(d, p)
<1> DEFINE W == WholeSet(d, p)
           a == InOrder(p, W)
           k == CandidateLimit(p)
           s == Cut(a, 1, k)
           to == p.offset + p.limit
<1>1. Candidates(d, p, AllRoots(d, p)) = s /\ Answer(d, p) = Visible(p, a)
  BY WholeFacts DEF Candidates, WholeSet, Answer
<1>2. a \in Seq(W)
  BY WholeFacts, InOrderFacts
<1>3. /\ p.offset \in Nat /\ p.limit \in Nat /\ k \in Nat /\ to <= k
      /\ p.offset + 1 \in Nat /\ to \in Nat /\ p.offset + 1 >= 1 /\ p.offset + 1 <= to + 1
  <2>1. p.offset \in Nat /\ p.limit \in Nat /\ p.overscan \in Nat
    BY Limits
  <2> QED BY <2>1 DEF CandidateLimit
<1> HIDE DEF a, k, W, to
<1>4. /\ s \in Seq(W) /\ Len(s) = (IF k < Len(a) THEN k ELSE Len(a))
      /\ \A n \in 1..Len(s) : s[n] = a[n]
      /\ Len(a) <= k => s = a
  <2>1. /\ Cut(a, 1, k) \in Seq(W) /\ Len(Cut(a, 1, k)) = (IF k < Len(a) THEN k ELSE Len(a))
        /\ \A n \in 1..Len(Cut(a, 1, k)) : Cut(a, 1, k)[n] = a[n]
        /\ Len(a) <= k => Cut(a, 1, k) = a
    BY <1>2, <1>3, CutFacts
  <2> QED BY <2>1
<1> HIDE DEF s
<1>5. Len(a) \in Nat /\ Len(s) \in Nat
  BY <1>2, <1>4
<1>6. CASE Len(a) <= k
  BY <1>1, <1>4, <1>6
<1>7. CASE k < Len(a)
  <2>1. to <= Len(s) /\ to <= Len(a) /\ \A m \in 1..to : s[m] = a[m]
    BY <1>3, <1>4, <1>5, <1>7
  <2>2. Cut(s, p.offset + 1, to) = Cut(a, p.offset + 1, to)
    BY <1>2, <1>3, <1>4, <2>1, SameCut
  <2> QED BY <1>1, <2>2 DEF Visible, to
<1> QED BY <1>3, <1>5, <1>6, <1>7

(* As long as no more rows are strays than the window has to spare, what    *)
(* is shown of it is the answer.                                            *)
LEMMA VisibleWindow ==
  ASSUME NEW d, NEW p, IsQuery(p), IsDatabase(d, p), p.limit # 0, NEW w, WindowOf(d, p, w),
         StraysOf(w, Whole(d, p)) <= p.overscan
  PROVE  Visible(p, w) = Answer(d, p)
<1> DEFINE W == WholeSet(d, p)
           a == Whole(d, p)
           to == p.offset + p.limit
<1>1. a = InOrder(p, W) /\ IsFiniteSet(W) /\ AreOutputs(W, d, p)
  BY WholeFacts
<1>2. a \in Seq(W)
  BY <1>1, InOrderFacts
<1>3. /\ p.offset + 1 \in Nat /\ to \in Nat /\ p.offset + 1 >= 1 /\ p.offset + 1 <= to + 1
      /\ MinShadowWindow(p) = to + p.overscan /\ p.overscan \in Nat
  BY Limits
<1>4. Answer(d, p) = Visible(p, a)
  BY DEF Answer
<1>5. ToSet(w) \subseteq W /\ w = InOrder(p, ToSet(w)) /\ (Len(w) >= MinShadowWindow(p) \/ ToSet(w) = W)
  BY DEF WindowOf
<1>6. w \in Seq(W)
  <2>1. IsFiniteSet(ToSet(w)) /\ AreOutputs(ToSet(w), d, p)
    BY <1>1, <1>5, FS_Subset DEF AreOutputs
  <2>2. InOrder(p, ToSet(w)) \in Seq(ToSet(w))
    BY <2>1, InOrderFacts
  <2> DEFINE V == ToSet(w)
  <2>3. w \in Seq(V) /\ V \subseteq W
    BY <1>5, <2>2
  <2> HIDE DEF V, W
  <2> QED BY <2>3
<1> HIDE DEF a, W, to
<1>7. CASE ToSet(w) = W
  BY <1>1, <1>4, <1>5, <1>7
<1>8. CASE Len(w) >= MinShadowWindow(p)
  <2>1. PICK n \in 0..Len(w) : n <= Len(a) /\ StraysOf(w, a) = Len(w) - n /\ \A m \in 1..n : w[m] = a[m]
    <3>1. \A x, y \in Seq(W) :
            \E n \in 0..Len(x) : n <= Len(y) /\ StraysOf(x, y) = Len(x) - n /\ \A m \in 1..n : x[m] = y[m]
      BY StraysFacts
    <3> QED BY <1>2, <1>6, <3>1, Zenon
  <2>2. Len(w) \in Nat /\ Len(a) \in Nat /\ Len(w) - n <= p.overscan
    BY <1>2, <1>6, <2>1 DEF a
  <2>3. to <= n
    BY <1>3, <1>8, <2>1, <2>2
  <2>4. to <= Len(w) /\ to <= Len(a) /\ \A m \in 1..to : w[m] = a[m]
    BY <1>3, <2>1, <2>2, <2>3
  <2>5. Cut(w, p.offset + 1, to) = Cut(a, p.offset + 1, to)
    BY <1>2, <1>3, <1>6, <2>4, SameCut
  <2> QED BY <1>4, <2>5 DEF Visible, to
<1> QED BY <1>5, <1>7, <1>8

-----------------------------------------------------------------------------
(* Sequences without repetitions.                                           *)
LEMMA SameBags ==
  ASSUME NEW E, NEW s \in Seq(E), NEW t \in Seq(E), NoTwice(s), NoTwice(t), ToSet(s) = ToSet(t)
  PROVE  ToBag(s) = ToBag(t)
<1>1. \A u \in Seq(E) : Range(u) = ToSet(u)
  BY DEF Range, ToSet
<1>2. ASSUME NEW u \in Seq(E), NoTwice(u), NEW x \in ToSet(u)
      PROVE  Cardinality({i \in DOMAIN u : u[i] = x}) = 1
  <2>1. PICK i \in DOMAIN u : u[i] = x
    BY DEF ToSet
  <2>2. {k \in DOMAIN u : u[k] = x} = {i}
    BY <1>2, <2>1 DEF NoTwice
  <2> QED BY <2>2, FS_Singleton
<1>3. \A u \in Seq(E) : ToBag(u) = [x \in ToSet(u) |-> Cardinality({i \in DOMAIN u : u[i] = x})]
  BY <1>1 DEF ToBag
<1>4. \A x \in ToSet(s) : Cardinality({i \in DOMAIN s : s[i] = x}) = Cardinality({i \in DOMAIN t : t[i] = x})
  BY <1>2
<1> QED BY <1>3, <1>4

LEMMA JoinedNoTwice ==
  ASSUME NEW E, NEW s \in Seq(E), NEW t \in Seq(E), NoTwice(s), NoTwice(t), ToSet(s) \cap ToSet(t) = {}
  PROVE  NoTwice(s \o t)
<1> DEFINE u == s \o t
           M == Len(s)
           N == Len(t)
<1>1. /\ M \in Nat /\ N \in Nat /\ DOMAIN s = 1..M /\ DOMAIN t = 1..N /\ DOMAIN u = 1..(M + N)
      /\ \A n \in 1..M : u[n] = s[n]
      /\ \A n \in 1..N : u[M + n] = t[n]
  OBVIOUS
<1> HIDE DEF u, M, N
<1>2. \A n \in 1..(M + N) : n \in 1..M \/ \E k \in 1..N : n = M + k
  <2> TAKE n \in 1..(M + N)
  <2>1. n \in 1..M \/ (n - M \in 1..N /\ n = M + (n - M))
    BY <1>1
  <2> QED BY <2>1
<1>3. \A m \in 1..M, n \in 1..N : s[m] # t[n]
  <2> TAKE m \in 1..M, n \in 1..N
  <2>1. s[m] \in ToSet(s) /\ t[n] \in ToSet(t)
    BY <1>1 DEF ToSet
  <2> QED BY <2>1
<1>4. ASSUME NEW m \in 1..(M + N), NEW n \in 1..(M + N), u[m] = u[n] PROVE m = n
  <2>1. CASE m \in 1..M /\ n \in 1..M
    BY <1>1, <1>4, <2>1 DEF NoTwice
  <2>2. CASE m \in 1..M /\ \E k \in 1..N : n = M + k
    BY <1>1, <1>3, <1>4, <2>2
  <2>3. CASE n \in 1..M /\ \E k \in 1..N : m = M + k
    BY <1>1, <1>3, <1>4, <2>3
  <2>4. CASE (\E k \in 1..N : m = M + k) /\ \E k \in 1..N : n = M + k
    <3>1. PICK i \in 1..N : m = M + i
      BY <2>4
    <3>2. PICK k \in 1..N : n = M + k
      BY <2>4
    <3>3. t[i] = t[k]
      BY <1>1, <1>4, <3>1, <3>2
    <3>4. i = k
      BY <1>1, <3>3 DEF NoTwice
    <3> QED BY <3>1, <3>2, <3>4
  <2> QED BY <1>2, <2>1, <2>2, <2>3, <2>4
<1> QED BY <1>1, <1>4 DEF NoTwice, u

-----------------------------------------------------------------------------
(* The groups.                                                              *)
KeyGroup(p, S, k) == {o \in S : RootKey(p, o) = k}
KeysIn(p, S) == {RootKey(p, o) : o \in S}

LEMMA GroupedIs ==
  ASSUME NEW d, NEW p, IsQuery(p), IsDatabase(d, p), NEW S, IsFiniteSet(S), AreOutputs(S, d, p)
  PROVE  Grouped(p, InOrder(p, S)) = [k \in KeysIn(p, S) |-> InOrder(p, KeyGroup(p, S, k))]
<1> DEFINE a == InOrder(p, S)
           R == SortPairs(p, S)
           G(k) == KeyGroup(p, S, k)
<1>1. a \in Seq(S) /\ ToSet(a) = S /\ Ordered(a, R)
  BY InOrderFacts
<1>2. Grouped(p, a) = [k \in KeysIn(p, S) |-> Picked(a, G(k))]
  BY <1>1 DEF Grouped, KeysIn, KeyGroup
<1> HIDE DEF a, R
<1>3. ASSUME NEW k PROVE Picked(a, G(k)) = InOrder(p, G(k))
  <2> DEFINE T == G(k)
             s == Picked(a, T)
  <2>1. T \subseteq S /\ T = {o \in S : RootKey(p, o) = k}
    BY DEF KeyGroup
  <2> HIDE DEF T
  <2>2. s \in Seq(S) /\ ToSet(s) = T /\ Ordered(s, R)
    BY <1>1, <2>1, PickedFacts
  <2> HIDE DEF s
  <2>3. s \in Seq(T)
    BY <2>2 DEF ToSet
  <2>4. IsFiniteSet(T) /\ AreOutputs(T, d, p)
    BY <2>1, FS_Subset DEF AreOutputs
  <2>5. s = InOrder(p, T)
    BY <2>1, <2>2, <2>3, <2>4, InOrderFacts DEF R
  <2> QED BY <2>5 DEF s, T
<1> QED BY <1>2, <1>3 DEF a


(* Ungrouped appends one group after the other.                             *)
UngroupedRun(f, rt, E) ==
  /\ f \in [0..Len(rt.order) -> Seq(E)] /\ f[0] = <<>>
  /\ \A n \in 1..Len(rt.order) : f[n] = f[n - 1] \o rt.groups[rt.order[n]]

LEMMA UngroupedRunExists ==
  ASSUME NEW E, NEW rt, rt.order \in Seq(DOMAIN rt.groups), \A k \in DOMAIN rt.groups : rt.groups[k] \in Seq(E)
  PROVE  \E f : UngroupedRun(f, rt, E) /\ Ungrouped(rt) = f[Len(rt.order)]
<1> DEFINE N == Len(rt.order)
           S == Seq(E)
           One(x, n) == x \o rt.groups[rt.order[n]]
           G == [n \in 1..N |-> [x \in S |-> One(x, n)]]
           Step(f, n) == IF n = 0 THEN <<>> ELSE f[n - 1] \o rt.groups[rt.order[n]]
           Is(f) == f = [n \in 0..N |-> Step(f, n)]
           Fun == CHOOSE f : Is(f)
<1>0. \A n \in 1..N, x \in S : rt.order[n] \in DOMAIN rt.groups /\ x \o rt.groups[rt.order[n]] \in S
  OBVIOUS
<1>1. N \in Nat /\ <<>> \in S
  OBVIOUS
<1>2. \A n \in 1..N, x \in S : One(x, n) \in S
  BY <1>0
<1>3. Steps(G, S, N)
  BY <1>2 DEF Steps
<1>4. \A n \in 1..N, x \in S : G[n][x] = One(x, n)
  OBVIOUS
<1>5. Ungrouped(rt) = Fun[Len(rt.order)]
  BY DEF Ungrouped
<1>6. \A f : \A n \in 1..N : n \in 0..N /\ n - 1 \in 0..N /\ Step(f, n) = One(f[n - 1], n)
  <2>1. \A n \in 1..N : n \in 0..N /\ n - 1 \in 0..N /\ n # 0
    BY <1>1
  <2> QED BY <2>1, Zenon
<1>7. \A f : 0 \in 0..N /\ Step(f, 0) = <<>>
  BY <1>1
<1>8. \A n \in 0..N : n = 0 \/ n \in 1..N
  BY <1>1
<1>9. \A f : \A n \in 1..N : One(f[n - 1], n) = f[n - 1] \o rt.groups[rt.order[n]]
  OBVIOUS
<1> HIDE DEF G, N, S, One, Step
<1>10. PICK g : Iterates(g, G, S, N, <<>>)
  BY <1>1, <1>3, IterationExists
<1>11. Is(g)
  <2>1. ASSUME NEW n \in 0..N PROVE g[n] = Step(g, n)
    <3>1. CASE n = 0
      BY <1>7, <1>10, <3>1 DEF Iterates
    <3>2. CASE n \in 1..N
      <4>1. g[n - 1] \in S /\ g[n] = G[n][g[n - 1]]
        BY <1>6, <1>10, <3>2 DEF Iterates
      <4> QED BY <1>4, <1>6, <3>2, <4>1
    <3> QED BY <1>8, <3>1, <3>2
  <2> QED BY <1>10, <2>1 DEF Iterates
<1>12. Is(Fun)
  BY <1>11, Zenon
<1> HIDE DEF Fun
<1>13. Fun = [n \in 0..N |-> Fun[n]] /\ Fun[0] = <<>>
  BY <1>7, <1>12
<1>14. ASSUME NEW n \in 1..N, Fun[n - 1] \in S PROVE Fun[n] = G[n][Fun[n - 1]]
  <2>1. Fun[n] = One(Fun[n - 1], n)
    BY <1>6, <1>12
  <2> QED BY <1>4, <1>14, <2>1
<1>15. Iterates(Fun, G, S, N, <<>>)
  BY <1>1, <1>3, <1>13, <1>14, IterationIs
<1>16. Fun \in [0..N -> S] /\ \A n \in 1..N : Fun[n] = One(Fun[n - 1], n)
  BY <1>4, <1>6, <1>15 DEF Iterates
<1>17. /\ Ungrouped(rt) = Fun[Len(rt.order)]
       /\ Fun \in [0..Len(rt.order) -> Seq(E)]
       /\ \A n \in 1..Len(rt.order) :
            Fun[n] = Fun[n - 1] \o rt.groups[rt.order[n]]
  BY <1>5, <1>9, <1>16 DEF N, S
<1>18. UngroupedRun(Fun, rt, E)
  BY <1>13, <1>17, Zenon DEF UngroupedRun
<1> QED BY <1>17, <1>18


LEMMA UngroupedFacts ==
  ASSUME NEW E, NEW rt, rt.order \in Seq(DOMAIN rt.groups), \A k \in DOMAIN rt.groups : rt.groups[k] \in Seq(E),
         NoTwice(rt.order), \A k \in DOMAIN rt.groups : NoTwice(rt.groups[k]),
         \A k, l \in DOMAIN rt.groups : k # l => ToSet(rt.groups[k]) \cap ToSet(rt.groups[l]) = {}
  PROVE  /\ Ungrouped(rt) \in Seq(E) /\ NoTwice(Ungrouped(rt))
         /\ \A x : x \in ToSet(Ungrouped(rt)) <=> \E k \in ToSet(rt.order) : x \in ToSet(rt.groups[k])
<1> DEFINE N == Len(rt.order)
           g(n) == rt.groups[rt.order[n]]
<1>1. PICK f : UngroupedRun(f, rt, E) /\ Ungrouped(rt) = f[N]
  BY UngroupedRunExists
<1>2. f \in [0..N -> Seq(E)] /\ f[0] = <<>> /\ \A n \in 1..N : f[n] = f[n - 1] \o g(n)
  BY <1>1 DEF UngroupedRun
<1>3. /\ N \in Nat /\ DOMAIN rt.order = 1..N
      /\ \A n \in 1..N : rt.order[n] \in DOMAIN rt.groups /\ g(n) \in Seq(E) /\ NoTwice(g(n))
  OBVIOUS
<1>4. \A m, n \in 1..N : m # n => ToSet(g(m)) \cap ToSet(g(n)) = {}
  BY <1>3 DEF NoTwice
<1>5. \A x : (\E n \in 1..N : x \in ToSet(g(n))) <=> \E k \in ToSet(rt.order) : x \in ToSet(rt.groups[k])
  BY <1>3 DEF ToSet
<1> HIDE DEF N, g
<1> DEFINE Good(n) == NoTwice(f[n]) /\ \A x : x \in ToSet(f[n]) <=> \E i \in 1..n : x \in ToSet(g(i))
           P == {n \in 0..N : Good(n)}
<1>6. 0 \in P
  <2>1. NoTwice(<<>>) /\ ToSet(<<>>) = {} /\ 1..0 = {}
    BY DEF NoTwice, ToSet
  <2>2. 0 \in 0..N
    BY <1>3
  <2> QED BY <1>2, <2>1, <2>2
<1>7. ASSUME NEW n \in 1..N, n - 1 \in P PROVE n \in P
  <2>1. n \in 0..N /\ n - 1 \in 0..N /\ 1..n = 1..(n - 1) \cup {n} /\ \A i \in 1..(n - 1) : i \in 1..N /\ i # n
    BY <1>3
  <2>2. NoTwice(f[n - 1]) /\ \A x : x \in ToSet(f[n - 1]) <=> \E i \in 1..(n - 1) : x \in ToSet(g(i))
    BY <1>7
  <2>3. f[n] = f[n - 1] \o g(n) /\ f[n - 1] \in Seq(E) /\ g(n) \in Seq(E) /\ NoTwice(g(n))
    BY <1>2, <1>3, <2>1
  <2>4. ToSet(f[n - 1]) \cap ToSet(g(n)) = {}
    BY <1>4, <2>1, <2>2
  <2> DEFINE s == f[n - 1]
             t == g(n)
  <2>5. s \in Seq(E) /\ t \in Seq(E) /\ f[n] = s \o t /\ NoTwice(s) /\ NoTwice(t) /\ ToSet(s) \cap ToSet(t) = {}
    BY <2>2, <2>3, <2>4
  <2> HIDE DEF s, t
  <2>6. NoTwice(f[n]) /\ ToSet(f[n]) = ToSet(s) \cup ToSet(t)
    BY <2>5, JoinedNoTwice, JoinedFacts
  <2>7. ToSet(f[n]) = ToSet(f[n - 1]) \cup ToSet(g(n))
    BY <2>6 DEF s, t
  <2>8. \A x : x \in ToSet(f[n]) <=> \E i \in 1..n : x \in ToSet(g(i))
    BY <2>1, <2>2, <2>7
  <2> QED BY <2>1, <2>6, <2>8
<1> HIDE DEF P
<1>8. 0..N \subseteq P
  BY <1>3, <1>6, <1>7, StepByStep
<1>9. Good(N) /\ f[N] \in Seq(E)
  <2>1. N \in P /\ f[N] \in Seq(E)
    BY <1>2, <1>3, <1>8
  <2> QED BY <2>1, Zenon DEF P
<1> QED BY <1>1, <1>5, <1>9

-----------------------------------------------------------------------------
(* Ordinals number the keys that have been met.                             *)
IsOrdinal(f) ==
  /\ f = [k \in DOMAIN f |-> f[k]] /\ IsFiniteSet(DOMAIN f)
  /\ \A k \in DOMAIN f : f[k] \in 0..(Cardinality(DOMAIN f) - 1)
  /\ \A k, l \in DOMAIN f : f[k] = f[l] => k = l

LEMMA NextOrdinal ==
  ASSUME NEW f, IsOrdinal(f), NEW k, k \notin DOMAIN f
  PROVE  IsOrdinal(With(f, k, Cardinality(DOMAIN f))) /\ DOMAIN With(f, k, Cardinality(DOMAIN f)) = DOMAIN f \cup {k}
<1> DEFINE D == DOMAIN f
           m == Cardinality(D)
           g == With(f, k, m)
<1>1. IsFiniteSet(D) /\ \A x \in D : f[x] \in 0..(m - 1)
  BY DEF IsOrdinal
<1>2. m \in Nat /\ IsFiniteSet(D \cup {k}) /\ Cardinality(D \cup {k}) = m + 1
  BY <1>1, FS_CardinalityType, FS_AddElement
<1>3. g = [x \in D \cup {k} |-> IF x = k THEN m ELSE f[x]]
  BY DEF With
<1> HIDE DEF m, g
<1>4. DOMAIN g = D \cup {k} /\ g[k] = m /\ \A x \in D : g[x] = f[x]
  BY <1>3
<1>5. \A x \in D \cup {k} : g[x] \in 0..m
  BY <1>1, <1>2, <1>4
<1>6. \A x, y \in D \cup {k} : g[x] = g[y] => x = y
  <2>1. \A x \in D : f[x] # m
    BY <1>1, <1>2
  <2> QED BY <1>4, <2>1 DEF IsOrdinal
<1>7. g = [x \in DOMAIN g |-> g[x]]
  BY <1>3, <1>4
<1>8. Cardinality(D \cup {k}) - 1 = m
  BY <1>2
<1> QED BY <1>2, <1>4, <1>5, <1>6, <1>7, <1>8 DEF IsOrdinal, g, m

Ordinals(X) == {g \in UNION {[D -> Nat] : D \in SUBSET X} : IsOrdinal(g)}

LEMMA OrdinalsFacts ==
  ASSUME NEW X
  PROVE  /\ \A g \in Ordinals(X) : IsOrdinal(g) /\ DOMAIN g \subseteq X
         /\ \A g : IsOrdinal(g) /\ DOMAIN g \subseteq X => g \in Ordinals(X)
<1>1. \A g \in Ordinals(X) : IsOrdinal(g) /\ DOMAIN g \subseteq X
  BY DEF Ordinals
<1>2. ASSUME NEW g, IsOrdinal(g), DOMAIN g \subseteq X PROVE g \in Ordinals(X)
  <2>1. Cardinality(DOMAIN g) \in Nat
    BY <1>2, FS_CardinalityType DEF IsOrdinal
  <2>2. \A k \in DOMAIN g : g[k] \in Nat
    BY <1>2, <2>1 DEF IsOrdinal
  <2>3. g \in [DOMAIN g -> Nat]
    BY <1>2, <2>2 DEF IsOrdinal
  <2> QED BY <1>2, <2>3 DEF Ordinals
<1> QED BY <1>1, <1>2

LEMMA OrdinalStep ==
  ASSUME NEW X, NEW g \in Ordinals(X), NEW k \in X
  PROVE  (IF k \in DOMAIN g THEN g ELSE With(g, k, Cardinality(DOMAIN g))) \in Ordinals(X)
<1>1. CASE k \notin DOMAIN g
  <2>1. IsOrdinal(g) /\ DOMAIN g \subseteq X
    BY OrdinalsFacts
  <2> DEFINE h == With(g, k, Cardinality(DOMAIN g))
  <2>2. IsOrdinal(h) /\ DOMAIN h = DOMAIN g \cup {k}
    BY <1>1, <2>1, NextOrdinal
  <2> HIDE DEF h
  <2>3. h \in Ordinals(X)
    BY <2>1, <2>2, OrdinalsFacts
  <2> QED BY <1>1, <2>3 DEF h
<1> QED BY <1>1

(* The keys of root rows, by their ids.                                     *)
RowsWithId(d, p, A) == {r \in d[p.root] : r.id \in A}

LEMMA KeysByIdFacts ==
  ASSUME NEW d, NEW p, IsDatabase(d, p), NEW A
  PROVE  /\ KeysById(d, p, A) \in Seq({r.key : r \in RowsWithId(d, p, A)})
         /\ ToSet(KeysById(d, p, A)) = {r.key : r \in RowsWithId(d, p, A)}
<1> DEFINE S == RowsWithId(d, p, A)
           R == {x \in S \X S : x[1].id < x[2].id}
           m == Cardinality(S)
           at(n) == CHOOSE r \in S : Cardinality({s \in S : s.id < r.id}) = n - 1
           a == Arranged(S, R)
           Y == {r.key : r \in S}
           keys == KeysById(d, p, A)
<1>1. IsFiniteSet(S) /\ \A r \in S : r.id \in Nat
  <2>1. S \subseteq d[p.root] /\ p.root \in Tables(p)
    BY DEF RowsWithId, Tables
  <2> QED BY <2>1, FS_Subset DEF IsDatabase
<1>2. \A r, s \in S : r.id = s.id => r = s
  BY DEF RowsWithId, IsDatabase, Tables
<1>3. keys = [n \in 1..m |-> at(n).key]
  BY DEF KeysById, RowsWithId
<1> HIDE DEF S
<1>4. Strict(S, R)
  <2>1. \A x, y \in S : <<x, y>> \in R <=> x.id < y.id
    OBVIOUS
  <2> HIDE DEF R
  <2> QED BY <1>1, <1>2, <2>1 DEF Strict
<1>5. \A n \in 1..m : a[n] = at(n)
  <2>1. \A r \in S : {s \in S : s.id < r.id} = Below(S, R, r)
    BY DEF Below
  <2> HIDE DEF R
  <2>2. \A r \in S : Cardinality({s \in S : s.id < r.id}) = RankOf(S, R, r)
    BY <2>1 DEF RankOf
  <2>3. \A n : at(n) = (CHOOSE r \in S : RankOf(S, R, r) = n - 1)
    BY <2>2
  <2> HIDE DEF at
  <2> QED BY <2>3 DEF Arranged
<1> HIDE DEF R, at
<1>6. a \in Seq(S) /\ Len(a) = m /\ ToSet(a) = S /\ m \in Nat
  BY <1>1, <1>4, ArrangedFacts, FS_CardinalityType
<1> HIDE DEF a, m, keys
<1>7. \A n \in 1..m : a[n] \in S /\ keys[n] = a[n].key
  BY <1>3, <1>5, <1>6
<1>8. keys = [n \in 1..m |-> keys[n]] /\ DOMAIN keys = 1..m
  BY <1>3
<1>9. \A n \in 1..m : keys[n] \in Y
  BY <1>7
<1>10. \A r \in S : \E n \in 1..m : a[n] = r
  BY <1>6 DEF ToSet
<1> HIDE DEF Y
<1>11. keys \in Seq(Y)
  BY <1>6, <1>8, <1>9
<1>12. ToSet(keys) = Y
  <2>1. ToSet(keys) \subseteq Y
    BY <1>8, <1>9 DEF ToSet
  <2>2. \A r \in S : r.key \in ToSet(keys)
    BY <1>7, <1>8, <1>10 DEF ToSet
  <2> QED BY <2>1, <2>2 DEF Y
<1> QED BY <1>11, <1>12 DEF Y, keys, S


(* Keys that have no ordinal get the next.                                  *)
OrdinalRun(f, d, p, o, A, X) ==
  /\ f \in [0..Len(KeysById(d, p, A)) -> Ordinals(X)] /\ f[0] = o
  /\ \A n \in 1..Len(KeysById(d, p, A)) : f[n] = (IF KeysById(d, p, A)[n] \in DOMAIN f[n - 1]
                                                  THEN f[n - 1]
                                                  ELSE With(f[n - 1], KeysById(d, p, A)[n], Cardinality(DOMAIN f[n - 1])))

LEMMA OrdinalRunExists ==
  ASSUME NEW d, NEW p, NEW o, NEW A, NEW X, o \in Ordinals(X), KeysById(d, p, A) \in Seq(X)
  PROVE  \E f : OrdinalRun(f, d, p, o, A, X) /\ WithOrdinals(d, p, o, A) = f[Len(KeysById(d, p, A))]
<1> DEFINE N == Len(KeysById(d, p, A))
           S == Ordinals(X)
           One(x, n) == (IF KeysById(d, p, A)[n] \in DOMAIN x
                         THEN x ELSE With(x, KeysById(d, p, A)[n], Cardinality(DOMAIN x)))
           G == [n \in 1..N |-> [x \in S |-> One(x, n)]]
           Step(f, n) == IF n = 0 THEN o
                         ELSE (IF KeysById(d, p, A)[n] \in DOMAIN f[n - 1]
                               THEN f[n - 1]
                               ELSE With(f[n - 1], KeysById(d, p, A)[n], Cardinality(DOMAIN f[n - 1])))
           Is(f) == f = [n \in 0..N |-> Step(f, n)]
           Fun == CHOOSE f : Is(f)
<1>1. N \in Nat /\ o \in S
  OBVIOUS
<1>2. \A n \in 1..N, x \in S : One(x, n) \in S
  <2>1. \A n \in 1..N : KeysById(d, p, A)[n] \in X
    OBVIOUS
  <2>2. \A n \in 1..N, x \in Ordinals(X) : One(x, n) \in Ordinals(X)
    <3> HIDE DEF N
    <3> QED BY <2>1, OrdinalStep
  <2> QED BY <2>2
<1>3. Steps(G, S, N)
  BY <1>2 DEF Steps
<1>4. \A n \in 1..N, x \in S : G[n][x] = One(x, n)
  OBVIOUS
<1>5. WithOrdinals(d, p, o, A) = Fun[Len(KeysById(d, p, A))]
  BY DEF WithOrdinals
<1>6. \A f : \A n \in 1..N : n \in 0..N /\ n - 1 \in 0..N /\ Step(f, n) = One(f[n - 1], n)
  BY <1>1
<1>7. \A f : 0 \in 0..N /\ Step(f, 0) = o
  BY <1>1
<1>8. \A n \in 0..N : n = 0 \/ n \in 1..N
  BY <1>1
<1>9. \A f : \A n \in 1..N : One(f[n - 1], n) = (IF KeysById(d, p, A)[n] \in DOMAIN f[n - 1]
                                                 THEN f[n - 1]
                                                 ELSE With(f[n - 1], KeysById(d, p, A)[n], Cardinality(DOMAIN f[n - 1])))
  OBVIOUS
<1> HIDE DEF G, N, S, One, Step
<1>10. PICK g : Iterates(g, G, S, N, o)
  BY <1>1, <1>3, IterationExists
<1>11. Is(g)
  <2>1. ASSUME NEW n \in 0..N PROVE g[n] = Step(g, n)
    <3>1. CASE n = 0
      BY <1>7, <1>10, <3>1 DEF Iterates
    <3>2. CASE n \in 1..N
      <4>1. g[n - 1] \in S /\ g[n] = G[n][g[n - 1]]
        BY <1>6, <1>10, <3>2 DEF Iterates
      <4> QED BY <1>4, <1>6, <3>2, <4>1
    <3> QED BY <1>8, <3>1, <3>2
  <2> QED BY <1>10, <2>1 DEF Iterates
<1>12. Is(Fun)
  BY <1>11, Zenon
<1> HIDE DEF Fun
<1>13. Fun = [n \in 0..N |-> Fun[n]] /\ Fun[0] = o
  BY <1>7, <1>12
<1>14. ASSUME NEW n \in 1..N, Fun[n - 1] \in S PROVE Fun[n] = G[n][Fun[n - 1]]
  <2>1. Fun[n] = One(Fun[n - 1], n)
    BY <1>6, <1>12
  <2> QED BY <1>4, <1>14, <2>1
<1>15. Iterates(Fun, G, S, N, o)
  BY <1>1, <1>3, <1>13, <1>14, IterationIs
<1>16. Fun \in [0..N -> S] /\ \A n \in 1..N : Fun[n] = One(Fun[n - 1], n)
  BY <1>4, <1>6, <1>15 DEF Iterates
<1>17. /\ WithOrdinals(d, p, o, A) = Fun[Len(KeysById(d, p, A))]
       /\ Fun \in [0..Len(KeysById(d, p, A)) -> Ordinals(X)]
       /\ \A n \in 1..Len(KeysById(d, p, A)) :
            Fun[n] = (IF KeysById(d, p, A)[n] \in DOMAIN Fun[n - 1]
                      THEN Fun[n - 1]
                      ELSE With(Fun[n - 1], KeysById(d, p, A)[n], Cardinality(DOMAIN Fun[n - 1])))
  BY <1>5, <1>9, <1>16 DEF N, S
<1>18. OrdinalRun(Fun, d, p, o, A, X)
  BY <1>13, <1>17, Zenon DEF OrdinalRun
<1> QED BY <1>17, <1>18


LEMMA WithOrdinalsFacts ==
  ASSUME NEW d, NEW p, IsDatabase(d, p), NEW o, IsOrdinal(o), NEW A
  PROVE  /\ IsOrdinal(WithOrdinals(d, p, o, A))
         /\ DOMAIN WithOrdinals(d, p, o, A) = DOMAIN o \cup {r.key : r \in RowsWithId(d, p, A)}
<1> DEFINE Y == {r.key : r \in RowsWithId(d, p, A)}
           X == DOMAIN o \cup Y
           key == KeysById(d, p, A)
           N == Len(key)
<1>1. key \in Seq(Y) /\ ToSet(key) = Y
  BY KeysByIdFacts
<1>2. o \in Ordinals(X)
  BY OrdinalsFacts
<1> HIDE DEF Y
<1>3. key \in Seq(X)
  BY <1>1
<1>4. PICK f : OrdinalRun(f, d, p, o, A, X) /\ WithOrdinals(d, p, o, A) = f[N]
  BY <1>2, <1>3, OrdinalRunExists
<1>5. /\ f \in [0..N -> Ordinals(X)] /\ f[0] = o
      /\ \A n \in 1..N : f[n] = IF key[n] \in DOMAIN f[n - 1] THEN f[n - 1]
                                ELSE With(f[n - 1], key[n], Cardinality(DOMAIN f[n - 1]))
  BY <1>4 DEF OrdinalRun
<1>6. N \in Nat /\ DOMAIN key = 1..N
  BY <1>1
<1>7. \A g \in Ordinals(X) : IsOrdinal(g) /\ DOMAIN g \subseteq X
  BY OrdinalsFacts
<1> HIDE DEF key, N, X
<1> DEFINE P == {n \in 0..N : DOMAIN f[n] = DOMAIN o \cup {key[i] : i \in 1..n}}
<1>8. 0 \in P
  <2>1. 1..0 = {} /\ 0 \in 0..N
    BY <1>6
  <2> QED BY <1>5, <2>1
<1>9. ASSUME NEW n \in 1..N, n - 1 \in P PROVE n \in P
  <2> DEFINE g == f[n - 1]
             First(k) == {key[i] : i \in 1..k}
  <2>1. n \in 0..N /\ n - 1 \in 0..N /\ 1..n = 1..(n - 1) \cup {n}
    BY <1>6
  <2>2. First(n) = First(n - 1) \cup {key[n]}
    BY <2>1
  <2>3. DOMAIN g = DOMAIN o \cup First(n - 1)
    BY <1>9
  <2>4. IsOrdinal(g)
    BY <1>5, <1>7, <2>1
  <2>5. f[n] = IF key[n] \in DOMAIN g THEN g ELSE With(g, key[n], Cardinality(DOMAIN g))
    BY <1>5
  <2> HIDE DEF First, g
  <2>6. DOMAIN f[n] = DOMAIN g \cup {key[n]}
    BY <2>4, <2>5, NextOrdinal
  <2>7. DOMAIN f[n] = DOMAIN o \cup First(n)
    BY <2>2, <2>3, <2>6
  <2> QED BY <2>1, <2>7 DEF First
<1> HIDE DEF P
<1>10. 0..N \subseteq P
  BY <1>6, <1>8, <1>9, StepByStep
<1>11. DOMAIN f[N] = DOMAIN o \cup {key[i] : i \in 1..N}
  <2>1. N \in P
    BY <1>6, <1>10
  <2> QED BY <2>1, Zenon DEF P
<1>12. {key[i] : i \in 1..N} = Y
  BY <1>1, <1>6 DEF ToSet
<1>13. IsOrdinal(f[N])
  BY <1>5, <1>6, <1>7
<1> QED BY <1>4, <1>11, <1>12, <1>13 DEF Y

-----------------------------------------------------------------------------
(* The order of the groups.                                                 *)
LEMMA AppendedNoTwice ==
  ASSUME NEW E, NEW s \in Seq(E), NEW e \in E, NoTwice(s), e \notin ToSet(s)
  PROVE  NoTwice(Append(s, e))
<1> DEFINE u == Append(s, e)
           N == Len(s)
<1>1. /\ N \in Nat /\ DOMAIN u = 1..(N + 1) /\ DOMAIN s = 1..N
      /\ u[N + 1] = e /\ \A n \in 1..N : u[n] = s[n]
  OBVIOUS
<1> HIDE DEF u, N
<1>2. \A n \in 1..(N + 1) : n \in 1..N \/ n = N + 1
  BY <1>1
<1>3. \A n \in 1..N : s[n] # e
  BY <1>1 DEF ToSet
<1>4. \A m, n \in 1..N : s[m] = s[n] => m = n
  BY <1>1 DEF NoTwice
<1> QED BY <1>1, <1>2, <1>3, <1>4 DEF NoTwice, u


(* The keys of the first rows.                                              *)
KeyRun(f, p, rows, Y) ==
  /\ f \in [0..Len(rows) -> Seq(Y)] /\ f[0] = <<>>
  /\ \A n \in 1..Len(rows) : f[n] = (IF RootKey(p, rows[n]) \in ToSet(f[n - 1])
                                     THEN f[n - 1] ELSE Append(f[n - 1], RootKey(p, rows[n])))

LEMMA KeyRunExists ==
  ASSUME NEW p, NEW Y, NEW rows, Len(rows) \in Nat, \A n \in 1..Len(rows) : RootKey(p, rows[n]) \in Y
  PROVE  \E f : KeyRun(f, p, rows, Y) /\ KeyOrder(p, rows) = f[Len(rows)]
<1> DEFINE N == Len(rows)
           S == Seq(Y)
           One(x, n) == (IF RootKey(p, rows[n]) \in ToSet(x) THEN x ELSE Append(x, RootKey(p, rows[n])))
           G == [n \in 1..N |-> [x \in S |-> One(x, n)]]
           Step(f, n) == IF n = 0 THEN <<>>
                         ELSE (IF RootKey(p, rows[n]) \in ToSet(f[n - 1])
                               THEN f[n - 1]
                               ELSE Append(f[n - 1], RootKey(p, rows[n])))
           Is(f) == f = [n \in 0..N |-> Step(f, n)]
           Fun == CHOOSE f : Is(f)
<1>1. N \in Nat /\ <<>> \in S
  OBVIOUS
<1>2. \A n \in 1..N, x \in S : One(x, n) \in S
  OBVIOUS
<1>3. Steps(G, S, N)
  BY <1>2 DEF Steps
<1>4. \A n \in 1..N, x \in S : G[n][x] = One(x, n)
  OBVIOUS
<1>5. KeyOrder(p, rows) = Fun[Len(rows)]
  BY DEF KeyOrder
<1>6. \A f : \A n \in 1..N : n \in 0..N /\ n - 1 \in 0..N /\ Step(f, n) = One(f[n - 1], n)
  BY <1>1
<1>7. \A f : 0 \in 0..N /\ Step(f, 0) = <<>>
  BY <1>1
<1>8. \A n \in 0..N : n = 0 \/ n \in 1..N
  BY <1>1
<1>9. \A f : \A n \in 1..N : One(f[n - 1], n) = (IF RootKey(p, rows[n]) \in ToSet(f[n - 1])
                                                 THEN f[n - 1] ELSE Append(f[n - 1], RootKey(p, rows[n])))
  OBVIOUS
<1> HIDE DEF G, N, S, One, Step
<1>10. PICK g : Iterates(g, G, S, N, <<>>)
  BY <1>1, <1>3, IterationExists
<1>11. Is(g)
  <2>1. ASSUME NEW n \in 0..N PROVE g[n] = Step(g, n)
    <3>1. CASE n = 0
      BY <1>7, <1>10, <3>1 DEF Iterates
    <3>2. CASE n \in 1..N
      <4>1. g[n - 1] \in S /\ g[n] = G[n][g[n - 1]]
        BY <1>6, <1>10, <3>2 DEF Iterates
      <4> QED BY <1>4, <1>6, <3>2, <4>1
    <3> QED BY <1>8, <3>1, <3>2
  <2> QED BY <1>10, <2>1 DEF Iterates
<1>12. Is(Fun)
  BY <1>11, Zenon
<1> HIDE DEF Fun
<1>13. Fun = [n \in 0..N |-> Fun[n]] /\ Fun[0] = <<>>
  BY <1>7, <1>12
<1>14. ASSUME NEW n \in 1..N, Fun[n - 1] \in S PROVE Fun[n] = G[n][Fun[n - 1]]
  <2>1. Fun[n] = One(Fun[n - 1], n)
    BY <1>6, <1>12
  <2> QED BY <1>4, <1>14, <2>1
<1>15. Iterates(Fun, G, S, N, <<>>)
  BY <1>1, <1>3, <1>13, <1>14, IterationIs
<1>16. Fun \in [0..N -> S] /\ \A n \in 1..N : Fun[n] = One(Fun[n - 1], n)
  BY <1>4, <1>6, <1>15 DEF Iterates
<1>17. /\ KeyOrder(p, rows) = Fun[Len(rows)]
       /\ Fun \in [0..Len(rows) -> Seq(Y)]
       /\ \A n \in 1..Len(rows) :
            Fun[n] = (IF RootKey(p, rows[n]) \in ToSet(Fun[n - 1])
                      THEN Fun[n - 1]
                      ELSE Append(Fun[n - 1], RootKey(p, rows[n])))
  BY <1>5, <1>9, <1>16 DEF N, S
<1>18. KeyRun(Fun, p, rows, Y)
  BY <1>13, <1>17, Zenon DEF KeyRun
<1> QED BY <1>17, <1>18


LEMMA KeyOrderFacts ==
  ASSUME NEW p, NEW E, NEW rows \in Seq(E)
  PROVE  LET Y == {RootKey(p, o) : o \in ToSet(rows)}
         IN  KeyOrder(p, rows) \in Seq(Y) /\ NoTwice(KeyOrder(p, rows)) /\ ToSet(KeyOrder(p, rows)) = Y
<1> DEFINE Y == {RootKey(p, o) : o \in ToSet(rows)}
           N == Len(rows)
           key(n) == RootKey(p, rows[n])
<1>1. N \in Nat /\ DOMAIN rows = 1..N /\ (\A n \in 1..N : key(n) \in Y) /\ \A y \in Y : \E n \in 1..N : y = key(n)
  BY DEF ToSet
<1> HIDE DEF Y
<1>2. PICK f : KeyRun(f, p, rows, Y) /\ KeyOrder(p, rows) = f[N]
  BY <1>1, KeyRunExists
<1>3. /\ f \in [0..N -> Seq(Y)] /\ f[0] = <<>>
      /\ \A n \in 1..N : f[n] = IF key(n) \in ToSet(f[n - 1]) THEN f[n - 1] ELSE Append(f[n - 1], key(n))
  BY <1>2 DEF KeyRun
<1> HIDE DEF N, key
<1> DEFINE P == {n \in 0..N : NoTwice(f[n]) /\ ToSet(f[n]) = {key(i) : i \in 1..n}}
<1>4. 0 \in P
  <2>1. NoTwice(<<>>) /\ ToSet(<<>>) = {} /\ {key(i) : i \in 1..0} = {} /\ 0 \in 0..N
    BY <1>1 DEF NoTwice, ToSet
  <2> QED BY <1>3, <2>1
<1>5. ASSUME NEW n \in 1..N, n - 1 \in P PROVE n \in P
  <2> DEFINE s == f[n - 1]
             First(k) == {key(i) : i \in 1..k}
  <2>1. n \in 0..N /\ n - 1 \in 0..N /\ 1..n = 1..(n - 1) \cup {n}
    BY <1>1
  <2>2. First(n) = First(n - 1) \cup {key(n)}
    BY <2>1
  <2>3. s \in Seq(Y) /\ key(n) \in Y /\ NoTwice(s) /\ ToSet(s) = First(n - 1)
    BY <1>1, <1>3, <1>5, <2>1
  <2>4. f[n] = IF key(n) \in ToSet(s) THEN s ELSE Append(s, key(n))
    BY <1>3
  <2> HIDE DEF First, s
  <2>5. CASE key(n) \in ToSet(s)
    <3>1. f[n] = s /\ First(n) = ToSet(s)
      BY <2>2, <2>3, <2>4, <2>5
    <3> QED BY <2>1, <2>3, <3>1 DEF First
  <2>6. CASE key(n) \notin ToSet(s)
    <3>1. NoTwice(f[n]) /\ ToSet(f[n]) = ToSet(s) \cup {key(n)}
      BY <2>3, <2>4, <2>6, AppendedNoTwice, AppendedFacts
    <3>2. ToSet(f[n]) = First(n)
      BY <2>2, <2>3, <3>1
    <3> QED BY <2>1, <3>1, <3>2 DEF First
  <2> QED BY <2>5, <2>6
<1> HIDE DEF P
<1>6. 0..N \subseteq P
  BY <1>1, <1>4, <1>5, StepByStep
<1>7. NoTwice(f[N]) /\ ToSet(f[N]) = {key(i) : i \in 1..N}
  <2>1. N \in P
    BY <1>1, <1>6
  <2> QED BY <2>1, Zenon DEF P
<1>8. {key(i) : i \in 1..N} = Y /\ f[N] \in Seq(Y)
  BY <1>1, <1>3
<1> QED BY <1>2, <1>7, <1>8 DEF Y

(* A key is placed somewhere between the others.                            *)
LEMMA PlacedFacts ==
  ASSUME NEW X, NEW ordinal, NEW s \in Seq(X), NEW k \in X
  PROVE  /\ Placed(ordinal, s, k) \in Seq(X)
         /\ \A x : x \in ToSet(Placed(ordinal, s, k)) <=> x \in ToSet(s) \/ x = k
         /\ NoTwice(s) /\ k \notin ToSet(s) => NoTwice(Placed(ordinal, s, k))
<1> DEFINE later == {n \in DOMAIN s : ordinal[s[n]] > ordinal[k]}
           N == Len(s)
           at == IF later = {} THEN N + 1 ELSE CHOOSE n \in later : \A m \in later : n <= m
<1>1. N \in Nat /\ DOMAIN s = 1..N /\ later \subseteq 1..N
  OBVIOUS
<1>2. at \in 1..(N + 1)
  <2>1. CASE later = {}
    BY <1>1, <2>1
  <2>2. CASE later # {}
    <3>1. later \subseteq Nat
      BY <1>1
    <3> HIDE DEF later
    <3>2. \E n \in later : \A m \in later : n <= m
      BY <2>2, <3>1, LeastNatural
    <3>3. at \in later
      BY <2>2, <3>2
    <3>4. at \in 1..N
      BY <1>1, <3>3
    <3> HIDE DEF at, N
    <3> QED BY <1>1, <3>4
  <2> QED BY <2>1, <2>2
<1>3. Placed(ordinal, s, k) = SubSeq(s, 1, at - 1) \o <<k>> \o SubSeq(s, at, N)
  BY DEF Placed
<1> HIDE DEF at, later, N
<1> DEFINE front == SubSeq(s, 1, at - 1)
           back == SubSeq(s, at, N)
           u == front \o <<k>>
<1>4. /\ front \in Seq(X) /\ Len(front) = at - 1 /\ \A n \in 1..(at - 1) : front[n] = s[n]
      /\ at - 1 \in 0..N
  <2>1. \A m \in 0..N : SubSeq(s, 1, m) \in Seq(X) /\ Len(SubSeq(s, 1, m)) = m
    BY DEF N
  <2>2. \A m \in 0..N : \A n \in 1..m : SubSeq(s, 1, m)[n] = s[n]
    BY DEF N
  <2>3. at - 1 \in 0..N
    BY <1>1, <1>2
  <2> QED BY <2>1, <2>2, <2>3
<1>5. back \in Seq(X) /\ Len(back) = N - at + 1 /\ \A n \in 1..(N - at + 1) : back[n] = s[at + n - 1]
  <2>1. \A m \in 1..(N + 1) : SubSeq(s, m, N) \in Seq(X) /\ Len(SubSeq(s, m, N)) = N - m + 1
    BY DEF N
  <2>2. \A m \in 1..(N + 1) : \A n \in 1..(N - m + 1) : SubSeq(s, m, N)[n] = s[m + n - 1]
    BY DEF N
  <2> QED BY <1>2, <2>1, <2>2
<1>6. <<k>> \in Seq(X) /\ ToSet(<<k>>) = {k} /\ NoTwice(<<k>>)
  BY DEF ToSet, NoTwice
<1> HIDE DEF front, back
<1>7. DOMAIN front = 1..(at - 1) /\ DOMAIN back = 1..(N - at + 1)
  BY <1>4, <1>5
<1>8. ToSet(front) = {s[n] : n \in 1..(at - 1)}
  BY <1>4, <1>7 DEF ToSet
<1>9. ToSet(back) = {s[n] : n \in at..N}
  <2>1. \A n \in 1..(N - at + 1) : at + n - 1 \in at..N
    BY <1>1, <1>2
  <2>2. \A n \in at..N : n - at + 1 \in 1..(N - at + 1) /\ at + (n - at + 1) - 1 = n
    BY <1>1, <1>2
  <2>3. ToSet(back) = {back[n] : n \in 1..(N - at + 1)}
    BY <1>7 DEF ToSet
  <2>4. \A x \in ToSet(back) : x \in {s[n] : n \in at..N}
    BY <1>5, <2>1, <2>3
  <2>5. \A n \in at..N : s[n] \in ToSet(back)
    <3> TAKE n \in at..N
    <3>1. back[n - at + 1] = s[n] /\ n - at + 1 \in 1..(N - at + 1)
      BY <1>5, <2>2
    <3> QED BY <2>3, <3>1
  <2> QED BY <2>4, <2>5
<1>10. ToSet(front) \cup ToSet(back) = ToSet(s)
  <2>1. 1..N = 1..(at - 1) \cup at..N
    BY <1>1, <1>2
  <2>2. ToSet(s) = {s[n] : n \in 1..N}
    BY <1>1 DEF ToSet
  <2> QED BY <1>8, <1>9, <2>1, <2>2
<1>11. u \in Seq(X) /\ ToSet(u) = ToSet(front) \cup {k}
  <2>1. \A a, b \in Seq(X) : a \o b \in Seq(X) /\ ToSet(a \o b) = ToSet(a) \cup ToSet(b)
    BY JoinedFacts
  <2> QED BY <1>4, <1>6, <2>1
<1>12. NoTwice(s) /\ k \notin ToSet(s) => NoTwice(u) /\ NoTwice(back) /\ ToSet(u) \cap ToSet(back) = {}
  <2> SUFFICES ASSUME NoTwice(s), k \notin ToSet(s) PROVE NoTwice(u) /\ NoTwice(back) /\ ToSet(u) \cap ToSet(back) = {}
    OBVIOUS
  <2>1. \A m, n \in 1..N : s[m] = s[n] => m = n
    BY <1>1 DEF NoTwice
  <2>2. NoTwice(front)
    BY <1>1, <1>2, <1>4, <1>7, <2>1 DEF NoTwice
  <2>3. NoTwice(back)
    <3> SUFFICES ASSUME NEW m \in 1..(N - at + 1), NEW n \in 1..(N - at + 1), back[m] = back[n] PROVE m = n
      BY <1>7 DEF NoTwice
    <3>1. at + m - 1 \in 1..N /\ at + n - 1 \in 1..N
      BY <1>1, <1>2
    <3>2. s[at + m - 1] = s[at + n - 1]
      BY <1>5
    <3>3. at + m - 1 = at + n - 1
      BY <2>1, <3>1, <3>2
    <3> QED BY <1>1, <1>2, <3>3
  <2>4. ToSet(front) \cap ToSet(back) = {}
    <3> SUFFICES ASSUME NEW m \in 1..(at - 1), NEW n \in at..N, s[m] = s[n] PROVE FALSE
      BY <1>8, <1>9
    <3>1. m \in 1..N /\ n \in 1..N /\ m # n
      BY <1>1, <1>2
    <3> QED BY <2>1, <3>1
  <2>5. k \notin ToSet(front) /\ k \notin ToSet(back)
    BY <1>10
  <2>6. NoTwice(u)
    <3>1. ToSet(front) \cap ToSet(<<k>>) = {}
      BY <1>6, <2>5
    <3>2. \A a, b \in Seq(X) : NoTwice(a) /\ NoTwice(b) /\ ToSet(a) \cap ToSet(b) = {} => NoTwice(a \o b)
      BY JoinedNoTwice
    <3> QED BY <1>4, <1>6, <2>2, <3>1, <3>2
  <2> QED BY <1>11, <2>3, <2>4, <2>5, <2>6
<1>13. /\ u \o back \in Seq(X) /\ ToSet(u \o back) = ToSet(u) \cup ToSet(back)
       /\ NoTwice(u) /\ NoTwice(back) /\ ToSet(u) \cap ToSet(back) = {} => NoTwice(u \o back)
  <2> HIDE DEF u
  <2>1. \A a, b \in Seq(X) : a \o b \in Seq(X) /\ ToSet(a \o b) = ToSet(a) \cup ToSet(b)
    BY JoinedFacts
  <2>2. \A a, b \in Seq(X) : NoTwice(a) /\ NoTwice(b) /\ ToSet(a) \cap ToSet(b) = {} => NoTwice(a \o b)
    BY JoinedNoTwice
  <2> QED BY <1>5, <1>11, <2>1, <2>2
<1>14. Placed(ordinal, s, k) = u \o back
  BY <1>3 DEF front, back
<1> QED BY <1>10, <1>11, <1>12, <1>13, <1>14


LEMMA PlacedSet ==
  ASSUME NEW X, NEW ordinal, NEW s \in Seq(X), NEW k \in X
  PROVE  ToSet(Placed(ordinal, s, k)) = ToSet(s) \cup {k}
<1>1. \A x : x \in ToSet(Placed(ordinal, s, k)) <=> x \in ToSet(s) \/ x = k
  BY PlacedFacts, Zenon
<1> QED BY <1>1

(* Key after key is placed.                                                 *)
PlacedRun(f, ordinal, s, keys, X) ==
  /\ f \in [0..Len(keys) -> Seq(X)] /\ f[0] = s
  /\ \A n \in 1..Len(keys) : f[n] = Placed(ordinal, f[n - 1], keys[n])

LEMMA PlacedRunExists ==
  ASSUME NEW X, NEW ordinal, NEW s \in Seq(X), NEW keys \in Seq(X)
  PROVE  \E f : PlacedRun(f, ordinal, s, keys, X) /\ AllPlaced(ordinal, s, keys) = f[Len(keys)]
<1> DEFINE N == Len(keys)
           S == Seq(X)
           One(x, n) == Placed(ordinal, x, keys[n])
           G == [n \in 1..N |-> [x \in S |-> One(x, n)]]
           Step(f, n) == IF n = 0 THEN s ELSE Placed(ordinal, f[n - 1], keys[n])
           Is(f) == f = [n \in 0..N |-> Step(f, n)]
           Fun == CHOOSE f : Is(f)
<1>1. N \in Nat /\ s \in S
  OBVIOUS
<1>2. \A n \in 1..N, x \in S : One(x, n) \in S
  <2>1. \A n \in 1..N : keys[n] \in X
    OBVIOUS
  <2>2. \A n \in 1..N, x \in Seq(X) : Placed(ordinal, x, keys[n]) \in Seq(X)
    BY <2>1, PlacedFacts
  <2> QED BY <2>2
<1>3. Steps(G, S, N)
  BY <1>2 DEF Steps
<1>4. \A n \in 1..N, x \in S : G[n][x] = One(x, n)
  OBVIOUS
<1>5. AllPlaced(ordinal, s, keys) = Fun[Len(keys)]
  BY DEF AllPlaced
<1>6. \A f : \A n \in 1..N : n \in 0..N /\ n - 1 \in 0..N /\ Step(f, n) = One(f[n - 1], n)
  BY <1>1
<1>7. \A f : 0 \in 0..N /\ Step(f, 0) = s
  BY <1>1
<1>8. \A n \in 0..N : n = 0 \/ n \in 1..N
  BY <1>1
<1>9. \A f : \A n \in 1..N : One(f[n - 1], n) = Placed(ordinal, f[n - 1], keys[n])
  OBVIOUS
<1> HIDE DEF G, N, S, One, Step
<1>10. PICK g : Iterates(g, G, S, N, s)
  BY <1>1, <1>3, IterationExists
<1>11. Is(g)
  <2>1. ASSUME NEW n \in 0..N PROVE g[n] = Step(g, n)
    <3>1. CASE n = 0
      BY <1>7, <1>10, <3>1 DEF Iterates
    <3>2. CASE n \in 1..N
      <4>1. g[n - 1] \in S /\ g[n] = G[n][g[n - 1]]
        BY <1>6, <1>10, <3>2 DEF Iterates
      <4> QED BY <1>4, <1>6, <3>2, <4>1
    <3> QED BY <1>8, <3>1, <3>2
  <2> QED BY <1>10, <2>1 DEF Iterates
<1>12. Is(Fun)
  BY <1>11, Zenon
<1> HIDE DEF Fun
<1>13. Fun = [n \in 0..N |-> Fun[n]] /\ Fun[0] = s
  BY <1>7, <1>12
<1>14. ASSUME NEW n \in 1..N, Fun[n - 1] \in S PROVE Fun[n] = G[n][Fun[n - 1]]
  <2>1. Fun[n] = One(Fun[n - 1], n)
    BY <1>6, <1>12
  <2> QED BY <1>4, <1>14, <2>1
<1>15. Iterates(Fun, G, S, N, s)
  BY <1>1, <1>3, <1>13, <1>14, IterationIs
<1>16. Fun \in [0..N -> S] /\ \A n \in 1..N : Fun[n] = One(Fun[n - 1], n)
  BY <1>4, <1>6, <1>15 DEF Iterates
<1>17. /\ AllPlaced(ordinal, s, keys) = Fun[Len(keys)]
       /\ Fun \in [0..Len(keys) -> Seq(X)]
       /\ \A n \in 1..Len(keys) :
            Fun[n] = Placed(ordinal, Fun[n - 1], keys[n])
  BY <1>5, <1>9, <1>16 DEF N, S
<1>18. PlacedRun(Fun, ordinal, s, keys, X)
  BY <1>13, <1>17, Zenon DEF PlacedRun
<1> QED BY <1>17, <1>18


LEMMA AllPlacedFacts ==
  ASSUME NEW X, NEW ordinal, NEW s \in Seq(X), NEW keys \in Seq(X), NoTwice(s), NoTwice(keys), ToSet(s) \cap ToSet(keys) = {}
  PROVE  /\ AllPlaced(ordinal, s, keys) \in Seq(X) /\ NoTwice(AllPlaced(ordinal, s, keys))
         /\ \A k : k \in ToSet(AllPlaced(ordinal, s, keys)) <=> k \in ToSet(s) \/ k \in ToSet(keys)
<1>0. ASSUME NEW x \in Seq(X), NEW y \in X
      PROVE  /\ ToSet(Placed(ordinal, x, y)) = ToSet(x) \cup {y}
             /\ NoTwice(x) /\ y \notin ToSet(x) => NoTwice(Placed(ordinal, x, y))
  <2>1. ToSet(Placed(ordinal, x, y)) = ToSet(x) \cup {y}
    BY PlacedSet
  <2>2. NoTwice(x) /\ y \notin ToSet(x) => NoTwice(Placed(ordinal, x, y))
    BY PlacedFacts
  <2> QED BY <2>1, <2>2
<1> DEFINE N == Len(keys)
<1>1. PICK f : PlacedRun(f, ordinal, s, keys, X) /\ AllPlaced(ordinal, s, keys) = f[N]
  BY PlacedRunExists
<1>2. f \in [0..N -> Seq(X)] /\ f[0] = s /\ \A n \in 1..N : f[n] = Placed(ordinal, f[n - 1], keys[n])
  BY <1>1 DEF PlacedRun
<1>3. N \in Nat /\ DOMAIN keys = 1..N /\ \A n \in 1..N : keys[n] \in X
  OBVIOUS
<1>4. \A m, n \in 1..N : keys[m] = keys[n] => m = n
  BY <1>3 DEF NoTwice
<1>5. ToSet(keys) = {keys[n] : n \in 1..N}
  BY <1>3 DEF ToSet
<1> HIDE DEF N
<1> DEFINE P == {n \in 0..N : NoTwice(f[n]) /\ ToSet(f[n]) = ToSet(s) \cup {keys[i] : i \in 1..n}}
<1>6. 0 \in P
  <2>1. {keys[i] : i \in 1..0} = {} /\ 0 \in 0..N
    BY <1>3
  <2> QED BY <1>2, <2>1
<1>7. ASSUME NEW n \in 1..N, n - 1 \in P PROVE n \in P
  <2> DEFINE t == f[n - 1]
             First(k) == {keys[i] : i \in 1..k}
  <2>1. n \in 0..N /\ n - 1 \in 0..N /\ 1..n = 1..(n - 1) \cup {n} /\ \A i \in 1..(n - 1) : i \in 1..N /\ i # n
    BY <1>3
  <2>2. First(n) = First(n - 1) \cup {keys[n]} /\ keys[n] \notin First(n - 1)
    BY <1>4, <2>1
  <2>3. t \in Seq(X) /\ keys[n] \in X /\ NoTwice(t) /\ ToSet(t) = ToSet(s) \cup First(n - 1)
    BY <1>2, <1>3, <1>7, <2>1
  <2>4. f[n] = Placed(ordinal, t, keys[n])
    BY <1>2
  <2>5. keys[n] \notin ToSet(s)
    BY <1>5
  <2> HIDE DEF First, t
  <2>6. NoTwice(f[n]) /\ ToSet(f[n]) = ToSet(t) \cup {keys[n]}
    <3>1. keys[n] \notin ToSet(t)
      BY <2>2, <2>3, <2>5
    <3> QED BY <1>0, <2>3, <2>4, <3>1
  <2>7. ToSet(f[n]) = ToSet(s) \cup First(n)
    BY <2>2, <2>3, <2>6
  <2> QED BY <2>1, <2>6, <2>7 DEF First
<1> HIDE DEF P
<1>8. 0..N \subseteq P
  BY <1>3, <1>6, <1>7, StepByStep
<1>9. NoTwice(f[N]) /\ ToSet(f[N]) = ToSet(s) \cup {keys[i] : i \in 1..N}
  <2>1. N \in P
    BY <1>3, <1>8
  <2> QED BY <2>1, Zenon DEF P
<1>10. f[N] \in Seq(X)
  BY <1>2, <1>3
<1> QED BY <1>1, <1>5, <1>9, <1>10

LEMMA PickedNoTwice ==
  ASSUME NEW E, NEW s \in Seq(E), NoTwice(s), NEW C
  PROVE  NoTwice(Picked(s, C))
<1> DEFINE R == {x \in E \X E : x[1] # x[2]}
<1>1. \A u \in Seq(E) : Ordered(u, R) <=> NoTwice(u)
  <2> TAKE u \in Seq(E)
  <2>1. \A n \in DOMAIN u : u[n] \in E
    OBVIOUS
  <2>2. \A x, y \in E : <<x, y>> \in R <=> x # y
    OBVIOUS
  <2>3. DOMAIN u = 1..Len(u) /\ Len(u) \in Nat
    OBVIOUS
  <2> HIDE DEF R
  <2>4. ASSUME NoTwice(u) PROVE Ordered(u, R)
    BY <2>1, <2>2, <2>3, <2>4 DEF Ordered, NoTwice
  <2>5. ASSUME Ordered(u, R) PROVE NoTwice(u)
    <3> SUFFICES ASSUME NEW m \in DOMAIN u, NEW n \in DOMAIN u, u[m] = u[n], m # n PROVE FALSE
      BY DEF NoTwice
    <3>1. m < n \/ n < m
      BY <2>3
    <3> QED BY <2>1, <2>2, <2>5, <3>1 DEF Ordered
  <2> QED BY <2>4, <2>5
<1> HIDE DEF R
<1>2. Picked(s, C) \in Seq(E) /\ (Ordered(s, R) => Ordered(Picked(s, C), R))
  BY PickedFacts
<1> QED BY <1>1, <1>2

OrdinalOrder(f, K) ==
  [n \in 1..Cardinality(K) |-> CHOOSE k \in K : Cardinality({l \in K : f[l] < f[k]}) = n - 1]

LEMMA ByOrdinal ==
  ASSUME NEW f, IsOrdinal(f), NEW K \in SUBSET DOMAIN f
  PROVE  OrdinalOrder(f, K) \in Seq(K) /\ ToSet(OrdinalOrder(f, K)) = K /\ NoTwice(OrdinalOrder(f, K))
<1> DEFINE s == OrdinalOrder(f, K)
           R == {x \in K \X K : f[x[1]] < f[x[2]]}
<1>1. IsFiniteSet(K) /\ \A k \in K : f[k] \in Int
  <2>1. IsFiniteSet(K)
    BY FS_Subset DEF IsOrdinal
  <2>2. Cardinality(DOMAIN f) \in Nat
    BY FS_CardinalityType DEF IsOrdinal
  <2> QED BY <2>1, <2>2 DEF IsOrdinal
<1>2. \A x, y \in K : <<x, y>> \in R <=> f[x] < f[y]
  OBVIOUS
<1> HIDE DEF R, s
<1>3. Strict(K, R)
  BY <1>1, <1>2 DEF Strict, IsOrdinal
<1>4. s = Arranged(K, R)
  <2>1. \A k \in K : {l \in K : f[l] < f[k]} = Below(K, R, k)
    BY <1>2 DEF Below
  <2>2. \A k \in K : Cardinality({l \in K : f[l] < f[k]}) = RankOf(K, R, k)
    BY <2>1 DEF RankOf
  <2> DEFINE at(n) == CHOOSE k \in K : Cardinality({l \in K : f[l] < f[k]}) = n - 1
  <2>3. \A n : at(n) = (CHOOSE k \in K : RankOf(K, R, k) = n - 1)
    BY <2>2
  <2>4. s = [n \in 1..Cardinality(K) |-> at(n)]
    BY DEF s, OrdinalOrder
  <2> HIDE DEF at
  <2> QED BY <2>3, <2>4 DEF Arranged
<1>5. s \in Seq(K) /\ ToSet(s) = K /\ Ordered(s, R)
  BY <1>1, <1>3, <1>4, ArrangedFacts
<1>6. NoTwice(s)
  <2>1. DOMAIN s = 1..Len(s) /\ Len(s) \in Nat /\ \A n \in DOMAIN s : s[n] \in K
    BY <1>5
  <2> SUFFICES ASSUME NEW m \in DOMAIN s, NEW n \in DOMAIN s, s[m] = s[n], m # n PROVE FALSE
    BY DEF NoTwice
  <2>2. m < n \/ n < m
    BY <2>1
  <2> QED BY <1>3, <1>5, <2>1, <2>2 DEF Ordered, Strict
<1> QED BY <1>5, <1>6 DEF s

-----------------------------------------------------------------------------
(* The runtime of a subset refresh.                                         *)
KeysOf(d, p) == [i \in AllRoots(d, p) |-> (CHOOSE r \in d[p.root] : r.id = i).key]
UniqueKeys(d, p) == \A r, s \in d[p.root] : r.key = s.key => r = s

GroupsOf(d, p, rt) ==
  /\ rt.keyOf = KeysOf(d, p)
  /\ rt.groups = Grouped(p, Whole(d, p))
  /\ rt.order \in Seq(DOMAIN rt.groups) /\ NoTwice(rt.order) /\ ToSet(rt.order) = DOMAIN rt.groups
  /\ IsOrdinal(rt.ordinal) /\ \A r \in d[p.root] : r.key \in DOMAIN rt.ordinal

LEMMA KeysOfFacts ==
  ASSUME NEW d, NEW p, IsDatabase(d, p)
  PROVE  DOMAIN KeysOf(d, p) = AllRoots(d, p) /\ \A r \in d[p.root] : r.id \in AllRoots(d, p) /\ KeysOf(d, p)[r.id] = r.key
<1> SUFFICES ASSUME NEW r \in d[p.root] PROVE r.id \in AllRoots(d, p) /\ KeysOf(d, p)[r.id] = r.key
  BY DEF KeysOf
<1>1. r.id \in AllRoots(d, p)
  BY DEF AllRoots
<1>2. \A s \in d[p.root] : s.id = r.id => s = r
  BY DEF IsDatabase, Tables
<1>3. (CHOOSE s \in d[p.root] : s.id = r.id) = r
  BY <1>2
<1> QED BY <1>1, <1>3 DEF KeysOf

LEMMA WholeGroups ==
  ASSUME NEW d, NEW p, IsQuery(p), IsDatabase(d, p)
  PROVE  /\ Grouped(p, Whole(d, p)) =
              [k \in KeysIn(p, WholeSet(d, p)) |-> InOrder(p, KeyGroup(p, WholeSet(d, p), k))]
         /\ \A o \in WholeSet(d, p) : o[p.root] \in d[p.root] /\ RootKey(p, o) = o[p.root].key
<1>1. \A o \in WholeSet(d, p) : o[p.root] \in d[p.root] /\ RootKey(p, o) = o[p.root].key
  BY WholeFacts DEF AreOutputs, IsOutput, Chosen, RootKey
<1> DEFINE W == WholeSet(d, p)
<1>2. IsFiniteSet(W) /\ AreOutputs(W, d, p) /\ Whole(d, p) = InOrder(p, W)
  BY WholeFacts
<1> HIDE DEF W
<1>3. Grouped(p, InOrder(p, W)) = [k \in KeysIn(p, W) |-> InOrder(p, KeyGroup(p, W, k))]
  BY <1>2, GroupedIs
<1> QED BY <1>1, <1>2, <1>3 DEF W

(* RootSubsetRefreshRuntime::new.                                           *)
LEMMA NewGroups ==
  ASSUME NEW d, NEW p, IsQuery(p), IsDatabase(d, p)
  PROVE  GroupsOf(d, p, NewRuntime(d, p, Whole(d, p)))
<1> DEFINE rt == NewRuntime(d, p, Whole(d, p))
           W == WholeSet(d, p)
<1>1. /\ rt.keyOf = KeysOf(d, p) /\ rt.groups = Grouped(p, Whole(d, p))
      /\ rt.order = KeyOrder(p, Whole(d, p)) /\ rt.ordinal = WithOrdinals(d, p, Empty, AllRoots(d, p))
  BY DEF NewRuntime, KeysOf
<1>2. DOMAIN rt.groups = {RootKey(p, o) : o \in W}
  <2> HIDE DEF rt
  <2>1. rt.groups = [k \in KeysIn(p, W) |-> InOrder(p, KeyGroup(p, W, k))]
    BY <1>1, WholeGroups
  <2> HIDE DEF W
  <2>2. DOMAIN rt.groups = KeysIn(p, W)
    BY <2>1
  <2> QED BY <2>2 DEF KeysIn
<1>3. Whole(d, p) \in Seq(W) /\ ToSet(Whole(d, p)) = W
  <2>1. IsFiniteSet(W) /\ AreOutputs(W, d, p) /\ Whole(d, p) = InOrder(p, W)
    BY WholeFacts
  <2> HIDE DEF W
  <2> QED BY <2>1, InOrderFacts
<1>4. rt.order \in Seq(DOMAIN rt.groups) /\ NoTwice(rt.order) /\ ToSet(rt.order) = DOMAIN rt.groups
  <2> DEFINE a == Whole(d, p)
  <2>1. a \in Seq(W) /\ ToSet(a) = W
    BY <1>3
  <2> HIDE DEF a
  <2>2. LET Y == {RootKey(p, o) : o \in ToSet(a)}
        IN  KeyOrder(p, a) \in Seq(Y) /\ NoTwice(KeyOrder(p, a)) /\ ToSet(KeyOrder(p, a)) = Y
    BY <2>1, KeyOrderFacts
  <2> QED BY <1>1, <1>2, <2>1, <2>2 DEF a
<1>5. IsOrdinal(Empty)
  <2>1. DOMAIN Empty = {} /\ Empty = [k \in DOMAIN Empty |-> Empty[k]]
    BY DEF Empty
  <2> QED BY <2>1, FS_EmptySet DEF IsOrdinal
<1>6. /\ IsOrdinal(WithOrdinals(d, p, Empty, AllRoots(d, p)))
      /\ DOMAIN WithOrdinals(d, p, Empty, AllRoots(d, p)) = DOMAIN Empty \cup {r.key : r \in RowsWithId(d, p, AllRoots(d, p))}
  BY <1>5, WithOrdinalsFacts
<1>7. \A r \in d[p.root] : r \in RowsWithId(d, p, AllRoots(d, p))
  BY DEF RowsWithId, AllRoots
<1> HIDE DEF rt
<1> QED BY <1>1, <1>4, <1>6, <1>7 DEF GroupsOf, rt

(* The groups together are the answer.                                      *)
LEMMA UngroupedAnswer ==
  ASSUME NEW d, NEW p, IsQuery(p), IsDatabase(d, p), NEW rt, GroupsOf(d, p, rt)
  PROVE  /\ Ungrouped(rt) \in Seq(WholeSet(d, p)) /\ NoTwice(Ungrouped(rt))
         /\ ToSet(Ungrouped(rt)) = WholeSet(d, p)
<1> DEFINE W == WholeSet(d, p)
           G(k) == KeyGroup(p, W, k)
<1>1. IsFiniteSet(W) /\ AreOutputs(W, d, p)
  BY WholeFacts
<1>2. DOMAIN rt.groups = KeysIn(p, W) /\ \A k \in DOMAIN rt.groups : rt.groups[k] = InOrder(p, G(k))
  <2>1. rt.groups = [k \in KeysIn(p, W) |-> InOrder(p, KeyGroup(p, W, k))]
    BY WholeGroups DEF GroupsOf
  <2> HIDE DEF W
  <2> QED BY <2>1
<1>3. rt.order \in Seq(DOMAIN rt.groups) /\ NoTwice(rt.order) /\ ToSet(rt.order) = DOMAIN rt.groups
  BY DEF GroupsOf
<1> HIDE DEF W
<1>4. ASSUME NEW k \in DOMAIN rt.groups
      PROVE  rt.groups[k] \in Seq(W) /\ NoTwice(rt.groups[k]) /\ ToSet(rt.groups[k]) = G(k)
  <2> DEFINE S == G(k)
  <2>1. S \subseteq W
    BY DEF KeyGroup
  <2> HIDE DEF S
  <2>2. IsFiniteSet(S) /\ AreOutputs(S, d, p)
    BY <1>1, <2>1, FS_Subset DEF AreOutputs
  <2>3. InOrder(p, S) \in Seq(S) /\ NoTwice(InOrder(p, S)) /\ ToSet(InOrder(p, S)) = S
    BY <2>2, InOrderFacts
  <2> DEFINE s == InOrder(p, S)
  <2> HIDE DEF s
  <2>4. s \in Seq(W)
    BY <2>1, <2>3 DEF s
  <2> QED BY <1>2, <2>3, <2>4 DEF s, S
<1>5. \A k, l \in DOMAIN rt.groups : k # l => ToSet(rt.groups[k]) \cap ToSet(rt.groups[l]) = {}
  BY <1>4 DEF KeyGroup
<1>6. /\ Ungrouped(rt) \in Seq(W) /\ NoTwice(Ungrouped(rt))
      /\ \A x : x \in ToSet(Ungrouped(rt)) <=> \E k \in ToSet(rt.order) : x \in ToSet(rt.groups[k])
  BY <1>3, <1>4, <1>5, UngroupedFacts
<1>7. \A x : (\E k \in ToSet(rt.order) : x \in ToSet(rt.groups[k])) <=> x \in W
  <2>1. \A k \in DOMAIN rt.groups : ToSet(rt.groups[k]) = {o \in W : RootKey(p, o) = k}
    BY <1>4 DEF KeyGroup
  <2>2. ToSet(rt.order) = {RootKey(p, o) : o \in W}
    BY <1>2, <1>3 DEF KeysIn
  <2>3. ToSet(rt.order) = DOMAIN rt.groups
    BY <1>3
  <2> QED BY <2>1, <2>2, <2>3
<1> QED BY <1>6, <1>7 DEF W


(* What a flush does to keys.  L is what is learnt anew.                    *)
LEMMA RelearntFacts ==
  ASSUME NEW d, NEW c, NEW p, IsQuery(p), IsDatabase(d, p), IsDatabase(c, p),
         NEW marked, NEW seen, \A t \in Tables(p) : marked[t] \subseteq Nat, Covered(d, c, p, marked, seen),
         NEW rt, rt.keyOf = KeysOf(d, p), NEW refresh \in BOOLEAN, ~refresh => marked[p.root] = {},
         NEW R, R = AffectedRoots(c, p, marked, seen)
  PROVE  LET L == Relearnt(rt, R, refresh)
         IN  /\ \A r : r.id \notin L => (r \in d[p.root] <=> r \in c[p.root])
             /\ L \subseteq R
             /\ \A r \in c[p.root] : r.id \in R => r.id \in L \/ r \in d[p.root]
<1> DEFINE L == Relearnt(rt, R, refresh)
<1>1. /\ \A r : r.id \notin R => (r \in d[p.root] <=> r \in c[p.root])
      /\ R \subseteq marked[p.root] \cup AllRoots(c, p)
  BY AffectedSound
<1>2. DOMAIN rt.keyOf = AllRoots(d, p)
  BY KeysOfFacts
<1>3. p.root \in Tables(p)
  BY DEF Tables
<1>4. CASE refresh
  <2>1. L = R
    BY <1>4 DEF Relearnt
  <2> QED BY <1>1, <2>1
<1>5. CASE ~refresh
  <2>1. /\ \A r \in d[p.root] : r \in c[p.root]
        /\ \A r \in c[p.root] : r \in d[p.root]
    BY <1>3, <1>5 DEF Covered
  <2>2. L \subseteq R
    BY DEF Relearnt
  <2> HIDE DEF L
  <2> QED BY <2>1, <2>2 DEF L
<1> QED BY <1>4, <1>5

LEMMA RegroupedKeys ==
  ASSUME NEW d, NEW c, NEW p, IsQuery(p), IsDatabase(d, p), IsDatabase(c, p), UniqueKeys(d, p), UniqueKeys(c, p),
         NEW marked, NEW seen, \A t \in Tables(p) : marked[t] \subseteq Nat, Covered(d, c, p, marked, seen),
         NEW rt, GroupsOf(d, p, rt), NEW refresh \in BOOLEAN, ~refresh => marked[p.root] = {},
         NEW R, R = AffectedRoots(c, p, marked, seen)
  PROVE  /\ \A r \in d[p.root] \cup c[p.root] : r.key \in AffectedKeys(c, p, rt, R, refresh) <=> r.id \in R
         /\ Regrouped(c, p, rt, R, refresh).keyOf = KeysOf(c, p)
         /\ IsOrdinal(Regrouped(c, p, rt, R, refresh).ordinal)
         /\ \A r \in c[p.root] : r.key \in DOMAIN Regrouped(c, p, rt, R, refresh).ordinal
<1> DEFINE L == Relearnt(rt, R, refresh)
           K == AffectedKeys(c, p, rt, R, refresh)
           live == L \cap AllRoots(c, p)
           new == Regrouped(c, p, rt, R, refresh)
<1>1. /\ \A r : r.id \notin R => (r \in d[p.root] <=> r \in c[p.root])
      /\ \A r : r.id \notin L => (r \in d[p.root] <=> r \in c[p.root])
      /\ L \subseteq R
      /\ \A r \in c[p.root] : r.id \in R => r.id \in L \/ r \in d[p.root]
  <2>1. rt.keyOf = KeysOf(d, p)
    BY DEF GroupsOf
  <2> QED BY <2>1, AffectedSound, RelearntFacts
<1>2. rt.keyOf = KeysOf(d, p) /\ DOMAIN rt.keyOf = AllRoots(d, p)
  BY KeysOfFacts DEF GroupsOf
<1>3. \A r \in d[p.root] : r.id \in AllRoots(d, p) /\ rt.keyOf[r.id] = r.key
  BY <1>2, KeysOfFacts
<1>4. DOMAIN KeysOf(c, p) = AllRoots(c, p) /\ \A r \in c[p.root] : r.id \in AllRoots(c, p) /\ KeysOf(c, p)[r.id] = r.key
  BY KeysOfFacts
<1>5. /\ \A i \in AllRoots(d, p) : \E r \in d[p.root] : r.id = i
      /\ \A i \in AllRoots(c, p) : \E r \in c[p.root] : r.id = i
  BY DEF AllRoots
<1>6. \A k : k \in K <=> \/ \E i \in R \cap DOMAIN rt.keyOf : k = rt.keyOf[i]
                         \/ \E r \in c[p.root] : r.id \in L /\ k = r.key
  BY DEF AffectedKeys
<1>7. /\ new.keyOf = [i \in (DOMAIN rt.keyOf \ L) \cup live |->
                        IF i \in live THEN (CHOOSE r \in c[p.root] : r.id = i).key ELSE rt.keyOf[i]]
      /\ new.ordinal = WithOrdinals(c, p, rt.ordinal, live)
  BY DEF Regrouped
<1> HIDE DEF L, K, new
<1>8. \A r \in d[p.root] \cup c[p.root] : r.key \in K <=> r.id \in R
  <2> TAKE r \in d[p.root] \cup c[p.root]
  <2>1. ASSUME r.id \in R PROVE r.key \in K
    BY <1>1, <1>2, <1>3, <1>6, <2>1
  <2>2. ASSUME r.key \in K, r.id \notin R PROVE FALSE
    <3>1. r \in d[p.root] /\ r \in c[p.root]
      BY <1>1, <2>2
    <3>2. PICK s \in d[p.root] \cup c[p.root] : s.id \in R /\ s.key = r.key
      BY <1>1, <1>2, <1>3, <1>5, <1>6, <2>2
    <3>3. s = r
      BY <3>1, <3>2 DEF UniqueKeys
    <3> QED BY <2>2, <3>2, <3>3
  <2> QED BY <2>1, <2>2
<1>9. new.keyOf = KeysOf(c, p)
  <2>1. (DOMAIN rt.keyOf \ L) \cup live = AllRoots(c, p)
    BY <1>1, <1>2, <1>3, <1>4, <1>5
  <2>2. ASSUME NEW i \in AllRoots(c, p)
        PROVE  KeysOf(c, p)[i] = IF i \in live THEN (CHOOSE r \in c[p.root] : r.id = i).key ELSE rt.keyOf[i]
    <3>1. KeysOf(c, p)[i] = (CHOOSE r \in c[p.root] : r.id = i).key
      BY DEF KeysOf
    <3>2. i \notin live => KeysOf(c, p)[i] = rt.keyOf[i]
      BY <1>1, <1>3, <1>4, <1>5
    <3> QED BY <3>1, <3>2
  <2>3. KeysOf(c, p) = [i \in AllRoots(c, p) |-> KeysOf(c, p)[i]]
    BY DEF KeysOf
  <2> QED BY <1>7, <2>1, <2>2, <2>3
<1>10. IsOrdinal(new.ordinal) /\ DOMAIN new.ordinal = DOMAIN rt.ordinal \cup {r.key : r \in RowsWithId(c, p, live)}
  <2> DEFINE o == rt.ordinal
  <2>1. IsOrdinal(o) /\ new.ordinal = WithOrdinals(c, p, o, live)
    BY <1>7 DEF GroupsOf
  <2> HIDE DEF o, live
  <2>2. IsOrdinal(WithOrdinals(c, p, o, live)) /\ DOMAIN WithOrdinals(c, p, o, live) = DOMAIN o \cup {r.key : r \in RowsWithId(c, p, live)}
    BY <2>1, WithOrdinalsFacts
  <2> QED BY <2>1, <2>2 DEF o
<1>11. ASSUME NEW r \in c[p.root] PROVE r.key \in DOMAIN new.ordinal
  <2>1. CASE r.id \in L
    BY <1>4, <1>10, <2>1 DEF RowsWithId
  <2>2. CASE r.id \notin L
    <3>1. r \in d[p.root]
      BY <1>1, <2>2
    <3> QED BY <1>10, <3>1 DEF GroupsOf
  <2> QED BY <2>1, <2>2
<1> QED BY <1>8, <1>9, <1>10, <1>11 DEF K, new


(* The groups of affected keys are replaced, and the order with them.       *)
LEMMA RegroupedGroups ==
  ASSUME NEW d, NEW c, NEW p, IsQuery(p), IsDatabase(d, p), IsDatabase(c, p), UniqueKeys(d, p), UniqueKeys(c, p),
         NEW marked, NEW seen, \A t \in Tables(p) : marked[t] \subseteq Nat, Covered(d, c, p, marked, seen),
         NEW rt, GroupsOf(d, p, rt), NEW refresh \in BOOLEAN, ~refresh => marked[p.root] = {},
         NEW R, R = AffectedRoots(c, p, marked, seen)
  PROVE  GroupsOf(c, p, Regrouped(c, p, rt, R, refresh))
<1> DEFINE K == AffectedKeys(c, p, rt, R, refresh)
           new == Regrouped(c, p, rt, R, refresh)
           W == WholeSet(d, p)
           V == WholeSet(c, p)
           F == Outputs(c, p, R)
           fresh == Grouped(p, InOrder(p, F))
           kept == Picked(rt.order, {k \in ToSet(rt.order) : k \notin K \/ k \in DOMAIN fresh})
           N == DOMAIN fresh \ (ToSet(rt.order) \cap K)
           newInOrder == [n \in 1..Cardinality(N) |->
                            CHOOSE k \in N : Cardinality({l \in N : new.ordinal[l] < new.ordinal[k]}) = n - 1]
<1>1. /\ \A u : u[p.root].id \notin R => (u \in W <=> u \in V)
      /\ F = {u \in V : u[p.root].id \in R}
  BY AffectedSound
<1>2. /\ \A r \in d[p.root] \cup c[p.root] : r.key \in K <=> r.id \in R
      /\ new.keyOf = KeysOf(c, p) /\ IsOrdinal(new.ordinal) /\ \A r \in c[p.root] : r.key \in DOMAIN new.ordinal
  BY RegroupedKeys
<1>3. /\ new.groups = [k \in (DOMAIN rt.groups \ K) \cup DOMAIN fresh |-> IF k \in DOMAIN fresh
                                                                          THEN fresh[k] ELSE rt.groups[k]]
      /\ new.order = AllPlaced(new.ordinal, kept, newInOrder)
  BY DEF Regrouped
<1>4. /\ \A u \in W : u[p.root] \in d[p.root] /\ RootKey(p, u) = u[p.root].key
      /\ \A u \in V : u[p.root] \in c[p.root] /\ RootKey(p, u) = u[p.root].key
      /\ rt.groups = [k \in KeysIn(p, W) |-> InOrder(p, KeyGroup(p, W, k))]
      /\ Grouped(p, Whole(c, p)) = [k \in KeysIn(p, V) |-> InOrder(p, KeyGroup(p, V, k))]
  BY WholeGroups DEF GroupsOf
<1>5. IsFiniteSet(V) /\ AreOutputs(V, c, p)
  BY WholeFacts
<1> HIDE DEF K, new, W, V, F
<1>6. fresh = [k \in KeysIn(p, F) |-> InOrder(p, KeyGroup(p, F, k))]
  <2>1. F \subseteq V
    BY <1>1
  <2>2. IsFiniteSet(F) /\ AreOutputs(F, c, p)
    BY <1>5, <2>1, FS_Subset DEF AreOutputs
  <2> QED BY <2>2, GroupedIs
<1>7. /\ DOMAIN fresh = KeysIn(p, F) /\ DOMAIN rt.groups = KeysIn(p, W)
  BY <1>4, <1>6
<1>8. /\ \A k : k \in KeysIn(p, F) <=> \E u \in F : RootKey(p, u) = k
      /\ \A k : k \in KeysIn(p, V) <=> \E u \in V : RootKey(p, u) = k
      /\ \A k : k \in KeysIn(p, W) <=> \E u \in W : RootKey(p, u) = k
  BY DEF KeysIn
<1>9. \A k : k \in KeysIn(p, V) <=> k \in KeysIn(p, W) \ K \/ k \in KeysIn(p, F)
  BY <1>1, <1>2, <1>4, <1>8
<1>10. \A k \in KeysIn(p, F) : k \in K /\ KeyGroup(p, F, k) = KeyGroup(p, V, k)
  <2> TAKE k \in KeysIn(p, F)
  <2>1. k \in K
    BY <1>1, <1>2, <1>4, <1>8
  <2>2. \A u : u \in F /\ RootKey(p, u) = k <=> u \in V /\ RootKey(p, u) = k
    BY <2>1, <1>1, <1>2, <1>4
  <2> QED BY <2>1, <2>2 DEF KeyGroup
<1>11. \A k : k \notin K => KeyGroup(p, W, k) = KeyGroup(p, V, k)
  <2> TAKE k
  <2> HAVE k \notin K
  <2>1. \A u : u \in W /\ RootKey(p, u) = k <=> u \in V /\ RootKey(p, u) = k
    BY <1>1, <1>2, <1>4
  <2> QED BY <2>1 DEF KeyGroup
<1>12. new.groups = Grouped(p, Whole(c, p))
  <2>1. (DOMAIN rt.groups \ K) \cup DOMAIN fresh = KeysIn(p, V)
    BY <1>7, <1>9
  <2>2. \A k \in KeysIn(p, F) : fresh[k] = InOrder(p, KeyGroup(p, F, k))
    BY <1>6
  <2>3. \A k \in KeysIn(p, W) : rt.groups[k] = InOrder(p, KeyGroup(p, W, k))
    BY <1>4
  <2> HIDE DEF fresh
  <2>4. ASSUME NEW k \in KeysIn(p, V)
        PROVE  (IF k \in DOMAIN fresh THEN fresh[k] ELSE rt.groups[k]) = InOrder(p, KeyGroup(p, V, k))
    BY <1>7, <1>9, <1>10, <1>11, <2>2, <2>3
  <2> QED BY <1>3, <1>4, <2>1, <2>4
<1>13. DOMAIN new.groups = KeysIn(p, V)
  BY <1>12, <1>4
<1>14. rt.order \in Seq(DOMAIN rt.groups) /\ NoTwice(rt.order) /\ ToSet(rt.order) = KeysIn(p, W)
  BY <1>7 DEF GroupsOf
<1> HIDE DEF fresh
<1>15. kept \in Seq(DOMAIN rt.groups) /\ NoTwice(kept)
       /\ \A k : k \in ToSet(kept) <=> k \in KeysIn(p, W) /\ (k \notin K \/ k \in KeysIn(p, F))
  <2> DEFINE C == {k \in ToSet(rt.order) : k \notin K \/ k \in DOMAIN fresh}
  <2>1. \A k : k \in C <=> k \in KeysIn(p, W) /\ (k \notin K \/ k \in KeysIn(p, F))
    BY <1>7, <1>14
  <2> HIDE DEF C
  <2>2. Picked(rt.order, C) \in Seq(DOMAIN rt.groups) /\ NoTwice(Picked(rt.order, C))
        /\ ToSet(Picked(rt.order, C)) = ToSet(rt.order) \cap C
    BY <1>14, PickedFacts, PickedNoTwice
  <2> QED BY <2>1, <2>2, <1>14 DEF C
<1>16. /\ \A k : k \in N <=> k \in KeysIn(p, F) /\ ~(k \in KeysIn(p, W) /\ k \in K)
       /\ N \subseteq DOMAIN new.ordinal
  <2>1. \A k : k \in N <=> k \in KeysIn(p, F) /\ ~(k \in KeysIn(p, W) /\ k \in K)
    BY <1>7, <1>14
  <2>2. \A k \in KeysIn(p, F) : k \in DOMAIN new.ordinal
    BY <1>1, <1>2, <1>4, <1>8
  <2> QED BY <2>1, <2>2
<1> HIDE DEF kept, N
<1>17. newInOrder \in Seq(N) /\ ToSet(newInOrder) = N /\ NoTwice(newInOrder)
  <2> DEFINE f == new.ordinal
  <2>1. IsOrdinal(f) /\ N \in SUBSET DOMAIN f
    BY <1>2, <1>16
  <2>2. newInOrder = OrdinalOrder(f, N)
    BY DEF OrdinalOrder
  <2> HIDE DEF f, newInOrder
  <2>3. OrdinalOrder(f, N) \in Seq(N) /\ ToSet(OrdinalOrder(f, N)) = N /\ NoTwice(OrdinalOrder(f, N))
    BY <2>1, ByOrdinal
  <2> QED BY <2>2, <2>3
<1> HIDE DEF newInOrder
<1>18. new.order \in Seq(KeysIn(p, V)) /\ NoTwice(new.order) /\ ToSet(new.order) = KeysIn(p, V)
  <2> DEFINE X == KeysIn(p, V)
             ordinal == new.ordinal
  <2>1. \A k : k \in ToSet(kept) => k \in X
    BY <1>15, <1>9
  <2>2. kept \in Seq(X)
    <3>1. \A n \in 1..Len(kept) : kept[n] \in ToSet(kept)
      BY <1>15 DEF ToSet
    <3> QED BY <2>1, <3>1, <1>15
  <2>3. newInOrder \in Seq(X)
    <3>1. N \subseteq X
      BY <1>9, <1>16
    <3> HIDE DEF X
    <3> QED BY <3>1, <1>17
  <2>4. ToSet(kept) \cap ToSet(newInOrder) = {}
    BY <1>10, <1>15, <1>16, <1>17
  <2>5. \A k : k \in X <=> k \in ToSet(kept) \/ k \in ToSet(newInOrder)
    BY <1>9, <1>15, <1>16, <1>17
  <2>6. new.order = AllPlaced(ordinal, kept, newInOrder)
    BY <1>3
  <2> HIDE DEF X, ordinal
  <2>7. NoTwice(kept) /\ NoTwice(newInOrder)
    BY <1>15, <1>17
  <2>8. AllPlaced(ordinal, kept, newInOrder) \in Seq(X) /\ NoTwice(AllPlaced(ordinal, kept, newInOrder))
    BY <2>2, <2>3, <2>4, <2>7, AllPlacedFacts
  <2>9. \A k : k \in ToSet(AllPlaced(ordinal, kept, newInOrder)) <=> k \in ToSet(kept) \/ k \in ToSet(newInOrder)
    BY <2>2, <2>3, <2>4, <2>7, AllPlacedFacts
  <2> QED BY <2>5, <2>6, <2>8, <2>9 DEF X
<1> QED BY <1>2, <1>12, <1>13, <1>18 DEF GroupsOf, new


-----------------------------------------------------------------------------
(* What is kept depends on a database by its answer and its root rows only. *)
Alike(d, c, p) == d[p.root] = c[p.root] /\ WholeSet(d, p) = WholeSet(c, p)

LEMMA AlikeFacts ==
  ASSUME NEW d, NEW c, NEW p, IsQuery(p), IsDatabase(d, p), IsDatabase(c, p), Alike(d, c, p)
  PROVE  /\ Whole(d, p) = Whole(c, p) /\ Answer(d, p) = Answer(c, p)
         /\ \A w : WindowOf(d, p, w) => WindowOf(c, p, w)
         /\ \A rt : GroupsOf(d, p, rt) => GroupsOf(c, p, rt)
         /\ KeysOf(d, p) = KeysOf(c, p)
<1>1. Whole(d, p) = Whole(c, p)
  BY WholeFacts DEF Alike
<1>2. KeysOf(d, p) = KeysOf(c, p)
  BY DEF Alike, KeysOf, AllRoots
<1> QED BY <1>1, <1>2 DEF Alike, Answer, WindowOf, GroupsOf

(* No affected root row: nothing to do.                                     *)
LEMMA Untouched ==
  ASSUME NEW d, NEW c, NEW p, IsQuery(p), IsDatabase(d, p), IsDatabase(c, p), NEW marked, NEW seen,
         \A t \in Tables(p) : marked[t] \subseteq Nat, Covered(d, c, p, marked, seen),
         AffectedRoots(c, p, marked, seen) = {}
  PROVE  Alike(d, c, p)
<1>1. /\ \A r : r.id \notin {} => (r \in d[p.root] <=> r \in c[p.root])
      /\ \A u : u[p.root].id \notin {} => (u \in WholeSet(d, p) <=> u \in WholeSet(c, p))
  BY AffectedSound
<1> QED BY <1>1 DEF Alike

(* Tables that have not been written to.                                    *)
LEMMA SameTables ==
  ASSUME NEW d, NEW c, NEW p, IsQuery(p), IsDatabase(d, p), IsDatabase(c, p), \A t \in Tables(p) : d[t] = c[t]
  PROVE  Alike(d, c, p)
<1> DEFINE D == [t \in Tables(p) |-> {}]
<1>1. p.root \in Tables(p) /\ d[p.root] = c[p.root]
  BY DEF Tables
<1>2. \A t \in Tables(p) : D[t] = {}
  OBVIOUS
<1> HIDE DEF D
<1>3. ClosedOff(d, c, p, D)
  <2>1. \A n \in 1..Len(p.joins) : p.joins[n].table \in Tables(p)
    BY JoinTables
  <2> QED BY <1>2, <2>1 DEF ClosedOff
<1>4. AllRoots(d, p) = AllRoots(c, p)
  BY <1>1 DEF AllRoots
<1>5. ASSUME NEW u PROVE u \in WholeSet(d, p) => u \in WholeSet(c, p)
  <2> HAVE u \in WholeSet(d, p)
  <2>1. u[p.root].id \in AllRoots(d, p)
    BY OutputsByRoot DEF WholeSet
  <2> DEFINE A == AllRoots(d, p)
             b == u[p.root].id
  <2>2. b \in A \cap A /\ b \notin D[p.root] /\ u[p.root].id = b
    BY <2>1, <1>1, <1>2
  <2>3. u \in Outputs(d, p, A) <=> u \in Outputs(c, p, A)
    BY <1>3, <2>2, Transfer
  <2> QED BY <1>4, <2>3 DEF WholeSet
<1>6. ASSUME NEW u PROVE u \in WholeSet(c, p) => u \in WholeSet(d, p)
  <2> HAVE u \in WholeSet(c, p)
  <2>1. u[p.root].id \in AllRoots(c, p)
    BY OutputsByRoot DEF WholeSet
  <2> DEFINE A == AllRoots(d, p)
             b == u[p.root].id
  <2>2. b \in A \cap A /\ b \notin D[p.root] /\ u[p.root].id = b
    BY <2>1, <1>1, <1>2, <1>4
  <2>3. u \in Outputs(d, p, A) <=> u \in Outputs(c, p, A)
    BY <1>3, <2>2, Transfer
  <2> QED BY <1>4, <2>3 DEF WholeSet
<1> QED BY <1>1, <1>5, <1>6 DEF Alike


-----------------------------------------------------------------------------
(* Patching rows of a query on one table, in the order of their ids.        *)
OneTable(p) == p.joins = <<>> /\ ~p.ordered /\ p.limit = 0
ById(p, U) == {x \in U \X U : x[1][p.root].id < x[2][p.root].id}
ShownRows(c, p) == {RootRow(p, r) : r \in {x \in c[p.root] : x.v \notin p.hidden}}

LEMMA Enumerated ==
  ASSUME NEW S, IsFiniteSet(S)
  PROVE  SetToSeq(S) \in Seq(S) /\ ToSet(SetToSeq(S)) = S
<1> DEFINE N == Cardinality(S)
           s == SetToSeq(S)
<1>1. N \in Nat /\ ExistsBijection(1..N, S) /\ IsFiniteSet(1..N) /\ Cardinality(1..N) = N
  BY FS_CardinalityType, FS_Interval
<1>2. \E f \in [1..N -> S] : \A a, b \in DOMAIN f : f[a] = f[b] => a = b
  BY <1>1 DEF ExistsBijection, Bijection, Injection, IsInjective
<1>3. s \in [1..N -> S] /\ \A a, b \in DOMAIN s : s[a] = s[b] => a = b
  BY <1>2 DEF SetToSeq, IsInjective
<1> HIDE DEF s
<1>4. s \in Injection(1..N, S)
  BY <1>3 DEF Injection, IsInjective
<1>5. s \in Surjection(1..N, S)
  BY <1>1, <1>4, FS_Injection
<1>6. \A x \in S : \E n \in 1..N : s[n] = x
  BY <1>5 DEF Surjection
<1> HIDE DEF N
<1> QED BY <1>1, <1>3, <1>6 DEF s, ToSet

LEMMA OneTableAnswer ==
  ASSUME NEW d, NEW p, IsQuery(p), IsDatabase(d, p), OneTable(p)
  PROVE  /\ WholeSet(d, p) = ShownRows(d, p) /\ Answer(d, p) = InOrder(p, ShownRows(d, p))
         /\ IsFiniteSet(ShownRows(d, p)) /\ AreOutputs(ShownRows(d, p), d, p)
<1>1. Len(p.joins) = 0
  BY DEF OneTable
<1>2. PICK f : OutputsRun(f, d, p, AllRoots(d, p)) /\ WholeSet(d, p) = f[0]
  BY <1>1, OutputsRunExists DEF WholeSet
<1>3. WholeSet(d, p) = ShownRows(d, p)
  BY <1>2 DEF OutputsRun, Chosen, ShownRows, AllRoots
<1>4. Answer(d, p) = InOrder(p, WholeSet(d, p))
  BY WholeFacts DEF Answer, Visible, OneTable
<1> QED BY <1>3, <1>4, WholeFacts

LEMMA OneTableOrder ==
  ASSUME NEW p, OneTable(p), NEW U, \A o \in U : o[p.root].id \in Nat
  PROVE  SortPairs(p, U) = ById(p, U)
<1>1. \A o : SortKey(p, o) = <<>> \o <<o[p.root].id>> \o <<>>
  BY DEF OneTable, SortKey
<1>2. \A o : SortKey(p, o) = <<o[p.root].id>>
  BY <1>1
<1>3. \A a, b \in Nat : Before(<<a>>, <<b>>) <=> a < b
  <2> SUFFICES ASSUME NEW a \in Nat, NEW b \in Nat PROVE Before(<<a>>, <<b>>) <=> a < b
    OBVIOUS
  <2> DEFINE x == <<a>>
             y == <<b>>
  <2>1. DOMAIN x = {1} /\ x[1] = a /\ y[1] = b /\ 1..(1 - 1) = {}
    OBVIOUS
  <2> HIDE DEF x, y
  <2>2. Before(x, y) <=> a < b
    BY <2>1 DEF Before
  <2> QED BY <2>2 DEF x, y
<1> QED BY <1>2, <1>3 DEF SortPairs, ById

LEMMA PatchedRowFacts ==
  ASSUME NEW c, NEW p, IsDatabase(c, p), NEW E, ShownRows(c, p) \subseteq E, \A o \in E : o[p.root].id \in Nat,
         NEW s \in Seq(E), NEW i \in Nat
  PROVE  LET t == PatchedRow(p, s, i, {r \in c[p.root] : r.id = i /\ r.v \notin p.hidden})
         IN  /\ t \in Seq(E)
             /\ Ordered(s, ById(p, E)) => Ordered(t, ById(p, E))
             /\ \A o \in E : o \in ToSet(t) <=> IF o[p.root].id = i THEN o \in ShownRows(c, p) ELSE o \in ToSet(s)
<1> DEFINE row == {r \in c[p.root] : r.id = i /\ r.v \notin p.hidden}
           before == Picked(s, {o \in ToSet(s) : o[p.root].id < i})
           after == Picked(s, {o \in ToSet(s) : o[p.root].id > i})
           mid == IF row = {} THEN <<>> ELSE <<RootRow(p, CHOOSE r \in row : TRUE)>>
           R == ById(p, E)
<1>1. /\ before \in Seq(E) /\ after \in Seq(E)
      /\ ToSet(before) = {o \in ToSet(s) : o[p.root].id < i} /\ ToSet(after) = {o \in ToSet(s) : o[p.root].id > i}
      /\ Ordered(s, R) => Ordered(before, R) /\ Ordered(after, R)
  <2> DEFINE B == {o \in ToSet(s) : o[p.root].id < i}
             A == {o \in ToSet(s) : o[p.root].id > i}
  <2>1. B \subseteq ToSet(s) /\ A \subseteq ToSet(s)
    OBVIOUS
  <2> HIDE DEF A, B, R
  <2>2. /\ Picked(s, B) \in Seq(E) /\ Picked(s, A) \in Seq(E)
        /\ ToSet(Picked(s, B)) = ToSet(s) \cap B /\ ToSet(Picked(s, A)) = ToSet(s) \cap A
        /\ Ordered(s, R) => Ordered(Picked(s, B), R) /\ Ordered(Picked(s, A), R)
    BY PickedFacts
  <2>3. ToSet(Picked(s, B)) = B /\ ToSet(Picked(s, A)) = A
    BY <2>1, <2>2
  <2> QED BY <2>2, <2>3 DEF A, B
<1>2. \A o \in E : o \in ShownRows(c, p) /\ o[p.root].id = i <=> \E r \in row : o = RootRow(p, r)
  BY DEF ShownRows, RootRow
<1>3. \A r \in row : RootRow(p, r) \in E /\ RootRow(p, r)[p.root].id = i
  BY DEF ShownRows, RootRow
<1>4. \A r, x \in row : r = x
  BY DEF IsDatabase, Tables
<1>5. \A o \in ToSet(s) : o \in E
  BY DEF ToSet
<1>6. PatchedRow(p, s, i, row) = before \o mid \o after
  BY DEF PatchedRow
<1> HIDE DEF row, before, after
<1>7. mid \in Seq(E) /\ Ordered(mid, R) /\ \A o \in E : o \in ToSet(mid) <=> \E r \in row : o = RootRow(p, r)
  <2>1. CASE row = {}
    BY <2>1 DEF Ordered, ToSet
  <2>2. CASE row # {}
    <3> DEFINE x == RootRow(p, CHOOSE r \in row : TRUE)
    <3>1. \E r \in row : r = CHOOSE y \in row : TRUE
      BY <2>2
    <3>2. x \in E /\ \A o \in E : o = x <=> \E r \in row : o = RootRow(p, r)
      BY <1>3, <1>4, <3>1
    <3>3. mid = <<x>>
      BY <2>2
    <3> HIDE DEF x
    <3>4. mid \in Seq(E) /\ DOMAIN mid = {1} /\ mid[1] = x /\ \A m, n \in {1} : ~(m < n)
      BY <3>2, <3>3
    <3>5. ToSet(mid) = {x} /\ Ordered(mid, R)
      <4> HIDE DEF mid, R
      <4> QED BY <3>4 DEF ToSet, Ordered
    <3> QED BY <3>2, <3>4, <3>5
  <2> QED BY <2>1, <2>2
<1>8. \A o \in ToSet(mid) : o \in E /\ o[p.root].id = i
  <2>1. \A o \in ToSet(mid) : o \in E
    BY <1>7 DEF ToSet
  <2> QED BY <1>3, <1>7, <2>1
<1> HIDE DEF mid
<1> DEFINE u == before \o mid
           t == u \o after
<1>9. /\ \A x \in ToSet(before), y \in ToSet(mid) : <<x, y>> \in R
      /\ \A x \in ToSet(before) \cup ToSet(mid), y \in ToSet(after) : <<x, y>> \in R
  BY <1>1, <1>5, <1>8 DEF ById
<1> HIDE DEF R
<1>10. u \in Seq(E) /\ ToSet(u) = ToSet(before) \cup ToSet(mid) /\ (Ordered(s, R) => Ordered(u, R))
  BY <1>1, <1>7, <1>9, JoinedFacts
<1> HIDE DEF u
<1>11. t \in Seq(E) /\ ToSet(t) = ToSet(u) \cup ToSet(after) /\ (Ordered(s, R) => Ordered(t, R))
  BY <1>1, <1>9, <1>10, JoinedFacts
<1>12. \A o \in E : o \in ToSet(t) <=> IF o[p.root].id = i THEN o \in ShownRows(c, p) ELSE o \in ToSet(s)
  <2> HIDE DEF t
  <2> TAKE o \in E
  <2>1. o[p.root].id \in Nat
    OBVIOUS
  <2>2. o \in ToSet(t) <=> o \in ToSet(before) \/ o \in ToSet(mid) \/ o \in ToSet(after)
    BY <1>10, <1>11
  <2>3. o \in ToSet(mid) <=> o \in ShownRows(c, p) /\ o[p.root].id = i
    BY <1>2, <1>7
  <2> QED BY <1>1, <2>1, <2>2, <2>3
<1>13. PatchedRow(p, s, i, row) = t
  BY <1>6 DEF u
<1> QED BY <1>11, <1>12, <1>13 DEF R, row


(* Row after row is patched.                                                *)
PatchRun(f, c, p, s, keys, E) ==
  /\ f \in [0..Len(keys) -> Seq(E)] /\ f[0] = s
  /\ \A n \in 1..Len(keys) : f[n] = PatchedRow(p, f[n - 1], keys[n], {r \in c[p.root] : r.id = keys[n] /\ r.v \notin p.hidden})

LEMMA PatchRunExists ==
  ASSUME NEW c, NEW p, IsDatabase(c, p), NEW E, ShownRows(c, p) \subseteq E, \A o \in E : o[p.root].id \in Nat, NEW s \in Seq(E),
         NEW keys \in Seq(Nat), NEW changed, keys = SetToSeq(changed)
  PROVE  \E f : PatchRun(f, c, p, s, keys, E) /\ Patched(c, p, s, changed) = f[Len(keys)]
<1> DEFINE N == Len(keys)
           S == Seq(E)
           One(x, n) == PatchedRow(p, x, keys[n], {r \in c[p.root] : r.id = keys[n] /\ r.v \notin p.hidden})
           G == [n \in 1..N |-> [x \in S |-> One(x, n)]]
           Step(f, n) == IF n = 0
                         THEN s
                         ELSE PatchedRow(p, f[n - 1], keys[n], {r \in c[p.root] : r.id = keys[n] /\ r.v \notin p.hidden})
           Is(f) == f = [n \in 0..N |-> Step(f, n)]
           Fun == CHOOSE f : Is(f)
<1>1. N \in Nat /\ s \in S
  OBVIOUS
<1>2. \A n \in 1..N, x \in S : One(x, n) \in S
  <2>1. \A n \in 1..N : keys[n] \in Nat
    OBVIOUS
  <2>2. \A i \in Nat, x \in Seq(E) : PatchedRow(p, x, i, {r \in c[p.root] : r.id = i /\ r.v \notin p.hidden}) \in Seq(E)
    BY PatchedRowFacts
  <2> QED BY <2>1, <2>2
<1>3. Steps(G, S, N)
  BY <1>2 DEF Steps
<1>4. \A n \in 1..N, x \in S : G[n][x] = One(x, n)
  OBVIOUS
<1>5. Patched(c, p, s, changed) = Fun[Len(keys)]
  BY DEF Patched
<1>6. \A f : \A n \in 1..N : n \in 0..N /\ n - 1 \in 0..N /\ Step(f, n) = One(f[n - 1], n)
  BY <1>1
<1>7. \A f : 0 \in 0..N /\ Step(f, 0) = s
  BY <1>1
<1>8. \A n \in 0..N : n = 0 \/ n \in 1..N
  BY <1>1
<1>9. \A f : \A n \in 1..N : One(f[n - 1], n) = PatchedRow(p, f[n - 1], keys[n], {r \in c[p.root] : r.id = keys[n] /\ r.v \notin p.hidden})
  OBVIOUS
<1> HIDE DEF G, N, S, One, Step
<1>10. PICK g : Iterates(g, G, S, N, s)
  BY <1>1, <1>3, IterationExists
<1>11. Is(g)
  <2>1. ASSUME NEW n \in 0..N PROVE g[n] = Step(g, n)
    <3>1. CASE n = 0
      BY <1>7, <1>10, <3>1 DEF Iterates
    <3>2. CASE n \in 1..N
      <4>1. g[n - 1] \in S /\ g[n] = G[n][g[n - 1]]
        BY <1>6, <1>10, <3>2 DEF Iterates
      <4> QED BY <1>4, <1>6, <3>2, <4>1
    <3> QED BY <1>8, <3>1, <3>2
  <2> QED BY <1>10, <2>1 DEF Iterates
<1>12. Is(Fun)
  BY <1>11, Zenon
<1> HIDE DEF Fun
<1>13. Fun = [n \in 0..N |-> Fun[n]] /\ Fun[0] = s
  BY <1>7, <1>12
<1>14. ASSUME NEW n \in 1..N, Fun[n - 1] \in S PROVE Fun[n] = G[n][Fun[n - 1]]
  <2>1. Fun[n] = One(Fun[n - 1], n)
    BY <1>6, <1>12
  <2> QED BY <1>4, <1>14, <2>1
<1>15. Iterates(Fun, G, S, N, s)
  BY <1>1, <1>3, <1>13, <1>14, IterationIs
<1>16. Fun \in [0..N -> S] /\ \A n \in 1..N : Fun[n] = One(Fun[n - 1], n)
  BY <1>4, <1>6, <1>15 DEF Iterates
<1>17. /\ Patched(c, p, s, changed) = Fun[Len(keys)]
       /\ Fun \in [0..Len(keys) -> Seq(E)]
       /\ \A n \in 1..Len(keys) :
            Fun[n] = PatchedRow(p, Fun[n - 1], keys[n], {r \in c[p.root] : r.id = keys[n] /\ r.v \notin p.hidden})
  BY <1>5, <1>9, <1>16 DEF N, S
<1>18. PatchRun(Fun, c, p, s, keys, E)
  BY <1>13, <1>17, Zenon DEF PatchRun
<1> QED BY <1>17, <1>18


(* Once every changed row is patched, the rows are those of the table.      *)
LEMMA PatchedAnswer ==
  ASSUME NEW d, NEW c, NEW p, IsQuery(p), OneTable(p), IsDatabase(d, p), IsDatabase(c, p), NEW marked, NEW seen,
         marked[p.root] \subseteq Nat, IsFiniteSet(marked[p.root]), Covered(d, c, p, marked, seen)
  PROVE  Patched(c, p, Answer(d, p), marked[p.root]) = Answer(c, p)
<1> DEFINE M == marked[p.root]
           keys == SetToSeq(M)
           N == Len(keys)
           Old == ShownRows(d, p)
           New == ShownRows(c, p)
           E == Old \cup New
           s == Answer(d, p)
           R == ById(p, E)
           Row(x, i) == PatchedRow(p, x, i, {r \in c[p.root] : r.id = i /\ r.v \notin p.hidden})
<1>1. keys \in Seq(M) /\ ToSet(keys) = M
  BY Enumerated
<1>2. keys \in Seq(Nat) /\ N \in Nat /\ (\A n \in 1..N : keys[n] \in Nat) /\ \A i : i \in M <=> \E n \in 1..N : i = keys[n]
  <2> HIDE DEF keys
  <2>1. keys \in Seq(Nat)
    BY <1>1
  <2> QED BY <1>1, <2>1 DEF ToSet
<1>3. \A o \in E : o[p.root].id \in Nat
  BY DEF ShownRows, RootRow, IsDatabase, Tables
<1>4. /\ s = InOrder(p, Old) /\ IsFiniteSet(Old) /\ AreOutputs(Old, d, p)
      /\ Answer(c, p) = InOrder(p, New) /\ IsFiniteSet(New) /\ AreOutputs(New, c, p)
  BY OneTableAnswer
<1>5. SortPairs(p, E) = R
  <2> HIDE DEF E
  <2> QED BY <1>3, OneTableOrder
<1>6. \A o \in E : o[p.root].id \notin M => (o \in Old <=> o \in New)
  BY DEF ShownRows, RootRow, Covered, Tables
<1>7. Old \subseteq E /\ New \subseteq E
  OBVIOUS
<1> HIDE DEF E, New, Old, R
<1>8. s \in Seq(E) /\ ToSet(s) = Old /\ Ordered(s, R)
  <2> DEFINE a == InOrder(p, Old)
  <2>1. a \in Seq(Old) /\ ToSet(a) = Old /\ Ordered(a, R)
    BY <1>4, <1>5, <1>7, InOrderFacts
  <2> HIDE DEF a
  <2>2. a \in Seq(E)
    BY <1>7, <2>1
  <2> QED BY <1>4, <2>1, <2>2 DEF a
<1> HIDE DEF s, keys
<1>10. PICK f : PatchRun(f, c, p, s, keys, E) /\ Patched(c, p, s, M) = f[N]
  <2>1. keys = SetToSeq(M)
    BY DEF keys
  <2> QED BY <1>2, <1>3, <1>7, <1>8, <2>1, PatchRunExists DEF New
<1>11. f \in [0..N -> Seq(E)] /\ f[0] = s /\ \A n \in 1..N : f[n] = Row(f[n - 1], keys[n])
  BY <1>10 DEF PatchRun
<1>12. ASSUME NEW x \in Seq(E), NEW i \in Nat
       PROVE  /\ Ordered(x, R) => Ordered(Row(x, i), R)
              /\ \A o \in E : o \in ToSet(Row(x, i)) <=> IF o[p.root].id = i THEN o \in New ELSE o \in ToSet(x)
  BY <1>3, <1>7, PatchedRowFacts DEF New, R
<1> HIDE DEF N, Row
<1> DEFINE Good(x, n) ==
             /\ Ordered(x, R)
             /\ \A o \in E : o \in ToSet(x) <=> IF \E m \in 1..n : o[p.root].id = keys[m] THEN o \in New ELSE o \in Old
           P == {n \in 0..N : Good(f[n], n)}
<1>13. 0 \in P
  <2>1. 0 \in 0..N /\ 1..0 = {}
    BY <1>2
  <2> QED BY <1>8, <1>11, <2>1
<1>14. ASSUME NEW n \in 1..N, n - 1 \in P PROVE n \in P
  <2> DEFINE x == f[n - 1]
  <2>1. n \in 0..N /\ n - 1 \in 0..N /\ \A m : m \in 1..n <=> m \in 1..(n - 1) \/ m = n
    BY <1>2
  <2>2. x \in Seq(E) /\ Good(x, n - 1) /\ f[n] = Row(x, keys[n]) /\ keys[n] \in Nat
    BY <1>2, <1>11, <1>14, <2>1
  <2> HIDE DEF x
  <2>3. Ordered(f[n], R) /\ \A o \in E : o \in ToSet(f[n]) <=> IF o[p.root].id = keys[n]
                                                               THEN o \in New ELSE o \in ToSet(x)
    BY <1>12, <2>2
  <2> QED BY <2>1, <2>2, <2>3
<1> HIDE DEF P, Good
<1>15. 0..N \subseteq P
  BY <1>2, <1>13, <1>14, StepByStep
<1>16. Good(f[N], N) /\ f[N] \in Seq(E)
  <2>1. N \in P /\ N \in 0..N
    BY <1>2, <1>15
  <2> QED BY <2>1, <1>11 DEF P
<1>17. ToSet(f[N]) = New
  <2>1. \A o \in ToSet(f[N]) : o \in E
    BY <1>16 DEF ToSet
  <2>2. \A o \in E : o \in ToSet(f[N]) <=> IF o[p.root].id \in M THEN o \in New ELSE o \in Old
    BY <1>2, <1>16 DEF Good
  <2>3. \A o \in E : o \in ToSet(f[N]) <=> o \in New
    BY <1>6, <2>2
  <2> QED BY <1>7, <2>1, <2>3
<1>18. f[N] = InOrder(p, New)
  <2> DEFINE z == f[N]
  <2>1. z \in Seq(E) /\ ToSet(z) = New /\ Ordered(z, SortPairs(p, E))
    BY <1>5, <1>16, <1>17 DEF Good
  <2> HIDE DEF z
  <2>2. z \in Seq(New)
    BY <2>1 DEF ToSet
  <2>3. z = InOrder(p, New)
    BY <1>4, <1>7, <2>1, <2>2, InOrderFacts
  <2> QED BY <2>3 DEF z
<1> QED BY <1>4, <1>10, <1>18 DEF s


-----------------------------------------------------------------------------
(* What an observable keeps between flushes, for the database d of the last *)
(* one: its result, and what its way of refreshing it starts from.          *)
ShowsFirst(p) == p.ordered /\ p.limit > 0
ShowsAll(p) == ~p.ordered /\ p.limit = 0

KeptOf(d, p, res, win, rt) ==
  /\ OneTable(p) => res = Answer(d, p)
  /\ ShowsFirst(p) => WindowOf(d, p, win) /\ res = Visible(p, win)
  /\ ShowsAll(p) /\ ~OneTable(p) =>
       /\ GroupsOf(d, p, rt)
       /\ res \in Seq(WholeSet(d, p)) /\ NoTwice(res) /\ ToSet(res) = WholeSet(d, p)
  /\ ~ShowsFirst(p) /\ ~ShowsAll(p) => res = Answer(d, p)

LEMMA VisibleRows ==
  ASSUME NEW p, IsQuery(p), NEW E, NEW s \in Seq(E)
  PROVE  Visible(p, s) \in Seq(E) /\ ToSet(Visible(p, s)) \subseteq ToSet(s)
<1>1. ASSUME NEW m \in Nat, m >= 1, NEW n \in Nat
      PROVE  Cut(s, m, n) \in Seq(E) /\ ToSet(Cut(s, m, n)) \subseteq ToSet(s)
  <2> DEFINE k == IF n < Len(s) THEN n ELSE Len(s)
             u == SubSeq(s, m, k)
  <2>1. k \in Nat /\ k <= Len(s) /\ Len(s) \in Nat /\ DOMAIN s = 1..Len(s)
    OBVIOUS
  <2>2. Cut(s, m, n) = u
    BY DEF Cut
  <2> HIDE DEF k
  <2>3. u \in Seq(E) /\ Len(u) = (IF m <= k THEN k - m + 1 ELSE 0) /\ \A i \in 1..Len(u) : u[i] = s[m + i - 1]
    BY <1>1, <2>1
  <2> HIDE DEF u
  <2>4. \A i \in 1..Len(u) : m + i - 1 \in DOMAIN s
    BY <1>1, <2>1, <2>3
  <2>5. ToSet(u) \subseteq ToSet(s)
    BY <2>3, <2>4 DEF ToSet
  <2> QED BY <2>2, <2>3, <2>5
<1>2. p.offset + 1 \in Nat /\ p.offset + 1 >= 1 /\ p.offset + p.limit \in Nat
  BY Limits
<1>3. CASE p.limit = 0
  BY <1>3 DEF Visible
<1>4. CASE p.limit # 0
  BY <1>1, <1>2, <1>4 DEF Visible
<1> QED BY <1>3, <1>4

LEMMA AnswerRows ==
  ASSUME NEW d, NEW p, IsQuery(p), IsDatabase(d, p)
  PROVE  /\ Whole(d, p) \in Seq(WholeSet(d, p)) /\ NoTwice(Whole(d, p)) /\ ToSet(Whole(d, p)) = WholeSet(d, p)
         /\ Answer(d, p) \in Seq(WholeSet(d, p))
<1> DEFINE W == WholeSet(d, p)
<1>1. IsFiniteSet(W) /\ AreOutputs(W, d, p) /\ Whole(d, p) = InOrder(p, W)
  BY WholeFacts
<1> HIDE DEF W
<1>2. Whole(d, p) \in Seq(W) /\ NoTwice(Whole(d, p)) /\ ToSet(Whole(d, p)) = W
  BY <1>1, InOrderFacts
<1>3. Answer(d, p) \in Seq(W)
  BY <1>2, VisibleRows DEF Answer
<1> QED BY <1>2, <1>3 DEF W

(* Whatever is kept, the result has rows of the answer.                     *)
LEMMA KeptRows ==
  ASSUME NEW d, NEW p, IsQuery(p), IsDatabase(d, p), NEW res, NEW win, NEW rt, KeptOf(d, p, res, win, rt)
  PROVE  /\ \A o \in ToSet(res) : DOMAIN o = Tables(p)
         /\ ShowsFirst(p) => Len(win) <= CandidateLimit(p)
<1>1. ToSet(res) \subseteq WholeSet(d, p)
  <2>1. ASSUME res = Answer(d, p) PROVE ToSet(res) \subseteq WholeSet(d, p)
    BY <2>1, AnswerRows DEF ToSet
  <2>2. CASE ShowsFirst(p)
    <3> DEFINE S == ToSet(win)
               W == WholeSet(d, p)
    <3>1. win = InOrder(p, S) /\ S \subseteq W /\ res = Visible(p, win)
      BY <2>2 DEF KeptOf, WindowOf
    <3>2. IsFiniteSet(W) /\ AreOutputs(W, d, p)
      BY WholeFacts
    <3> HIDE DEF S, W
    <3>3. IsFiniteSet(S) /\ AreOutputs(S, d, p)
      BY <3>1, <3>2, FS_Subset DEF AreOutputs
    <3>4. win \in Seq(S)
      BY <3>1, <3>3, InOrderFacts
    <3>5. ToSet(res) \subseteq ToSet(win)
      BY <3>1, <3>4, VisibleRows
    <3> QED BY <3>1, <3>5 DEF S, W
  <2>3. CASE ~ShowsFirst(p) /\ (OneTable(p) \/ ~ShowsAll(p))
    BY <2>1, <2>3 DEF KeptOf
  <2>4. CASE ShowsAll(p) /\ ~OneTable(p)
    BY <2>4 DEF KeptOf
  <2> QED BY <2>2, <2>3, <2>4
<1>2. \A o \in WholeSet(d, p) : DOMAIN o = Tables(p)
  <2> TAKE o \in WholeSet(d, p)
  <2>1. o = [t \in Tables(p) |-> o[t]]
    BY WholeFacts DEF AreOutputs, IsOutput
  <2> QED BY <2>1
<1>3. ShowsFirst(p) => Len(win) <= CandidateLimit(p)
  BY DEF KeptOf, WindowOf
<1> QED BY <1>1, <1>2, <1>3

(* observe() builds it from the rows of the plan.                           *)
LEMMA KeptAtFirst ==
  ASSUME NEW d, NEW p, IsQuery(p), IsDatabase(d, p), NEW win, NEW rt,
         ShowsFirst(p) => win = Candidates(d, p, AllRoots(d, p)),
         ShowsAll(p) => rt = NewRuntime(d, p, Answer(d, p))
  PROVE  KeptOf(d, p, Answer(d, p), win, rt)
<1>1. ShowsFirst(p) => WindowOf(d, p, win) /\ Answer(d, p) = Visible(p, win)
  <2> HAVE ShowsFirst(p)
  <2>1. p.limit # 0
    BY DEF ShowsFirst
  <2> QED BY <2>1, CandidatesWindow, VisibleCandidates
<1>2. ASSUME ShowsAll(p)
      PROVE  /\ GroupsOf(d, p, rt) /\ Answer(d, p) = Whole(d, p)
  <2>1. Answer(d, p) = Whole(d, p)
    BY <1>2 DEF Answer, Visible, ShowsAll
  <2> QED BY <1>2, <2>1, NewGroups
<1> QED BY <1>1, <1>2, AnswerRows DEF KeptOf


(* Each way of refreshing it brings it from d to c.                         *)
LEMMA KeptPatched ==
  ASSUME NEW d, NEW c, NEW p, IsQuery(p), OneTable(p), IsDatabase(d, p), IsDatabase(c, p), NEW marked, NEW seen,
         marked[p.root] \subseteq Nat, IsFiniteSet(marked[p.root]), Covered(d, c, p, marked, seen),
         NEW res, NEW win, NEW rt, KeptOf(d, p, res, win, rt)
  PROVE  KeptOf(c, p, Patched(c, p, res, marked[p.root]), win, rt)
<1>1. ~ShowsFirst(p) /\ ShowsAll(p) /\ res = Answer(d, p)
  BY DEF KeptOf, OneTable, ShowsFirst, ShowsAll
<1>2. Patched(c, p, Answer(d, p), marked[p.root]) = Answer(c, p)
  BY PatchedAnswer
<1> QED BY <1>1, <1>2 DEF KeptOf

LEMMA KeptMerged ==
  ASSUME NEW d, NEW c, NEW p, IsQuery(p), ShowsFirst(p), IsDatabase(d, p), IsDatabase(c, p), NEW marked, NEW seen,
         \A t \in Tables(p) : marked[t] \subseteq Nat, Covered(d, c, p, marked, seen),
         NEW res, NEW win, NEW rt, KeptOf(d, p, res, win, rt),
         NEW merged, merged = Merged(c, p, win, AffectedRoots(c, p, marked, seen)), ~Drained(p, win, merged)
  PROVE  KeptOf(c, p, Visible(p, merged), merged, rt)
<1>1. ~OneTable(p) /\ ~ShowsAll(p) /\ WindowOf(d, p, win)
  BY DEF KeptOf, OneTable, ShowsFirst, ShowsAll
<1>2. WindowOf(c, p, merged)
  BY <1>1, MergedWindow
<1> QED BY <1>1, <1>2 DEF KeptOf

LEMMA KeptRegrouped ==
  ASSUME NEW d, NEW c, NEW p, IsQuery(p), ShowsAll(p), ~OneTable(p), IsDatabase(d, p), IsDatabase(c, p),
         UniqueKeys(d, p), UniqueKeys(c, p), NEW marked, NEW seen,
         \A t \in Tables(p) : marked[t] \subseteq Nat, Covered(d, c, p, marked, seen),
         NEW res, NEW win, NEW rt, KeptOf(d, p, res, win, rt),
         NEW refresh \in BOOLEAN, ~refresh => marked[p.root] = {},
         NEW new, new = Regrouped(c, p, rt, AffectedRoots(c, p, marked, seen), refresh)
  PROVE  KeptOf(c, p, Ungrouped(new), win, new)
<1>1. ~ShowsFirst(p) /\ GroupsOf(d, p, rt)
  BY DEF KeptOf, ShowsFirst, ShowsAll
<1> DEFINE R == AffectedRoots(c, p, marked, seen)
<1>2. new = Regrouped(c, p, rt, R, refresh)
  OBVIOUS
<1>3. GroupsOf(c, p, Regrouped(c, p, rt, R, refresh))
  <2> HIDE DEF R
  <2>1. R = AffectedRoots(c, p, marked, seen)
    BY DEF R
  <2> QED BY <1>1, <2>1, RegroupedGroups
<1> HIDE DEF R
<1>4. GroupsOf(c, p, new)
  BY <1>2, <1>3
<1>5. /\ Ungrouped(new) \in Seq(WholeSet(c, p)) /\ NoTwice(Ungrouped(new))
      /\ ToSet(Ungrouped(new)) = WholeSet(c, p)
  BY <1>4, UngroupedAnswer
<1> QED BY <1>1, <1>4, <1>5 DEF KeptOf

LEMMA KeptAlike ==
  ASSUME NEW d, NEW c, NEW p, IsQuery(p), IsDatabase(d, p), IsDatabase(c, p), Alike(d, c, p),
         NEW res, NEW win, NEW rt, KeptOf(d, p, res, win, rt)
  PROVE  KeptOf(c, p, res, win, rt)
<1>1. /\ Answer(d, p) = Answer(c, p) /\ WholeSet(d, p) = WholeSet(c, p)
      /\ WindowOf(d, p, win) => WindowOf(c, p, win)
      /\ GroupsOf(d, p, rt) => GroupsOf(c, p, rt)
  BY AlikeFacts DEF Alike
<1> QED BY <1>1 DEF KeptOf

LEMMA KeptAnew ==
  ASSUME NEW c, NEW p, IsQuery(p), IsDatabase(c, p), NEW win, NEW rt, ~OneTable(p), ~ShowsAll(p),
         ShowsFirst(p) => win = Candidates(c, p, AllRoots(c, p))
  PROVE  KeptOf(c, p, IF ShowsFirst(p) THEN Visible(p, win) ELSE Answer(c, p), win, rt)
<1>1. ShowsFirst(p) => WindowOf(c, p, win)
  BY CandidatesWindow
<1> QED BY <1>1 DEF KeptOf

-----------------------------------------------------------------------------
(* The tables, and what is queued.                                          *)
TableOf(rows, n) ==
  /\ IsFiniteSet(rows) /\ Absent \notin rows
  /\ \A r \in rows : r.id \in 1..(n - 1) /\ r.v \in Int
  /\ \A r, s \in rows : r # s => r.id # s.id /\ r.key # s.key

QueuedOf(rows, marked, seen) ==
  /\ marked \in SUBSET (1..MaxId)
  /\ {r.id : r \in seen} = marked
  /\ \A r \in rows : r.id \in marked => r \in seen

Typed ==
  /\ scenario \in Scenario /\ opened \in BOOLEAN /\ changes \in 0..scenario.max
  /\ DOMAIN db = DOMAIN scenario.db /\ DOMAIN nextId = DOMAIN db /\ DOMAIN ids = DOMAIN db /\ DOMAIN deltas = DOMAIN db
  /\ \A t \in DOMAIN db :
       TableOf(db[t], nextId[t]) /\ nextId[t] \in 1..(MaxId + 1) /\ QueuedOf(db[t], ids[t], deltas[t])

LEMMA ScenarioFacts ==
  ASSUME NEW s \in Scenario
  PROVE  /\ IsQuery(s.q) /\ Tables(s.q) \subseteq DOMAIN s.db /\ s.max \in Nat
         /\ DOMAIN s.inserts = DOMAIN s.db /\ DOMAIN s.updates = DOMAIN s.db
         /\ \A t \in DOMAIN s.db : AreRows(s.db[t], s.inserts[t] \cup s.updates[t])
BY ScenarioAssumption

LEMMA FirstTables ==
  ASSUME NEW rows, NEW written, AreRows(rows, written)
  PROVE  TableOf(rows, 1 + Cardinality(rows)) /\ 1 + Cardinality(rows) \in 1..(MaxId + 1)
<1> DEFINE N == Cardinality(rows)
<1>1. N \in Nat /\ N <= MaxId /\ MaxId \in Nat
  BY FS_CardinalityType, MaxIdAssumption DEF AreRows
<1>2. ASSUME NEW r \in rows PROVE r.id \in 1..N /\ r # Absent /\ r.v \in Int
  <2>1. r.id \in 1..N
    BY DEF AreRows
  <2>2. r = WithId(r, r.id) /\ WithId(r, r.id) # Absent /\ r.v \in Int
    <3>1. r.id \in 1..MaxId
      BY <1>1, <2>1
    <3> QED BY <3>1 DEF AreRows
  <2> QED BY <2>1, <2>2
<1>3. IsFiniteSet(rows) /\ \A r, s \in rows : r # s => r.id # s.id /\ r.key # s.key
  BY DEF AreRows
<1> HIDE DEF N
<1>4. TableOf(rows, 1 + N)
  <2> DEFINE n == 1 + N
  <2>1. 1..(n - 1) = 1..N
    BY <1>1
  <2> HIDE DEF n
  <2>2. TableOf(rows, n)
    <3>1. \A r \in rows : r.id \in 1..(n - 1) /\ r.v \in Int
      BY <1>2, <2>1
    <3>2. Absent \notin rows
      BY <1>2
    <3> QED BY <1>3, <3>1, <3>2 DEF TableOf
  <2> QED BY <2>2 DEF n
<1> QED BY <1>1, <1>4 DEF N

LEMMA TypedFacts ==
  ASSUME Typed
  PROVE  /\ IsQuery(q) /\ IsDatabase(db, q) /\ UniqueKeys(db, q) /\ Tables(q) \subseteq DOMAIN db /\ q.root \in Tables(q)
         /\ \A t \in DOMAIN db : ids[t] \subseteq Nat /\ IsFiniteSet(ids[t])
         /\ Covered(db, db, q, ids, deltas)
<1>1. IsQuery(q) /\ Tables(q) \subseteq DOMAIN db /\ q.root \in Tables(q)
  BY ScenarioFacts DEF Typed, q, Tables
<1>2. \A t \in DOMAIN db : \A r \in db[t] : r.id \in Nat /\ r.id # 0
  <2> SUFFICES ASSUME NEW t \in DOMAIN db, NEW r \in db[t] PROVE r.id \in Nat /\ r.id # 0
    OBVIOUS
  <2>1. r.id \in 1..(nextId[t] - 1) /\ nextId[t] \in 1..(MaxId + 1)
    BY DEF Typed, TableOf
  <2> QED BY <2>1, MaxIdAssumption
<1>3. IsDatabase(db, q)
  BY <1>1, <1>2 DEF Typed, TableOf, IsDatabase
<1>4. UniqueKeys(db, q)
  BY <1>1 DEF Typed, TableOf, UniqueKeys
<1>5. \A t \in DOMAIN db : ids[t] \subseteq Nat /\ IsFiniteSet(ids[t])
  <2> TAKE t \in DOMAIN db
  <2>1. ids[t] \subseteq 1..MaxId
    BY DEF Typed, QueuedOf
  <2>2. 1..MaxId \subseteq Nat /\ IsFiniteSet(1..MaxId)
    BY MaxIdAssumption, FS_Interval
  <2> QED BY <2>1, <2>2, FS_Subset
<1>6. Covered(db, db, q, ids, deltas)
  BY <1>1 DEF Typed, QueuedOf, Covered
<1> QED BY <1>1, <1>3, <1>4, <1>5, <1>6

(* What has gone can be traced: every queued id has its deltas.             *)
LEMMA AlwaysKnown ==
  ASSUME Typed
  PROVE  Known
<1> DEFINE D == DirtyRows(db, q, ids, deltas)
<1>1. IsQuery(q) /\ IsDatabase(db, q) /\ \A t \in Tables(q) : t \in DOMAIN db /\ ids[t] \subseteq Nat
  BY TypedFacts
<1>2. \A t \in Tables(q) : D[t] \subseteq ids[t] \cup {r.id : r \in db[t]}
  BY <1>1, DirtyFacts
<1> HIDE DEF D
<1>3. \A t \in Tables(q) : deltas[t] = {} => ids[t] = {}
  BY <1>1 DEF Typed, QueuedOf
<1>4. \A t \in Tables(q) : D[t] \subseteq {r.id : r \in db[t]} \/ deltas[t] # {}
  BY <1>2, <1>3
<1> QED BY <1>4 DEF Known, Traceable, D


-----------------------------------------------------------------------------
(* The inductive invariant.  It speaks of a database that no variable       *)
(* holds: the tables as they were when the observable last looked at them.  *)
(* Since then every change has been queued, and what is kept was right for  *)
(* them.                                                                    *)
Since(d) ==
  /\ IsDatabase(d, q) /\ UniqueKeys(d, q)
  /\ Covered(d, db, q, ids, deltas)
  /\ KeptOf(d, q, result, window, runtime)

Inv ==
  /\ Typed /\ told = result
  /\ ~opened => result = <<>> /\ window = <<>>
  /\ opened => \E d : Since(d)

LEMMA InitInv == Init => Inv
<1> SUFFICES ASSUME Init PROVE Inv
  OBVIOUS
<1>1. scenario \in Scenario /\ db = scenario.db /\ scenario.max \in Nat
  BY ScenarioFacts DEF Init
<1>2. ASSUME NEW t \in DOMAIN db
      PROVE  TableOf(db[t], nextId[t]) /\ nextId[t] \in 1..(MaxId + 1) /\ QueuedOf(db[t], ids[t], deltas[t])
  <2> DEFINE rows == db[t]
             written == scenario.inserts[t] \cup scenario.updates[t]
  <2>1. AreRows(rows, written)
    BY <1>1, ScenarioFacts
  <2>2. nextId[t] = 1 + Cardinality(rows) /\ ids[t] = {} /\ deltas[t] = {}
    BY DEF Init, None
  <2> HIDE DEF rows, written
  <2>3. TableOf(rows, nextId[t]) /\ nextId[t] \in 1..(MaxId + 1)
    BY <2>1, <2>2, FirstTables
  <2>4. QueuedOf(rows, ids[t], deltas[t])
    BY <2>2 DEF QueuedOf
  <2> QED BY <2>3, <2>4 DEF rows
<1>3. DOMAIN nextId = DOMAIN db /\ DOMAIN ids = DOMAIN db /\ DOMAIN deltas = DOMAIN db
  BY DEF Init, None
<1>4. changes \in 0..scenario.max /\ opened = FALSE
  BY <1>1 DEF Init
<1>5. Typed
  BY <1>1, <1>2, <1>3, <1>4 DEF Typed
<1> QED BY <1>5 DEF Init, Inv

(* A statement: rows of one table go and others come.                       *)
Replaces(t, old, new) ==
  /\ t \in DOMAIN db /\ old \subseteq db[t] /\ Write(t, old, new)
  /\ \A r, s \in new : r = s
  /\ \A s \in new : s # Absent /\ s.v \in Int
  /\ \A r \in db[t], s \in new : r.id = s.id => r \in old
  /\ \/ nextId' = nextId /\ \A s \in new : \E r \in old : s.id = r.id
     \/ /\ nextId' = [nextId EXCEPT ![t] = @ + 1] /\ nextId[t] <= MaxId
        /\ \A s \in new : s.id = nextId[t]

LEMMA StatementReplaces ==
  ASSUME Typed, Statement
  PROVE  \E t, old, new : Replaces(t, old, new)
<1>1. PICK t \in DOMAIN db : Insert(t) \/ Update(t) \/ Delete(t)
  BY DEF Statement
<1>2. /\ AreRows(scenario.db[t], scenario.inserts[t] \cup scenario.updates[t])
      /\ \A r \in db[t] : r.id \in 1..(nextId[t] - 1)
      /\ \A r, s \in db[t] : r # s => r.id # s.id
      /\ nextId[t] \in 1..(MaxId + 1)
  BY ScenarioFacts DEF Typed, TableOf
<1>3. \A c \in scenario.inserts[t] \cup scenario.updates[t] : c.v \in Int /\ \A i \in 1..MaxId : WithId(c, i) # Absent
  BY <1>2 DEF AreRows
<1>4. \A c, i : WithId(c, i).id = i /\ WithId(c, i).v = c.v
  BY DEF WithId
<1>5. CASE Insert(t)
  <2>1. PICK c \in scenario.inserts[t] : Write(t, {}, {WithId(c, nextId[t])})
    BY <1>5 DEF Insert
  <2> DEFINE s == WithId(c, nextId[t])
  <2>2. nextId[t] \in 1..MaxId
    BY <1>2, <1>5, MaxIdAssumption DEF Insert
  <2>3. s.id = nextId[t] /\ s # Absent /\ s.v \in Int
    BY <1>3, <1>4, <2>2
  <2> HIDE DEF s
  <2>4. \A r \in db[t] : r.id # s.id
    BY <1>2, <2>3
  <2>5. Replaces(t, {}, {s})
    BY <1>5, <2>1, <2>2, <2>3, <2>4 DEF Replaces, Insert, s
  <2> QED BY <2>5
<1>6. CASE Update(t)
  <2>1. PICK r \in db[t], c \in scenario.updates[t] : Write(t, {r}, {WithId(c, r.id)}) /\ UNCHANGED nextId
    BY <1>6 DEF Update
  <2> DEFINE s == WithId(c, r.id)
  <2>2. r.id \in 1..MaxId
    BY <1>2, MaxIdAssumption
  <2>3. s.id = r.id /\ s # Absent /\ s.v \in Int
    BY <1>3, <1>4, <2>2
  <2> HIDE DEF s
  <2>4. \A x \in db[t] : x.id = s.id => x = r
    BY <1>2, <2>3
  <2>5. Replaces(t, {r}, {s})
    BY <2>1, <2>3, <2>4 DEF Replaces, s
  <2> QED BY <2>5
<1>7. CASE Delete(t)
  <2>1. PICK r \in db[t] : Write(t, {r}, {}) /\ UNCHANGED nextId
    BY <1>7 DEF Delete
  <2>2. Replaces(t, {r}, {})
    BY <2>1 DEF Replaces
  <2> QED BY <2>2
<1> QED BY <1>1, <1>5, <1>6, <1>7

LEMMA ReplacesTyped ==
  ASSUME Typed, NEW t, NEW old, NEW new, Replaces(t, old, new)
  PROVE  Typed'
<1>1. /\ t \in DOMAIN db /\ old \subseteq db[t] /\ changes < scenario.max /\ changes' = changes + 1
      /\ \A r \in db[t] \ old, s \in new : r.key # s.key
      /\ db' = [db EXCEPT ![t] = (@ \ old) \cup new]
      /\ ids' = [ids EXCEPT ![t] = @ \cup {r.id : r \in old \cup new}]
      /\ deltas' = [deltas EXCEPT ![t] = @ \cup old \cup new]
      /\ scenario' = scenario /\ opened' = opened
  BY DEF Replaces, Write
<1>2. /\ DOMAIN db' = DOMAIN db /\ DOMAIN ids' = DOMAIN ids /\ DOMAIN deltas' = DOMAIN deltas /\ DOMAIN nextId' = DOMAIN nextId
      /\ \A u \in DOMAIN db : u # t => db'[u] = db[u] /\ ids'[u] = ids[u] /\ deltas'[u] = deltas[u] /\ nextId'[u] = nextId[u]
      /\ db'[t] = (db[t] \ old) \cup new
      /\ ids'[t] = ids[t] \cup {r.id : r \in old \cup new}
      /\ deltas'[t] = deltas[t] \cup old \cup new
  BY <1>1 DEF Replaces, Typed
<1>3. /\ TableOf(db[t], nextId[t]) /\ nextId[t] \in 1..(MaxId + 1) /\ QueuedOf(db[t], ids[t], deltas[t])
  BY <1>1 DEF Typed
<1>4. nextId'[t] \in 1..(MaxId + 1) /\ nextId'[t] >= nextId[t] /\ \A s \in new : s.id \in 1..(nextId'[t] - 1)
  <2>1. CASE nextId' = nextId /\ \A s \in new : \E r \in old : s.id = r.id
    BY <1>1, <1>3, <2>1 DEF TableOf
  <2>2. CASE nextId' = [nextId EXCEPT ![t] = @ + 1] /\ nextId[t] <= MaxId /\ \A s \in new : s.id = nextId[t]
    <3>1. nextId'[t] = nextId[t] + 1
      BY <1>1, <2>2 DEF Typed
    <3> QED BY <1>3, <2>2, <3>1, MaxIdAssumption
  <2> QED BY <2>1, <2>2 DEF Replaces
<1>5. TableOf(db'[t], nextId'[t])
  <2>1. IsFiniteSet(new)
    <3>1. CASE new = {}
      BY <3>1, FS_EmptySet
    <3>2. CASE new # {}
      <4>1. PICK s : s \in new
        BY <3>2
      <4>2. new = {s}
        BY <4>1 DEF Replaces
      <4> QED BY <4>2, FS_Singleton
    <3> QED BY <3>1, <3>2
  <2>2. IsFiniteSet(db'[t])
    BY <1>2, <1>3, <2>1, FS_Subset, FS_Union DEF TableOf
  <2>3. \A r \in db[t] : r.id \in 1..(nextId'[t] - 1)
    BY <1>3, <1>4, MaxIdAssumption DEF TableOf
  <2>4. \A r \in db'[t] : r.id \in 1..(nextId'[t] - 1) /\ r.v \in Int /\ r # Absent
    BY <1>2, <1>3, <1>4, <2>3 DEF TableOf, Replaces
  <2>5. \A r, s \in db'[t] : r # s => r.id # s.id /\ r.key # s.key
    BY <1>1, <1>2, <1>3 DEF TableOf, Replaces
  <2> QED BY <2>2, <2>4, <2>5 DEF TableOf
<1>6. QueuedOf(db'[t], ids'[t], deltas'[t])
  <2>1. \A r \in old \cup new : r.id \in 1..MaxId
    <3>1. \A r \in old : r.id \in 1..(nextId[t] - 1)
      BY <1>1, <1>3 DEF TableOf
    <3> QED BY <1>3, <1>4, <3>1, MaxIdAssumption
  <2>2. ids'[t] \in SUBSET (1..MaxId)
    BY <1>2, <1>3, <2>1 DEF QueuedOf
  <2>3. {r.id : r \in deltas'[t]} = ids'[t]
    <3>1. ids[t] = {r.id : r \in deltas[t]}
      BY <1>3 DEF QueuedOf
    <3> QED BY <1>2, <3>1
  <2>4. \A r \in db'[t] : r.id \in ids'[t] => r \in deltas'[t]
    <3> SUFFICES ASSUME NEW r \in db'[t], r.id \in ids'[t], r \notin old, r \notin new PROVE r \in deltas[t]
      BY <1>2
    <3>1. r \in db[t]
      BY <1>2
    <3>2. \A x \in old \cup new : r.id # x.id
      BY <1>1, <1>3, <3>1 DEF TableOf, Replaces
    <3>3. r.id \in ids[t]
      BY <1>2, <3>2
    <3> QED BY <1>3, <3>1, <3>3 DEF QueuedOf
  <2> QED BY <2>2, <2>3, <2>4 DEF QueuedOf
<1>7. changes' \in 0..scenario'.max
  BY <1>1, ScenarioFacts DEF Typed
<1>8. ASSUME NEW u \in DOMAIN db'
      PROVE  TableOf(db'[u], nextId'[u]) /\ nextId'[u] \in 1..(MaxId + 1) /\ QueuedOf(db'[u], ids'[u], deltas'[u])
  BY <1>2, <1>4, <1>5, <1>6 DEF Typed
<1> QED BY <1>1, <1>2, <1>7, <1>8 DEF Typed

LEMMA CoveredStep ==
  ASSUME Typed, NEW t, NEW old, NEW new, Replaces(t, old, new), NEW d, Covered(d, db, q, ids, deltas)
  PROVE  /\ Covered(d, db', q, ids', deltas') /\ q' = q
         /\ scenario' = scenario /\ result' = result /\ window' = window /\ runtime' = runtime
<1>1. /\ t \in DOMAIN db /\ old \subseteq db[t]
      /\ db' = [db EXCEPT ![t] = (@ \ old) \cup new]
      /\ ids' = [ids EXCEPT ![t] = @ \cup {r.id : r \in old \cup new}]
      /\ deltas' = [deltas EXCEPT ![t] = @ \cup old \cup new]
      /\ scenario' = scenario /\ result' = result /\ window' = window /\ runtime' = runtime
  BY DEF Replaces, Write
<1>2. /\ \A u \in DOMAIN db : u # t => db'[u] = db[u] /\ ids'[u] = ids[u] /\ deltas'[u] = deltas[u]
      /\ db'[t] = (db[t] \ old) \cup new
      /\ ids'[t] = ids[t] \cup {r.id : r \in old \cup new}
      /\ deltas'[t] = deltas[t] \cup old \cup new
  BY <1>1 DEF Typed
<1>3. \A r \in db[t] : r.id \in ids'[t] => r.id \in ids[t] \/ r \in old
  BY <1>1, <1>2 DEF Replaces, Typed, TableOf
<1>4. ASSUME NEW u \in Tables(q)
      PROVE  /\ \A r \in d[u] : IF r.id \in ids'[u] THEN r \in deltas'[u] ELSE r \in db'[u]
             /\ \A r \in db'[u] : IF r.id \in ids'[u] THEN r \in deltas'[u] ELSE r \in d[u]
  <2>1. /\ \A r \in d[u] : IF r.id \in ids[u] THEN r \in deltas[u] ELSE r \in db[u]
        /\ \A r \in db[u] : IF r.id \in ids[u] THEN r \in deltas[u] ELSE r \in d[u]
    BY DEF Covered
  <2>2. CASE u # t
    BY <1>2, <2>1, <2>2, TypedFacts
  <2>3. CASE u = t
    <3>1. \A r \in d[u] : IF r.id \in ids'[u] THEN r \in deltas'[u] ELSE r \in db'[u]
      BY <1>2, <1>3, <2>1, <2>3
    <3>2. \A r \in db'[u] : IF r.id \in ids'[u] THEN r \in deltas'[u] ELSE r \in d[u]
      BY <1>2, <1>3, <2>1, <2>3
    <3> QED BY <3>1, <3>2
  <2> QED BY <2>2, <2>3
<1>5. q' = q
  BY <1>1 DEF q
<1>6. Covered(d, db', q, ids', deltas')
  BY <1>4 DEF Covered
<1> QED BY <1>1, <1>5, <1>6

LEMMA ReplacesCovered ==
  ASSUME Typed, NEW t, NEW old, NEW new, Replaces(t, old, new), NEW d, Since(d)
  PROVE  Since(d)'
<1>1. Covered(d, db, q, ids, deltas)
  BY DEF Since
<1>2. /\ Covered(d, db', q, ids', deltas') /\ q' = q
      /\ result' = result /\ window' = window /\ runtime' = runtime
  BY <1>1, CoveredStep
<1> QED BY <1>2 DEF Since


(* A flush: what was queued is gone, and the tables are as they are.        *)
LEMMA DrainTyped ==
  ASSUME Typed, Drain
  PROVE  Typed' /\ q' = q
<1>1. /\ scenario' = scenario /\ db' = db /\ nextId' = nextId /\ opened' = opened /\ changes' = changes
      /\ DOMAIN ids' = DOMAIN db /\ DOMAIN deltas' = DOMAIN db
      /\ \A t \in DOMAIN db : ids'[t] = {} /\ deltas'[t] = {}
  BY DEF Drain, None
<1>2. \A t \in DOMAIN db : QueuedOf(db[t], ids'[t], deltas'[t])
  BY <1>1 DEF QueuedOf
<1> QED BY <1>1, <1>2 DEF Typed, q

LEMMA DrainInv ==
  ASSUME Inv, Flush, KeptOf(db, q, result', window', runtime'), told' = result'
  PROVE  Inv'
<1>1. Typed' /\ q' = q /\ db' = db /\ opened' = opened /\ opened
  BY DrainTyped DEF Inv, Flush, Drain
<1>2. IsDatabase(db, q) /\ UniqueKeys(db, q)
  BY TypedFacts DEF Inv
<1>3. Covered(db', db', q', ids', deltas')
  <2>1. \A t \in Tables(q) : t \in DOMAIN db /\ ids'[t] = {}
    BY TypedFacts DEF Inv, Flush, Drain, None
  <2> QED BY <1>1, <2>1 DEF Covered
<1>4. IsDatabase(db', q') /\ UniqueKeys(db', q') /\ KeptOf(db', q', result', window', runtime')
  BY <1>1, <1>2
<1>5. \E d : Since(d)'
  BY <1>3, <1>4 DEF Since
<1> QED BY <1>1, <1>5 DEF Inv

(* The ways of on_change, one by one.                                       *)
LEMMA Ways == /\ Patchable = OneTable(q) /\ Windowed = ShowsFirst(q) /\ Subsettable = ShowsAll(q)
BY DEF Patchable, OneTable, Windowed, ShowsFirst, Subsettable, ShowsAll

LEMMA FlushKept ==
  ASSUME Inv, NEW d, Since(d), PatchRefresh \/ WindowRefresh \/ SubsetRefresh \/ Unaffected \/ Requery
  PROVE  KeptOf(db, q, result', window', runtime') /\ told' = result' /\ Flush
<1>1. /\ IsQuery(q) /\ IsDatabase(db, q) /\ UniqueKeys(db, q) /\ q.root \in Tables(q) /\ Tables(q) \subseteq DOMAIN db
      /\ \A t \in Tables(q) : ids[t] \subseteq Nat /\ IsFiniteSet(ids[t])
  BY TypedFacts DEF Inv
<1>2. IsDatabase(d, q) /\ UniqueKeys(d, q) /\ Covered(d, db, q, ids, deltas) /\ KeptOf(d, q, result, window, runtime)
  BY DEF Since
<1>3. told = result /\ \A rows : Show(rows) => result' = rows /\ told' = result'
  BY DEF Inv, Show
<1>4. Known
  BY AlwaysKnown DEF Inv
<1> DEFINE p == q
<1>5. p = q
  OBVIOUS
<1>6. CASE PatchRefresh
  <2>1. OneTable(p) /\ Show(Patched(db, p, result, ids[p.root])) /\ window' = window /\ runtime' = runtime /\ Flush
    BY <1>6, Ways DEF PatchRefresh
  <2>2. ids[p.root] \subseteq Nat /\ IsFiniteSet(ids[p.root])
    BY <1>1
  <2> HIDE DEF p
  <2>3. KeptOf(db, p, Patched(db, p, result, ids[p.root]), window, runtime)
    BY <1>1, <1>2, <1>5, <2>1, <2>2, KeptPatched
  <2> QED BY <1>3, <1>5, <2>1, <2>3
<1>7. CASE WindowRefresh
  <2> DEFINE merged == Merged(db, p, window, AffectedRoots(db, p, ids, deltas))
  <2>1. ShowsFirst(p) /\ ~Drained(p, window, merged) /\ window' = merged /\ Show(Visible(p, merged)) /\ runtime' = runtime /\ Flush
    BY <1>7, Ways DEF WindowRefresh, WindowMerges, Roots
  <2> HIDE DEF merged, p
  <2>2. KeptOf(db, p, Visible(p, merged), merged, runtime)
    BY <1>1, <1>2, <1>5, <2>1, KeptMerged DEF merged
  <2> QED BY <1>3, <1>5, <2>1, <2>2
<1>8. CASE SubsetRefresh
  <2> DEFINE refresh == p.root \in Changed
             new == Regrouped(db, p, runtime, AffectedRoots(db, p, ids, deltas), refresh)
  <2>1. ShowsAll(p) /\ ~OneTable(p) /\ runtime' = new /\ Show(Ungrouped(new)) /\ window' = window /\ Flush
    BY <1>8, Ways DEF SubsetRefresh, SubsetRefreshes, Roots
  <2>2. refresh \in BOOLEAN /\ (~refresh => ids[p.root] = {})
    BY <1>1 DEF Changed
  <2> HIDE DEF refresh
  <2>3. new = Regrouped(db, p, runtime, AffectedRoots(db, p, ids, deltas), refresh)
    OBVIOUS
  <2> HIDE DEF new, p
  <2>4. KeptOf(db, p, Ungrouped(new), window, new)
    BY <1>1, <1>2, <1>5, <2>1, <2>2, <2>3, KeptRegrouped
  <2> QED BY <1>3, <1>5, <2>1, <2>4
<1>9. CASE Unaffected
  <2>1. AffectedRoots(db, p, ids, deltas) = {} /\ Flush
        /\ result' = result /\ told' = told /\ window' = window /\ runtime' = runtime
    BY <1>9 DEF Unaffected, Roots
  <2> HIDE DEF p
  <2>2. Alike(d, db, p)
    BY <1>1, <1>2, <1>5, <2>1, Untouched
  <2>3. KeptOf(db, p, result, window, runtime)
    BY <1>1, <1>2, <1>5, <2>2, KeptAlike
  <2> QED BY <1>3, <1>5, <2>1, <2>3
<1>10. CASE Requery
  <2>1. ~OneTable(p) /\ ~ShowsAll(p) /\ Flush /\ runtime' = runtime
    BY <1>4, <1>10, Ways DEF Requery, SubsetRefreshes
  <2>2. /\ ShowsFirst(p) => window' = Candidates(db, p, AllRoots(db, p))
        /\ Show(IF ShowsFirst(p) THEN Visible(p, window') ELSE Answer(db, p))
    BY <1>10, Ways DEF Requery, Rows
  <2> DEFINE win == window'
             rt == runtime'
             res == IF ShowsFirst(p) THEN Visible(p, win) ELSE Answer(db, p)
  <2> HIDE DEF p
  <2>3. KeptOf(db, p, res, win, rt)
    <3> HIDE DEF win, rt
    <3>1. ShowsFirst(p) => win = Candidates(db, p, AllRoots(db, p))
      BY <2>2 DEF win
    <3> QED BY <1>1, <1>5, <2>1, <3>1, KeptAnew
  <2> QED BY <1>3, <1>5, <2>1, <2>2, <2>3
<1> QED BY <1>6, <1>7, <1>8, <1>9, <1>10

LEMMA ObserveInv ==
  ASSUME Inv, Observe
  PROVE  Inv'
<1>1. /\ IsQuery(q) /\ IsDatabase(db, q) /\ UniqueKeys(db, q) /\ Covered(db, db, q, ids, deltas) /\ Typed
  BY TypedFacts DEF Inv
<1>2. /\ opened' = TRUE /\ result' = Answer(db, q) /\ told' = result'
      /\ ShowsFirst(q) => window' = Candidates(db, q, AllRoots(db, q))
      /\ ShowsAll(q) => runtime' = NewRuntime(db, q, Answer(db, q))
      /\ scenario' = scenario /\ db' = db /\ nextId' = nextId /\ ids' = ids /\ deltas' = deltas /\ changes' = changes
  <2>1. ~(ShowsFirst(q) /\ ShowsAll(q))
    BY DEF ShowsFirst, ShowsAll
  <2> QED BY <2>1, Ways DEF Observe, Rows, tables
<1> DEFINE win == window'
           rt == runtime'
<1>3. KeptOf(db, q, Answer(db, q), win, rt)
  <2>1. /\ ShowsFirst(q) => win = Candidates(db, q, AllRoots(db, q))
        /\ ShowsAll(q) => rt = NewRuntime(db, q, Answer(db, q))
    BY <1>2
  <2> HIDE DEF win, rt
  <2> QED BY <1>1, <2>1, KeptAtFirst
<1>4. q' = q
  BY <1>2 DEF q
<1>5. Since(db)'
  BY <1>1, <1>2, <1>3, <1>4 DEF Since
<1>6. Typed'
  BY <1>1, <1>2 DEF Typed
<1> QED BY <1>2, <1>5, <1>6 DEF Inv

LEMMA StatementInv ==
  ASSUME Inv, Statement
  PROVE  Inv'
<1>1. PICK t, old, new : Replaces(t, old, new)
  BY StatementReplaces DEF Inv
<1>2. Typed'
  BY <1>1, ReplacesTyped DEF Inv
<1>3. opened' = opened /\ result' = result /\ window' = window /\ told' = told
  BY <1>1 DEF Replaces, Write
<1>4. \A d : Since(d) => Since(d)'
  BY <1>1, ReplacesCovered DEF Inv
<1> QED BY <1>2, <1>3, <1>4 DEF Inv

LEMMA StepInv ==
  ASSUME Inv, [Next]_vars
  PROVE  Inv'
<1>1. CASE Statement
  BY <1>1, StatementInv
<1>2. CASE Observe
  BY <1>2, ObserveInv
<1>3. CASE PatchRefresh \/ WindowRefresh \/ SubsetRefresh \/ Unaffected \/ Requery
  <2>1. opened
    BY <1>3 DEF PatchRefresh, WindowRefresh, SubsetRefresh, Unaffected, Requery, Flush
  <2>2. PICK d : Since(d)
    BY <2>1 DEF Inv
  <2> QED BY <1>3, <2>2, FlushKept, DrainInv
<1>4. CASE UNCHANGED vars
  <2>1. /\ scenario' = scenario /\ db' = db /\ nextId' = nextId /\ ids' = ids /\ deltas' = deltas /\ opened' = opened
        /\ result' = result /\ window' = window /\ runtime' = runtime /\ told' = told /\ changes' = changes
    BY <1>4 DEF vars
  <2>2. q' = q /\ Typed'
    BY <2>1 DEF Typed, q, Inv
  <2>3. \A d : Since(d) => Since(d)'
    BY <2>1, <2>2 DEF Since
  <2> QED BY <2>1, <2>2, <2>3 DEF Inv
<1> QED BY <1>1, <1>2, <1>3, <1>4 DEF Next


-----------------------------------------------------------------------------
(* When nothing is queued, the tables are those that what is kept is for.   *)
LEMMA QuietKept ==
  ASSUME Inv, Quiet
  PROVE  /\ IsQuery(q) /\ IsDatabase(db, q) /\ KeptOf(db, q, result, window, runtime) /\ told = result
<1>1. IsQuery(q) /\ IsDatabase(db, q) /\ Tables(q) \subseteq DOMAIN db
  BY TypedFacts DEF Inv
<1>2. PICK d : Since(d)
  BY DEF Inv, Quiet
<1>3. \A t \in Tables(q) : ids[t] = {}
  BY <1>1 DEF Quiet, Pending, Changed
<1>4. \A t \in Tables(q) : d[t] = db[t]
  <2> TAKE t \in Tables(q)
  <2>1. \A r : r \in d[t] <=> r \in db[t]
    BY <1>2, <1>3 DEF Since, Covered
  <2> QED BY <2>1
<1>5. Alike(d, db, q)
  <2> DEFINE p == q
  <2>1. IsQuery(p) /\ IsDatabase(d, p) /\ IsDatabase(db, p) /\ \A t \in Tables(p) : d[t] = db[t]
    BY <1>1, <1>2, <1>4 DEF Since
  <2> HIDE DEF p
  <2>2. Alike(d, db, p)
    BY <2>1, SameTables
  <2> QED BY <2>2 DEF p
<1>6. KeptOf(db, q, result, window, runtime)
  <2> DEFINE p == q
  <2>1. IsQuery(p) /\ IsDatabase(d, p) /\ IsDatabase(db, p) /\ Alike(d, db, p) /\ KeptOf(d, p, result, window, runtime)
    BY <1>1, <1>2, <1>5 DEF Since
  <2> HIDE DEF p
  <2>2. KeptOf(db, p, result, window, runtime)
    BY <2>1, KeptAlike
  <2> QED BY <2>2 DEF p
<1> QED BY <1>1, <1>6 DEF Inv

LEMMA InvTypeOK == Inv => TypeOK
<1> SUFFICES ASSUME Inv PROVE TypeOK
  OBVIOUS
<1>1. Typed
  BY DEF Inv
<1>2. ASSUME NEW t \in DOMAIN db
      PROVE  /\ \A r \in db[t] : r.id < nextId[t]
             /\ \A r, s \in db[t] : r # s => r.id # s.id /\ r.key # s.key
             /\ ids[t] \in SUBSET (1..MaxId) /\ nextId[t] \in 1..(MaxId + 1)
             /\ {r.id : r \in deltas[t]} = ids[t]
  BY <1>1, MaxIdAssumption DEF Typed, TableOf, QueuedOf
<1>3. (\A o \in ToSet(result) : DOMAIN o = Tables(q)) /\ (Windowed => Len(window) <= CandidateLimit(q))
  <2>1. CASE ~opened
    <3>1. ToSet(<<>>) = {} /\ Len(<<>>) = 0
      BY DEF ToSet
    <3>2. CandidateLimit(q) \in Nat
      BY <1>1, TypedFacts, Limits
    <3> QED BY <2>1, <3>1, <3>2 DEF Inv
  <2>2. CASE opened
    <3>1. PICK d : Since(d)
      BY <2>2 DEF Inv
    <3>2. /\ \A o \in ToSet(result) : DOMAIN o = Tables(q)
          /\ ShowsFirst(q) => Len(window) <= CandidateLimit(q)
      BY <1>1, <3>1, TypedFacts, KeptRows DEF Since
    <3> QED BY <3>2, Ways
  <2> QED BY <2>1, <2>2 DEF Inv, Typed
<1> QED BY <1>1, <1>2, <1>3 DEF TypeOK, Typed

LEMMA InvWindowDeep == Inv => WindowDeep
<1> SUFFICES ASSUME Inv, Quiet, Windowed
             PROVE  /\ ToSet(window) \subseteq ToSet(Whole(db, q))
                    /\ window = InOrder(q, ToSet(window))
                    /\ Len(window) >= MinShadowWindow(q) \/ Len(window) = Len(Whole(db, q))
  BY DEF WindowDeep
<1>1. IsQuery(q) /\ IsDatabase(db, q) /\ WindowOf(db, q, window)
  BY QuietKept, Ways DEF KeptOf
<1>2. ToSet(Whole(db, q)) = WholeSet(db, q)
  BY <1>1, AnswerRows
<1>3. ToSet(window) = WholeSet(db, q) => window = Whole(db, q)
  BY <1>1, WholeFacts DEF WindowOf
<1> QED BY <1>1, <1>2, <1>3 DEF WindowOf

LEMMA NoTwiceLen ==
  ASSUME NEW E, NEW s \in Seq(E), NoTwice(s)
  PROVE  Len(s) = Cardinality(ToSet(s))
<1> DEFINE N == Len(s)
           S == ToSet(s)
<1>1. N \in Nat /\ DOMAIN s = 1..N /\ s = [n \in 1..N |-> s[n]] /\ S = {s[n] : n \in 1..N}
  BY DEF ToSet
<1> HIDE DEF N, S
<1>2. IsFiniteSet(1..N) /\ Cardinality(1..N) = N
  <2>1. \A m, n \in Int : IsFiniteSet(m..n) /\ Cardinality(m..n) = (IF m > n THEN 0 ELSE n - m + 1)
    BY FS_Interval
  <2>2. 1 \in Int /\ N \in Int /\ (1 > N => N = 0) /\ N - 1 + 1 = N
    BY <1>1
  <2> QED BY <2>1, <2>2
<1>3. s \in Bijection(1..N, S)
  BY <1>1 DEF NoTwice, Bijection, Injection, Surjection, IsInjective
<1>4. ExistsBijection(1..N, S)
  BY <1>3 DEF ExistsBijection
<1> QED BY <1>2, <1>4, FS_Bijection DEF N, S

LEMMA InvGroupsCurrent == Inv => GroupsCurrent
<1> SUFFICES ASSUME Inv, Quiet, SubsetRefreshes
             PROVE  /\ runtime.groups = NewRuntime(db, q, Whole(db, q)).groups
                    /\ runtime.keyOf = NewRuntime(db, q, Whole(db, q)).keyOf
                    /\ ToSet(runtime.order) = DOMAIN runtime.groups
                    /\ Len(runtime.order) = Cardinality(DOMAIN runtime.groups)
  BY DEF GroupsCurrent
<1>1. GroupsOf(db, q, runtime)
  BY QuietKept, Ways DEF KeptOf, SubsetRefreshes
<1>2. NewRuntime(db, q, Whole(db, q)).groups = Grouped(q, Whole(db, q)) /\ NewRuntime(db, q, Whole(db, q)).keyOf = KeysOf(db, q)
  BY DEF NewRuntime, KeysOf
<1>3. Len(runtime.order) = Cardinality(ToSet(runtime.order))
  BY <1>1, NoTwiceLen DEF GroupsOf
<1> QED BY <1>1, <1>2, <1>3 DEF GroupsOf

LEMMA InvAnswersCurrent == Inv => AnswersCurrent
<1> SUFFICES ASSUME Inv, Quiet, Windowed => Strays <= q.overscan
             PROVE  Tells(told, Answer(db, q)) /\ told = result
  BY DEF AnswersCurrent
<1>1. IsQuery(q) /\ IsDatabase(db, q) /\ KeptOf(db, q, result, window, runtime) /\ told = result
  BY QuietKept
<1>2. CASE ShowsFirst(q)
  <2>1. StraysOf(window, Whole(db, q)) <= q.overscan
    BY <1>2, Ways DEF Strays, StraysOf
  <2>2. q.limit # 0 /\ WindowOf(db, q, window) /\ result = Visible(q, window)
    BY <1>1, <1>2 DEF KeptOf, ShowsFirst
  <2> DEFINE p == q
  <2>3. IsQuery(p) /\ IsDatabase(db, p) /\ p.limit # 0 /\ WindowOf(db, p, window) /\ StraysOf(window, Whole(db, p)) <= p.overscan
    BY <1>1, <2>1, <2>2
  <2> HIDE DEF p
  <2>4. Visible(p, window) = Answer(db, p)
    BY <2>3, VisibleWindow
  <2>5. result = Answer(db, q)
    BY <2>2, <2>4 DEF p
  <2> QED BY <1>1, <2>5 DEF Tells
<1>3. CASE ShowsAll(q) /\ ~OneTable(q)
  <2> DEFINE W == WholeSet(db, q)
  <2>1. result \in Seq(W) /\ NoTwice(result) /\ ToSet(result) = W
    BY <1>1, <1>3 DEF KeptOf
  <2>2. Whole(db, q) \in Seq(W) /\ NoTwice(Whole(db, q)) /\ ToSet(Whole(db, q)) = W
    BY <1>1, AnswerRows
  <2>3. Answer(db, q) = Whole(db, q) /\ ~q.ordered /\ ~Patchable
    BY <1>3, Ways DEF ShowsAll, Answer, Visible
  <2> HIDE DEF W
  <2>4. ToBag(result) = ToBag(Whole(db, q))
    BY <2>1, <2>2, SameBags
  <2> QED BY <1>1, <2>3, <2>4 DEF Tells
<1>4. CASE ~ShowsFirst(q) /\ (OneTable(q) \/ ~ShowsAll(q))
  <2>1. result = Answer(db, q)
    BY <1>1, <1>4 DEF KeptOf
  <2> QED BY <1>1, <2>1 DEF Tells
<1> QED BY <1>2, <1>3, <1>4

-----------------------------------------------------------------------------
(* Results.                                                                 *)

(* Whatever tables a query joins, and however statements and flushes take   *)
(* turns: since the last flush every changed row is queued with its         *)
(* contents before and after, and what the observable keeps was right for   *)
(* the tables as that flush found them (reactive_bridge.rs on_change_inner).*)
THEOREM InvAlways == Spec => []Inv
<1>1. Init => Inv
  BY InitInv
<1>2. Inv /\ [Next]_vars => Inv'
  BY StepInv
<1> QED BY <1>1, <1>2, PTL DEF Spec

(* Row ids and keys stay unique, the queue has deltas for exactly the ids   *)
(* that it holds, every row of a result has its part of every table, and    *)
(* the window stays within the candidate limit.                             *)
THEOREM AnswersTypeCorrect == Spec => []TypeOK
<1>1. Inv => TypeOK
  BY InvTypeOK
<1> QED BY <1>1, InvAlways, PTL

(* The window holds rows of the answer, in order, and either as many as     *)
(* the shadow window needs or all there are: merging may not lose a row,    *)
(* nor keep one that has gone (reactive_bridge.rs try_partial_refresh).     *)
THEOREM WindowAlwaysDeep == Spec => []WindowDeep
<1>1. Inv => WindowDeep
  BY InvWindowDeep
<1> QED BY <1>1, InvAlways, PTL

(* The groups and keys that the next subset refresh starts from are those   *)
(* that executing the query would give (snapshot_refresh.rs                 *)
(* collect_affected_root_keys, apply_subset_rows).                          *)
THEOREM GroupsAlwaysCurrent == Spec => []GroupsCurrent
<1>1. Inv => GroupsCurrent
  BY InvGroupsCurrent
<1> QED BY <1>1, InvAlways, PTL

(* Once nothing is queued, subscribers have been told the answer of the     *)
(* query, by whichever way on_change took, except where a window holds more *)
(* strays than the overscan (reactive_bridge.rs on_change_inner).           *)
THEOREM AnswersAlwaysCurrent == Spec => []AnswersCurrent
<1>1. Inv => AnswersCurrent
  BY InvAnswersCurrent
<1> QED BY <1>1, InvAlways, PTL

(* The worklist of affected rows never gives up: a row that has gone from a *)
(* joined table is queued with its contents, so that a query without order  *)
(* and limit is not executed again (reactive_bridge.rs                      *)
(* collect_affected_root_row_ids).                                          *)
THEOREM ChangesAlwaysKnown == Spec => []Known
<1>1. Inv => Known
  BY AlwaysKnown DEF Inv
<1> QED BY <1>1, InvAlways, PTL

=============================================================================
