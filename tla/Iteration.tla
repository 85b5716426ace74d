----------------------------- MODULE Iteration -----------------------------
(***************************************************************************)
(* Lemmas for definitions that fold a step over a sequence: a journal, a   *)
(* batch of deltas, the rows of a table.  Such a definition is a recursive *)
(* function f[n \in 0..N]; these lemmas say that it exists, and carry a    *)
(* fact from one position to the next.  Induction is stated over sets of   *)
(* numbers, so that it can be used with any property.                      *)
(***************************************************************************)
EXTENDS Integers, Sequences, WellFoundedInduction, TLAPS

(* Every non-empty set of natural numbers has a least element. *)
LEMMA LeastNatural ==
  ASSUME NEW S, S \subseteq Nat, S # {}
  PROVE  \E m \in S : \A n \in S : m <= n
<1>1. IsWellFoundedOn(OpToRel(<, Nat), Nat)
  BY NatLessThanWellFounded, Zenon
<1>2. PICK m \in S : \A n \in S : ~(<<n, m>> \in OpToRel(<, Nat))
  BY <1>1, WFMin, Zenon
<1>3. \A n \in S : ~(n < m)
  BY <1>2 DEF OpToRel
<1> QED BY <1>3

(* Induction up to N: what holds at 0 and is carried to each next position *)
(* holds everywhere.                                                       *)
LEMMA StepByStep ==
  ASSUME NEW N \in Nat, NEW P, 0 \in P, \A n \in 1..N : n - 1 \in P => n \in P
  PROVE  0..N \subseteq P
<1> SUFFICES ASSUME (0..N) \ P # {} PROVE FALSE
  OBVIOUS
<1> DEFINE Missing == (0..N) \ P
<1>0. Missing \subseteq Nat /\ Missing # {}
  OBVIOUS
<1>1. PICK m \in Missing : \A n \in Missing : m <= n
  BY <1>0, LeastNatural, Zenon
<1>2. m \in 1..N
  BY <1>1
<1>3. m - 1 \in 0..N /\ ~(m <= m - 1)
  BY <1>2
<1> QED BY <1>1, <1>2, <1>3

(* G[n] is the n-th of N steps on S, and f holds their results from a on. *)
Steps(G, S, N) == G \in [1..N -> [S -> S]]
Iterates(f, G, S, N, a) == f \in [0..N -> S] /\ f[0] = a /\ \A n \in 1..N : f[n] = G[n][f[n - 1]]

\* The first N steps of G and of H are the same.
SameSteps(G, H, S, N) == \A n \in 1..N, x \in S : G[n][x] = H[n][x]

(* Steps on S can be iterated from any element of it. *)
LEMMA IterationExists ==
  ASSUME NEW S, NEW N \in Nat, NEW a \in S, NEW G, Steps(G, S, N)
  PROVE  \E f : Iterates(f, G, S, N, a)
<1> USE DEF Steps, Iterates
<1> DEFINE Good(f, k) == f[0] = a /\ \A n \in 1..k : f[n] = G[n][f[n - 1]]
           P == {k \in 0..N : \E f \in [0..k -> S] : Good(f, k)}
<1>1. 0 \in P
  <2> DEFINE f == [n \in 0..0 |-> a]
  <2>1. f \in [0..0 -> S] /\ Good(f, 0)
    OBVIOUS
  <2>2. 0 \in 0..N
    OBVIOUS
  <2> HIDE DEF f, Good
  <2> QED BY <2>1, <2>2
<1>2. ASSUME NEW k \in 1..N, k - 1 \in P PROVE k \in P
  <2>1. PICK f \in [0..(k - 1) -> S] : Good(f, k - 1)
    BY <1>2
  <2> DEFINE h == [n \in 0..k |-> IF n < k THEN f[n] ELSE G[k][f[k - 1]]]
  <2>2. f[k - 1] \in S
    BY <2>1
  <2>3. G[k][f[k - 1]] \in S
    BY <2>2
  <2>4. h \in [0..k -> S]
    BY <2>1, <2>3
  <2>5. h[0] = a
    BY <2>1
  <2>6. ASSUME NEW n \in 1..k PROVE h[n] = G[n][h[n - 1]]
    <3>1. h[n - 1] = f[n - 1]
      OBVIOUS
    <3>2. CASE n < k
      BY <2>1, <3>1, <3>2
    <3>3. CASE n = k
      <4>1. h[k] = G[k][f[k - 1]]
        OBVIOUS
      <4> QED BY <3>1, <3>3, <4>1
    <3>4. n < k \/ n = k
      OBVIOUS
    <3> QED BY <3>2, <3>3, <3>4
  <2> HIDE DEF h
  <2>7. Good(h, k) /\ k \in 0..N
    BY <2>5, <2>6
  <2> HIDE DEF Good
  <2> QED BY <2>4, <2>7
<1> HIDE DEF P
<1>3. 0..N \subseteq P
  BY <1>1, <1>2, StepByStep
<1>4. N \in P
  BY <1>3
<1> QED BY <1>4 DEF P

(* What starts in S and is carried on by the steps wherever it is in S is  *)
(* the iteration of the steps.                                             *)
LEMMA IterationIs ==
  ASSUME NEW S, NEW N \in Nat, NEW a \in S, NEW G, Steps(G, S, N),
         NEW f, f = [n \in 0..N |-> f[n]], f[0] = a,
         \A n \in 1..N : f[n - 1] \in S => f[n] = G[n][f[n - 1]]
  PROVE  Iterates(f, G, S, N, a)
<1> DEFINE P == {n \in 0..N : f[n] \in S}
<1>1. 0 \in P
  OBVIOUS
<1>2. ASSUME NEW n \in 1..N, n - 1 \in P PROVE n \in P
  <2>1. f[n - 1] \in S /\ G[n] \in [S -> S]
    BY <1>2 DEF Steps
  <2>2. f[n] \in S /\ n \in 0..N
    BY <2>1
  <2> QED BY <2>2
<1> HIDE DEF P
<1>3. 0..N \subseteq P
  BY <1>1, <1>2, StepByStep
<1>4. \A n \in 0..N : f[n] \in S
  BY <1>3 DEF P
<1>5. \A n \in 1..N : n - 1 \in 0..N
  OBVIOUS
<1> QED BY <1>4, <1>5 DEF Iterates

(* Iterations that begin with the same steps begin with the same results.  *)
LEMMA IterationAgrees ==
  ASSUME NEW S, NEW N \in Nat, NEW M \in Nat, N <= M, NEW a, NEW G, NEW H, NEW f, NEW h,
         Iterates(f, G, S, N, a), Iterates(h, H, S, M, a),
         SameSteps(G, H, S, N)
  PROVE  \A n \in 0..N : h[n] = f[n]
<1> DEFINE P == {n \in 0..N : h[n] = f[n]}
<1>1. 0 \in P
  BY DEF Iterates
<1>2. ASSUME NEW n \in 1..N, n - 1 \in P PROVE n \in P
  <2>1. n \in 1..M /\ n - 1 \in 0..N /\ h[n - 1] = f[n - 1]
    BY <1>2
  <2>2. f[n - 1] \in S /\ f[n] = G[n][f[n - 1]]
    BY <2>1 DEF Iterates
  <2>3. h[n] = H[n][h[n - 1]]
    BY <2>1 DEF Iterates
  <2>4. h[n] = f[n] /\ n \in 0..N
    BY <2>1, <2>2, <2>3 DEF SameSteps
  <2> QED BY <2>4
<1> HIDE DEF P
<1>3. 0..N \subseteq P
  BY <1>1, <1>2, StepByStep
<1> QED BY <1>3 DEF P

(* Induction over sequences: what holds of the empty sequence and is kept  *)
(* by every Append holds of every sequence.                                *)
LEMMA AppendByAppend ==
  ASSUME NEW S, NEW P, <<>> \in P, \A s \in Seq(S), e \in S : s \in P => Append(s, e) \in P
  PROVE  Seq(S) \subseteq P
<1> SUFFICES ASSUME NEW s \in Seq(S) PROVE s \in P
  OBVIOUS
<1> DEFINE N == Len(s)
           Q == {n \in 0..N : SubSeq(s, 1, n) \in P}
<1>1. N \in Nat /\ SubSeq(s, 1, 0) = <<>> /\ SubSeq(s, 1, N) = s
  OBVIOUS
<1>2. 0 \in Q
  <2>1. 0 \in 0..N
    BY <1>1
  <2>2. SubSeq(s, 1, 0) \in P
    BY <1>1, Zenon
  <2> QED BY <2>1, <2>2, Zenon
<1>3. ASSUME NEW n \in 1..N, n - 1 \in Q PROVE n \in Q
  <2>1. SubSeq(s, 1, n - 1) \in Seq(S) /\ s[n] \in S
    OBVIOUS
  <2>2. SubSeq(s, 1, n) = Append(SubSeq(s, 1, n - 1), s[n])
    OBVIOUS
  <2>3. SubSeq(s, 1, n) \in P
    BY <1>3, <2>1, <2>2
  <2> QED BY <2>3
<1> HIDE DEF Q, N
<1>4. 0..N \subseteq Q
  BY <1>1, <1>2, <1>3, StepByStep
<1>5. N \in Q
  BY <1>1, <1>4
<1> QED BY <1>1, <1>5 DEF Q
=============================================================================
