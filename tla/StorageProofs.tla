--------------------------- MODULE StorageProofs ---------------------------
(***************************************************************************)
(* Proofs about how a table is stored: the dense row slots (RowSlots) and, *)
(* in the second half, the hash index of its keys (HashIndex).             *)
(*                                                                         *)
(* The slot map and the scan order stay exact for any number of rows, row  *)
(* ids and contents.  Neither invariant is inductive alone: a removal looks*)
(* the row to repoint up in the scan order, and an insertion finds its     *)
(* place in the order through the slots, so the two are proved together.   *)
(*                                                                         *)
(* The hash index keeps what KeyIndex promises, for any keys and rows and  *)
(* any batch of pairs.  The refinement needs that no key is left without   *)
(* rows, which is its inductive invariant.                                 *)
(***************************************************************************)
EXTENDS RowSlots, WellFoundedInduction, TLAPS

IInv == TypeOK /\ SlotMapExact /\ ScanInIdOrder

-----------------------------------------------------------------------------
(* Facts about numbers and sequences. *)

(* Every non-empty set of natural numbers has a least element: what makes  *)
(* the binary search for an insertion position well defined.               *)
LEMMA LeastNatural ==
  ASSUME NEW T, T \subseteq Nat, T # {}
  PROVE  \E m \in T : \A n \in T : m <= n
<1>1. IsWellFoundedOn(OpToRel(<, Nat), Nat)
  BY NatLessThanWellFounded, Zenon
<1>2. PICK m \in T : \A n \in T : ~(<<n, m>> \in OpToRel(<, Nat))
  BY <1>1, WFMin, Zenon
<1>3. \A n \in T : ~(n < m)
  BY <1>2 DEF OpToRel
<1> QED BY <1>3

(* A function on 1..n is a sequence of length n. *)
LEMMA SeqOfFunction ==
  ASSUME NEW S, NEW n \in Nat, NEW f \in [1..n -> S]
  PROVE  f \in Seq(S) /\ Len(f) = n
BY SMT

(* Inserting an element into a sequence. *)
LEMMA InsertAtPosFacts ==
  ASSUME NEW S, NEW s \in Seq(S), NEW p \in 1..(Len(s) + 1), NEW e \in S
  PROVE  /\ InsertAtPos(s, p, e) \in Seq(S)
         /\ Len(InsertAtPos(s, p, e)) = Len(s) + 1
         /\ \A q \in 1..(Len(s) + 1) :
              InsertAtPos(s, p, e)[q] = IF q < p THEN s[q] ELSE IF q = p THEN e ELSE s[q - 1]
<1> DEFINE f == InsertAtPos(s, p, e)
<1>1. f \in [1..(Len(s) + 1) -> S]
  BY DEF InsertAtPos
<1>2. f \in Seq(S) /\ Len(f) = Len(s) + 1
  BY <1>1, SeqOfFunction, Len(s) + 1 \in Nat
<1>3. \A q \in 1..(Len(s) + 1) : f[q] = IF q < p THEN s[q] ELSE IF q = p THEN e ELSE s[q - 1]
  BY DEF InsertAtPos
<1> QED BY <1>2, <1>3

(* Removing an element from a sequence. *)
LEMMA RemoveAtPosFacts ==
  ASSUME NEW S, NEW s \in Seq(S), NEW p \in 1..Len(s)
  PROVE  /\ RemoveAtPos(s, p) \in Seq(S)
         /\ Len(RemoveAtPos(s, p)) = Len(s) - 1
         /\ \A q \in 1..(Len(s) - 1) : RemoveAtPos(s, p)[q] = IF q < p THEN s[q] ELSE s[q + 1]
<1> DEFINE f == RemoveAtPos(s, p)
<1>0. Len(s) - 1 \in Nat
  OBVIOUS
<1>1. f \in [1..(Len(s) - 1) -> S]
  BY DEF RemoveAtPos
<1>2. f \in Seq(S) /\ Len(f) = Len(s) - 1
  BY <1>0, <1>1, SeqOfFunction
<1>3. \A q \in 1..(Len(s) - 1) : f[q] = IF q < p THEN s[q] ELSE s[q + 1]
  BY DEF RemoveAtPos
<1> QED BY <1>2, <1>3

(* Types a reader would take for granted, stated once. *)
LEMMA SlotFacts ==
  ASSUME IInv
  PROVE  /\ Len(slots) \in Nat /\ Len(scan) = Len(slots)
         /\ \A s \in 1..Len(slots) : slots[s] \in Slot /\ slots[s].id \in RowId
         /\ \A p \in 1..Len(scan) : scan[p] \in 1..Len(slots) /\ IdAt(p) \in RowId
         /\ \A p \in 1..Len(scan) : IdAt(p) \in DOMAIN slotOf
         /\ \A id \in DOMAIN slotOf : slotOf[id] \in 1..Len(slots) /\ id \in RowId
<1>1. slots \in Seq(Slot) /\ Len(slots) \in Nat /\ Len(scan) = Len(slots)
  BY DEF IInv, TypeOK, ScanInIdOrder
<1>2. \A s \in 1..Len(slots) : slots[s] \in Slot
  BY <1>1
<1>3. \A s \in 1..Len(slots) : slots[s].id \in RowId /\ slots[s].id \in DOMAIN slotOf
  BY <1>2 DEF Slot, IInv, SlotMapExact
<1>4. \A p \in 1..Len(scan) : scan[p] \in 1..Len(slots)
  BY DEF IInv, TypeOK
<1>5. \A p \in 1..Len(scan) : IdAt(p) \in RowId /\ IdAt(p) \in DOMAIN slotOf
  BY <1>3, <1>4 DEF IdAt
<1>6. \A id \in DOMAIN slotOf : slotOf[id] \in 1..Len(slots) /\ id \in RowId
  BY DEF IInv, TypeOK
<1> QED BY <1>1, <1>2, <1>3, <1>4, <1>5, <1>6

-----------------------------------------------------------------------------
(* The binary searches find what they look for. *)

(* An id that is not stored has a place between its neighbours. *)
LEMMA InsertPositionFacts ==
  ASSUME IInv, NEW id \in RowId, id \notin DOMAIN slotOf
  PROVE  /\ InsertPosition(id) \in 1..(Len(scan) + 1)
         /\ \A q \in 1..(InsertPosition(id) - 1) : IdAt(q) < id
         /\ \A q \in InsertPosition(id)..Len(scan) : IdAt(q) > id
<1> DEFINE T == {p \in 1..Len(scan) : IdAt(p) > id}
           Splits(p) == /\ \A q \in 1..(p - 1) : IdAt(q) < id
                        /\ \A q \in p..Len(scan) : IdAt(q) > id
<1>1. /\ Len(scan) \in Nat
      /\ \A p \in 1..Len(scan) : IdAt(p) \in Nat /\ IdAt(p) # id
      /\ id \in Nat
  BY SlotFacts, RowIdAssumption
<1>2. \A p, q \in 1..Len(scan) : p < q => IdAt(p) < IdAt(q)
  BY DEF IInv, ScanInIdOrder
<1> HIDE DEF T
<1>3. \E p \in 1..(Len(scan) + 1) : Splits(p)
  <2>1. CASE T = {}
    <3>1. \A q \in 1..Len(scan) : IdAt(q) < id
      BY <2>1, <1>1 DEF T
    <3>2. Splits(Len(scan) + 1)
      BY <3>1, <1>1
    <3> QED BY <3>2, <1>1
  <2>2. CASE T # {}
    <3>1. T \subseteq Nat
      BY DEF T
    <3>2. PICK m \in T : \A n \in T : m <= n
      BY <2>2, <3>1, LeastNatural
    <3>3. m \in 1..Len(scan) /\ IdAt(m) > id
      BY <3>2 DEF T
    <3>4. \A q \in 1..(m - 1) : q \in 1..Len(scan) /\ q \notin T
      BY <3>2, <3>3, <1>1
    <3>5. \A q \in 1..(m - 1) : IdAt(q) < id
      BY <3>4, <1>1 DEF T
    <3>6. \A q \in m..Len(scan) : IdAt(q) > id
      <4> SUFFICES ASSUME NEW q \in m..Len(scan) PROVE IdAt(q) > id
        OBVIOUS
      <4>1. q = m \/ IdAt(m) < IdAt(q)
        BY <3>3, <1>2, <1>1
      <4> QED BY <4>1, <3>3, <1>1
    <3> QED BY <3>3, <3>5, <3>6, <1>1
  <2> QED BY <2>1, <2>2
<1>4. InsertPosition(id) = CHOOSE p \in 1..(Len(scan) + 1) : Splits(p)
  BY DEF InsertPosition
<1>5. InsertPosition(id) \in 1..(Len(scan) + 1) /\ Splits(InsertPosition(id))
  BY <1>3, <1>4
<1> QED BY <1>5

(* A stored id is found, at the position of its slot. *)
LEMMA ScanPositionFacts ==
  ASSUME IInv, NEW id \in DOMAIN slotOf
  PROVE  /\ ScanPosition(id) \in 1..Len(scan)
         /\ IdAt(ScanPosition(id)) = id
         /\ scan[ScanPosition(id)] = slotOf[id]
         /\ \A p \in 1..Len(scan) : IdAt(p) = id => p = ScanPosition(id)
<1>1. slotOf[id] \in 1..Len(slots) /\ slots[slotOf[id]].id = id
  BY SlotFacts DEF IInv, SlotMapExact
<1>2. \E p \in 1..Len(scan) : IdAt(p) = id
  BY <1>1 DEF IInv, ScanInIdOrder, IdAt
<1>3. ScanPosition(id) \in 1..Len(scan) /\ IdAt(ScanPosition(id)) = id
  BY <1>2 DEF ScanPosition
<1>4. scan[ScanPosition(id)] \in 1..Len(slots) /\ slots[scan[ScanPosition(id)]].id = id
  BY <1>3, SlotFacts DEF IdAt
<1>5. scan[ScanPosition(id)] = slotOf[id]
  BY <1>4 DEF IInv, SlotMapExact
<1>6. \A p, q \in 1..Len(scan) : p # q => IdAt(p) # IdAt(q)
  <2>1. \A p \in 1..Len(scan) : IdAt(p) \in Nat
    BY SlotFacts, RowIdAssumption
  <2>2. \A p, q \in 1..Len(scan) : p < q => IdAt(p) < IdAt(q)
    BY DEF IInv, ScanInIdOrder
  <2>3. Len(scan) \in Nat
    BY SlotFacts
  <2> QED BY <2>1, <2>2, <2>3
<1> QED BY <1>3, <1>5, <1>6

-----------------------------------------------------------------------------
(* Each helper preserves the invariant. *)

LEMMA InitInv == Init => IInv
<1> SUFFICES ASSUME Init PROVE IInv
  OBVIOUS
<1>1. slots = <<>> /\ slotOf = <<>> /\ scan = <<>> /\ DOMAIN slotOf = {}
  BY DEF Init
<1> QED BY <1>1, SeqOfFunction DEF IInv, TypeOK, SlotMapExact, ScanInIdOrder

(* What an insertion leaves behind, whichever way the row is scanned. *)
LEMMA InsertSlotEffect ==
  ASSUME IInv, NEW id \in RowId, NEW c \in Content, InsertRowSlot(id, c)
  PROVE  /\ slots' \in Seq(Slot)
         /\ Len(slots') = Len(slots) + 1
         /\ \A i \in 1..Len(slots) : slots'[i] = slots[i]
         /\ slots'[Len(slots) + 1].id = id
         /\ DOMAIN slotOf' = DOMAIN slotOf \cup {id}
         /\ slotOf'[id] = Len(slots) + 1
         /\ \A x \in DOMAIN slotOf : slotOf'[x] = slotOf[x]
BY DEF IInv, TypeOK, Slot, InsertRowSlot, Put

LEMMA InsertRowSlotInv ==
  ASSUME IInv, NEW id \in RowId, NEW c \in Content, InsertRowSlot(id, c)
  PROVE  IInv'
<1> DEFINE n == Len(slots)
<1>1. n \in Nat /\ Len(scan) = n /\ n + 1 \in 1..(n + 1) /\ id \notin DOMAIN slotOf
  BY SlotFacts DEF InsertRowSlot
<1>2. slots' \in Seq(Slot) /\ Len(slots') = n + 1
  BY InsertSlotEffect
<1>3. /\ \A i \in 1..n : slots'[i] = slots[i]
      /\ slots'[n + 1].id = id
      /\ DOMAIN slotOf' = DOMAIN slotOf \cup {id}
      /\ slotOf'[id] = n + 1
      /\ \A x \in DOMAIN slotOf : slotOf'[x] = slotOf[x]
  BY InsertSlotEffect
<1>4. /\ \A x \in DOMAIN slotOf : slotOf[x] \in 1..n
      /\ \A x \in DOMAIN slotOf : slots[slotOf[x]].id = x
      /\ \A i \in 1..n : slots[i].id \in DOMAIN slotOf /\ slotOf[slots[i].id] = i
  BY SlotFacts DEF IInv, SlotMapExact
<1>5. id \in Nat /\ \A p \in 1..n : scan[p] \in 1..n /\ IdAt(p) \in Nat
  BY <1>1, SlotFacts, RowIdAssumption
<1>r. \A p \in 1..n : slots'[scan[p]].id = IdAt(p)
  BY <1>3, <1>5 DEF IdAt
<1>o. \A p, q \in 1..n : p < q => IdAt(p) < IdAt(q)
  BY <1>1 DEF IInv, ScanInIdOrder
<1>e. \A i \in 1..n : \E p \in 1..n : scan[p] = i
  BY <1>1 DEF IInv, ScanInIdOrder
<1>0. scan \in Seq(1..n) /\ scan \in Seq(1..(n + 1))
  BY <1>1 DEF IInv, TypeOK
<1>p. ~AppendOnly(id) =>
        /\ InsertPosition(id) \in 1..(n + 1)
        /\ \A q \in 1..(InsertPosition(id) - 1) : IdAt(q) < id
        /\ \A q \in InsertPosition(id)..n : IdAt(q) > id
        /\ scan' = InsertAtPos(scan, InsertPosition(id), n + 1)
  BY <1>1, InsertPositionFacts DEF InsertRowSlot
<1>a. AppendOnly(id) => scan' = Append(scan, n + 1) /\ (n = 0 \/ IdAt(n) < id)
  BY <1>1 DEF InsertRowSlot, AppendOnly
<1>s. slotOf' = [x \in DOMAIN slotOf' |-> slotOf'[x]]
  BY DEF InsertRowSlot, Put
<1> HIDE DEF n
<1>6. SlotMapExact'
  <2>1. \A x \in DOMAIN slotOf' : slots'[slotOf'[x]].id = x
    BY <1>1, <1>3, <1>4
  <2>2. \A i \in 1..(n + 1) : slots'[i].id \in DOMAIN slotOf' /\ slotOf'[slots'[i].id] = i
    <3> SUFFICES ASSUME NEW i \in 1..(n + 1)
                 PROVE  slots'[i].id \in DOMAIN slotOf' /\ slotOf'[slots'[i].id] = i
      OBVIOUS
    <3>1. CASE i = n + 1
      BY <3>1, <1>3
    <3>2. CASE i \in 1..n
      BY <3>2, <1>3, <1>4
    <3> QED BY <3>1, <3>2, <1>1
  <2> QED BY <2>1, <2>2, <1>2 DEF SlotMapExact
<1>7. /\ scan' \in Seq(1..(n + 1)) /\ Len(scan') = n + 1
      /\ \A p, q \in 1..(n + 1) : p < q => slots'[scan'[p]].id < slots'[scan'[q]].id
      /\ \A i \in 1..(n + 1) : \E p \in 1..(n + 1) : scan'[p] = i
  <2>6. CASE AppendOnly(id)
    <3>1. scan' = Append(scan, n + 1)
      BY <2>6, <1>a
    <3>2. /\ scan' \in Seq(1..(n + 1)) /\ Len(scan') = n + 1
          /\ \A p \in 1..n : scan'[p] = scan[p]
          /\ scan'[n + 1] = n + 1
      BY <3>1, <1>0, <1>1
    <3>3. \A p \in 1..n : IdAt(p) < id
      <4> SUFFICES ASSUME NEW p \in 1..n PROVE IdAt(p) < id
        OBVIOUS
      <4>1. n \in 1..n /\ IdAt(n) < id
        BY <1>1, <2>6, <1>a
      <4>2. p = n \/ IdAt(p) < IdAt(n)
        BY <4>1, <1>o, <1>1
      <4> QED BY <4>1, <4>2, <1>5
    <3>4. \A p, q \in 1..(n + 1) : p < q => slots'[scan'[p]].id < slots'[scan'[q]].id
      <4> SUFFICES ASSUME NEW p \in 1..(n + 1), NEW q \in 1..(n + 1), p < q
                   PROVE  slots'[scan'[p]].id < slots'[scan'[q]].id
        OBVIOUS
      <4>0. p \in 1..n
        BY <1>1
      <4>1. slots'[scan'[p]].id = IdAt(p)
        BY <4>0, <3>2, <1>r
      <4>2. CASE q = n + 1
        <5>1. slots'[scan'[q]].id = id
          BY <4>2, <3>2, <1>3
        <5> QED BY <5>1, <4>0, <4>1, <3>3
      <4>3. CASE q \in 1..n
        <5>1. slots'[scan'[q]].id = IdAt(q)
          BY <4>3, <3>2, <1>r
        <5> QED BY <5>1, <4>0, <4>1, <4>3, <1>o
      <4> QED BY <4>2, <4>3, <1>1
    <3>5. \A i \in 1..(n + 1) : \E p \in 1..(n + 1) : scan'[p] = i
      <4> SUFFICES ASSUME NEW i \in 1..(n + 1) PROVE \E p \in 1..(n + 1) : scan'[p] = i
        OBVIOUS
      <4>1. CASE i = n + 1
        BY <4>1, <3>2
      <4>2. CASE i \in 1..n
        <5>1. PICK p \in 1..n : scan[p] = i
          BY <4>2, <1>e
        <5> QED BY <5>1, <3>2, <1>1
      <4> QED BY <4>1, <4>2, <1>1
    <3> QED BY <3>2, <3>4, <3>5
  <2>7. CASE ~AppendOnly(id)
    <3> DEFINE r == InsertPosition(id)
    <3>1. /\ r \in 1..(n + 1)
          /\ \A q \in 1..(r - 1) : IdAt(q) < id
          /\ \A q \in r..n : IdAt(q) > id
      BY <2>7, <1>p
    <3>2. scan' = InsertAtPos(scan, r, n + 1)
      BY <2>7, <1>p
    <3> HIDE DEF r
    <3>3. /\ scan' \in Seq(1..(n + 1)) /\ Len(scan') = n + 1
          /\ \A q \in 1..(n + 1) :
               scan'[q] = IF q < r THEN scan[q] ELSE IF q = r THEN n + 1 ELSE scan[q - 1]
      <4> DEFINE S == 1..(n + 1)
      <4>1. r \in 1..(Len(scan) + 1) /\ scan \in Seq(S) /\ n + 1 \in S
        BY <3>1, <1>0, <1>1
      <4> HIDE DEF S
      <4>2. /\ InsertAtPos(scan, r, n + 1) \in Seq(S)
            /\ Len(InsertAtPos(scan, r, n + 1)) = Len(scan) + 1
            /\ \A q \in 1..(Len(scan) + 1) : InsertAtPos(scan, r, n + 1)[q] =
                 IF q < r THEN scan[q] ELSE IF q = r THEN n + 1 ELSE scan[q - 1]
        BY <4>1, InsertAtPosFacts
      <4>3. /\ scan' \in Seq(S) /\ Len(scan') = n + 1
            /\ \A q \in 1..(n + 1) :
                 scan'[q] = IF q < r THEN scan[q] ELSE IF q = r THEN n + 1 ELSE scan[q - 1]
        BY <4>2, <3>2, <1>1
      <4> QED BY <4>3 DEF S
    <3>4. \A q \in 1..(n + 1) :
            slots'[scan'[q]].id = IF q < r THEN IdAt(q) ELSE IF q = r THEN id ELSE IdAt(q - 1)
      <4> SUFFICES ASSUME NEW q \in 1..(n + 1)
                   PROVE  slots'[scan'[q]].id =
                            IF q < r THEN IdAt(q) ELSE IF q = r THEN id ELSE IdAt(q - 1)
        OBVIOUS
      <4>1. CASE q < r
        <5>1. q \in 1..n
          BY <4>1, <3>1, <1>1
        <5>2. scan'[q] = scan[q]
          BY <4>1, <3>3
        <5> QED BY <5>1, <5>2, <4>1, <1>r
      <4>2. CASE q = r
        BY <4>2, <3>1, <3>3, <1>3
      <4>3. CASE q > r
        <5>1. q - 1 \in 1..n
          BY <4>3, <3>1, <1>1
        <5>2. scan'[q] = scan[q - 1] /\ ~(q < r) /\ q # r
          BY <4>3, <3>1, <3>3
        <5> QED BY <5>1, <5>2, <1>r
      <4> QED BY <4>1, <4>2, <4>3, <3>1, <1>1
    <3>5. \A p, q \in 1..(n + 1) : p < q => slots'[scan'[p]].id < slots'[scan'[q]].id
      <4> SUFFICES ASSUME NEW p \in 1..(n + 1), NEW q \in 1..(n + 1), p < q
                   PROVE  slots'[scan'[p]].id < slots'[scan'[q]].id
        OBVIOUS
      <4>1. CASE q < r
        BY <4>1, <3>1, <3>4, <1>o, <1>1
      <4>2. CASE q = r
        <5>1. p \in 1..(r - 1)
          BY <4>2, <3>1, <1>1
        <5> QED BY <5>1, <4>2, <3>1, <3>4
      <4>3. CASE q > r /\ p < r
        <5>1. p \in 1..(r - 1) /\ q - 1 \in r..n /\ p \in 1..n /\ q - 1 \in 1..n
          BY <4>3, <3>1, <1>1
        <5>2. IdAt(p) < id /\ id < IdAt(q - 1)
          BY <5>1, <3>1, <1>5
        <5> QED BY <5>1, <5>2, <4>3, <3>1, <3>4, <1>5
      <4>4. CASE q > r /\ p = r
        <5>1. q - 1 \in r..n /\ q - 1 \in 1..n
          BY <4>4, <3>1, <1>1
        <5> QED BY <5>1, <4>4, <3>1, <3>4, <1>5
      <4>5. CASE q > r /\ p > r
        <5>1. p - 1 \in 1..n /\ q - 1 \in 1..n /\ p - 1 < q - 1
          BY <4>5, <3>1, <1>1
        <5> QED BY <5>1, <4>5, <3>1, <3>4, <1>o
      <4> QED BY <4>1, <4>2, <4>3, <4>4, <4>5, <3>1
    <3>6. \A i \in 1..(n + 1) : \E p \in 1..(n + 1) : scan'[p] = i
      <4> SUFFICES ASSUME NEW i \in 1..(n + 1) PROVE \E p \in 1..(n + 1) : scan'[p] = i
        OBVIOUS
      <4>1. CASE i = n + 1
        BY <4>1, <3>1, <3>3
      <4>2. CASE i \in 1..n
        <5>1. PICK p \in 1..n : scan[p] = i
          BY <4>2, <1>e
        <5>2. CASE p < r
          BY <5>1, <5>2, <3>1, <3>3, <1>1
        <5>3. CASE p >= r
          <6>1. p + 1 \in 1..(n + 1) /\ scan'[p + 1] = i
            BY <5>1, <5>3, <3>1, <3>3, <1>1
          <6> QED BY <6>1
        <5> QED BY <5>2, <5>3, <3>1
      <4> QED BY <4>1, <4>2, <1>1
    <3> QED BY <3>3, <3>5, <3>6
  <2> QED BY <2>6, <2>7
<1>8. ScanInIdOrder'
  BY <1>2, <1>7 DEF ScanInIdOrder, IdAt
<1>9. TypeOK'
  <2>1. DOMAIN slotOf' \in SUBSET RowId
    BY <1>3 DEF IInv, TypeOK
  <2>2. slotOf' \in [DOMAIN slotOf' -> 1..(n + 1)]
    <3>1. \A x \in DOMAIN slotOf' : slotOf'[x] \in 1..(n + 1)
      BY <1>1, <1>3, <1>4
    <3> QED BY <3>1, <1>s
  <2> QED BY <2>1, <2>2, <1>2, <1>7 DEF TypeOK
<1> QED BY <1>6, <1>8, <1>9 DEF IInv

LEMMA ReplaceRowSlotInv ==
  ASSUME IInv, NEW id \in RowId, NEW c \in Content, ReplaceRowSlot(id, c)
  PROVE  IInv'
<1>1. slotOf[id] \in 1..Len(slots) /\ slotOf' = slotOf /\ scan' = scan
  BY SlotFacts DEF ReplaceRowSlot
<1>2. /\ slots' \in Seq(Slot) /\ Len(slots') = Len(slots)
      /\ \A s \in 1..Len(slots) : slots'[s].id = slots[s].id
  <2> DEFINE t == slotOf[id]
             row == [slots[t] EXCEPT !.c = c]
  <2>1. t \in 1..Len(slots) /\ slots \in Seq(Slot) /\ slots[t] \in Slot
    BY <1>1, SlotFacts DEF IInv, TypeOK
  <2>2. row \in Slot /\ row.id = slots[t].id
    BY <2>1 DEF Slot
  <2>3. slots' = [slots EXCEPT ![t] = row]
    BY DEF ReplaceRowSlot
  <2> HIDE DEF t, row
  <2>4. slots' \in Seq(Slot) /\ Len(slots') = Len(slots)
    BY <2>1, <2>2, <2>3
  <2>5. \A i \in 1..Len(slots) : slots'[i] = IF i = t THEN row ELSE slots[i]
    BY <2>1, <2>3
  <2> QED BY <2>2, <2>4, <2>5
<1>3. TypeOK'
  BY <1>1, <1>2 DEF IInv, TypeOK
<1>4. SlotMapExact'
  BY <1>1, <1>2, SlotFacts DEF IInv, SlotMapExact
<1>5. ScanInIdOrder'
  BY <1>1, <1>2, SlotFacts DEF IInv, ScanInIdOrder, IdAt
<1> QED BY <1>3, <1>4, <1>5 DEF IInv

(* A removal, seen through the scan order: position q of the new order     *)
(* shows the id that position q or q + 1 showed before.                    *)
LEMMA RemoveRowSlotInv ==
  ASSUME IInv, NEW id \in RowId, RemoveRowSlot(id)
  PROVE  IInv'
<1> DEFINE n == Len(slots)
           s == slotOf[id]
           movedId == slots[n].id
           r == ScanPosition(id)
           mv == ScanPosition(movedId)
           rest == RemoveAtPos(scan, r)
           others == [x \in DOMAIN slotOf \ {id} |-> slotOf[x]]
           m == MovedScanPosition(r, mv)
<1>1. id \in DOMAIN slotOf /\ s \in 1..n /\ n \in Nat /\ n - 1 \in Nat /\ n \in 1..n /\ Len(scan) = n
  BY SlotFacts DEF RemoveRowSlot
<1>2. movedId \in DOMAIN slotOf /\ slotOf[movedId] = n /\ slots[s].id = id
  BY <1>1 DEF IInv, SlotMapExact
<1>3. /\ r \in 1..n /\ scan[r] = s /\ IdAt(r) = id
      /\ mv \in 1..n /\ scan[mv] = n
      /\ \A p \in 1..n : IdAt(p) = id => p = r
      /\ \A p \in 1..n : IdAt(p) = movedId => p = mv
  BY <1>1, <1>2, ScanPositionFacts
<1>4. \A p \in 1..n : scan[p] = s => p = r
  BY <1>1, <1>2, <1>3 DEF IdAt
<1>5. \A p \in 1..n : scan[p] = n => p = mv
  BY <1>1, <1>3 DEF IdAt
<1>6. /\ slots' = SwapRemove(s)
      /\ s = n => slotOf' = others /\ scan' = rest
      /\ s # n => /\ slotOf' = [others EXCEPT ![movedId] = s]
                  /\ scan' = [rest EXCEPT ![m] = s]
  BY DEF RemoveRowSlot
<1>7. /\ slots' \in Seq(Slot) /\ Len(slots') = n - 1
      /\ \A i \in 1..(n - 1) : slots'[i] = IF i = s THEN slots[n] ELSE slots[i]
  <2>1. slots' = [i \in 1..(n - 1) |-> IF i = s THEN slots[n] ELSE slots[i]]
    BY <1>6 DEF SwapRemove
  <2>2. \A i \in 1..(n - 1) : slots[n] \in Slot /\ slots[i] \in Slot
    BY <1>1, SlotFacts
  <2>3. slots' \in [1..(n - 1) -> Slot]
    BY <2>1, <2>2
  <2> QED BY <2>1, <2>3, <1>1, SeqOfFunction
<1>8. /\ DOMAIN slotOf' = DOMAIN slotOf \ {id}
      /\ \A x \in DOMAIN slotOf' : slotOf'[x] = IF x = movedId THEN s ELSE slotOf[x]
  BY <1>1, <1>2, <1>6
<1>9. /\ \A i \in 1..n : slots[i].id \in DOMAIN slotOf /\ slotOf[slots[i].id] = i
      /\ \A x \in DOMAIN slotOf : slotOf[x] \in 1..n /\ slots[slotOf[x]].id = x /\ x \in RowId
  BY SlotFacts DEF IInv, SlotMapExact
<1>10. SlotMapExact'
  <2>1. \A x \in DOMAIN slotOf' : slotOf'[x] \in 1..(n - 1) /\ slots'[slotOf'[x]].id = x
    <3> SUFFICES ASSUME NEW x \in DOMAIN slotOf'
                 PROVE  slotOf'[x] \in 1..(n - 1) /\ slots'[slotOf'[x]].id = x
      OBVIOUS
    <3>1. x \in DOMAIN slotOf /\ x # id
      BY <1>8
    <3>2. CASE x = movedId
      <4>1. s # n /\ s \in 1..(n - 1)
        BY <3>1, <3>2, <1>1, <1>2
      <4> QED BY <4>1, <3>2, <1>7, <1>8
    <3>3. CASE x # movedId
      <4>1. slotOf[x] # n /\ slotOf[x] # s /\ slotOf[x] \in 1..(n - 1)
        BY <3>1, <3>3, <1>1, <1>2, <1>9
      <4> QED BY <4>1, <3>1, <3>3, <1>7, <1>8, <1>9
    <3> QED BY <3>2, <3>3
  <2>2. \A i \in 1..(n - 1) : slots'[i].id \in DOMAIN slotOf' /\ slotOf'[slots'[i].id] = i
    <3> SUFFICES ASSUME NEW i \in 1..(n - 1)
                 PROVE  slots'[i].id \in DOMAIN slotOf' /\ slotOf'[slots'[i].id] = i
      OBVIOUS
    <3>1. CASE i = s
      <4>1. slots'[i].id = movedId /\ movedId # id
        BY <3>1, <1>1, <1>2, <1>7
      <4> QED BY <4>1, <3>1, <1>2, <1>8
    <3>2. CASE i # s
      <4>1. slots'[i].id = slots[i].id /\ i \in 1..n /\ i # n
        BY <3>2, <1>1, <1>7
      <4>2. slots[i].id # id /\ slots[i].id # movedId
        BY <4>1, <3>2, <1>2, <1>9
      <4> QED BY <4>1, <4>2, <1>8, <1>9
    <3> QED BY <3>1, <3>2
  <2> QED BY <2>1, <2>2, <1>7 DEF SlotMapExact
<1>11. slotOf' \in [DOMAIN slotOf' -> 1..(n - 1)] /\ DOMAIN slotOf' \in SUBSET RowId
  <2>1. slotOf' = [x \in DOMAIN slotOf' |-> slotOf'[x]]
    BY <1>6
  <2>2. \A x \in DOMAIN slotOf' : slotOf'[x] \in 1..(n - 1)
    BY <1>1, <1>2, <1>8, <1>9
  <2>3. DOMAIN slotOf' \in SUBSET RowId
    BY <1>8, <1>9
  <2> QED BY <2>1, <2>2, <2>3
<1>12. /\ rest \in Seq(1..n) /\ Len(rest) = n - 1
       /\ \A q \in 1..(n - 1) : rest[q] = IF q < r THEN scan[q] ELSE scan[q + 1]
  <2> DEFINE S == 1..n
  <2>1. scan \in Seq(S) /\ r \in 1..Len(scan)
    BY <1>1, <1>3 DEF IInv, TypeOK
  <2> HIDE DEF S, r
  <2>2. /\ RemoveAtPos(scan, r) \in Seq(S) /\ Len(RemoveAtPos(scan, r)) = Len(scan) - 1
        /\ \A q \in 1..(Len(scan) - 1) :
             RemoveAtPos(scan, r)[q] = IF q < r THEN scan[q] ELSE scan[q + 1]
    BY <2>1, RemoveAtPosFacts
  <2> QED BY <2>2, <1>1 DEF S
<1>13. s # n => m \in 1..(n - 1) /\ mv # r /\ m = IF mv > r THEN mv - 1 ELSE mv
  BY <1>1, <1>3 DEF MovedScanPosition
<1>14. /\ Len(scan') = n - 1
       /\ \A q \in 1..(n - 1) : scan'[q] = IF s # n /\ q = m THEN s ELSE rest[q]
  BY <1>1, <1>6, <1>12, <1>13
<1>15. scan' = [q \in 1..(n - 1) |-> scan'[q]]
  <2>1. rest = [q \in 1..(n - 1) |-> rest[q]]
    BY <1>1 DEF RemoveAtPos
  <2>2. CASE s = n
    BY <2>1, <2>2, <1>6
  <2>3. CASE s # n
    BY <2>1, <2>3, <1>6
  <2> QED BY <2>2, <2>3
<1>16. \A p \in 1..n : scan[p] \in 1..n /\ IdAt(p) = slots[scan[p]].id /\ IdAt(p) \in Nat
  BY <1>1, SlotFacts, RowIdAssumption DEF IdAt
<1>17. \A p, q \in 1..n : p < q => IdAt(p) < IdAt(q)
  BY <1>1 DEF IInv, ScanInIdOrder
<1>18. \A i \in 1..n : \E p \in 1..n : scan[p] = i
  BY <1>1 DEF IInv, ScanInIdOrder
<1> HIDE DEF n, s, movedId, r, mv, rest, others, m
<1> DEFINE old(q) == IF q < r THEN q ELSE q + 1
<1>19. \A q \in 1..(n - 1) : old(q) \in 1..n /\ old(q) # r /\ rest[q] = scan[old(q)]
  BY <1>1, <1>3, <1>12
<1>20. \A q \in 1..(n - 1) : scan'[q] \in 1..(n - 1) /\ slots'[scan'[q]].id = IdAt(old(q))
  <2> SUFFICES ASSUME NEW q \in 1..(n - 1)
               PROVE  scan'[q] \in 1..(n - 1) /\ slots'[scan'[q]].id = IdAt(old(q))
    OBVIOUS
  <2> DEFINE o == old(q)
  <2>1. o \in 1..n /\ o # r /\ rest[q] = scan[o] /\ scan[o] # s /\ scan[o] \in 1..n
    BY <1>4, <1>16, <1>19
  <2>2. q = IF o > r THEN o - 1 ELSE o
    BY <1>3, <1>1
  <2> HIDE DEF o
  <2>3. CASE scan[o] = n
    <3>1. o = mv
      BY <2>1, <2>3, <1>5
    <3>2. s # n /\ q = m
      BY <3>1, <2>1, <2>2, <2>3, <1>13
    <3>3. scan'[q] = s /\ s \in 1..(n - 1)
      BY <3>2, <1>1, <1>14
    <3> QED BY <3>3, <2>1, <2>3, <1>7, <1>16 DEF o
  <2>4. CASE scan[o] # n
    <3>1. ~(s # n /\ q = m)
      <4> SUFFICES ASSUME s # n, q = m PROVE FALSE
        OBVIOUS
      <4>1. o = mv
        BY <2>1, <2>2, <1>1, <1>3, <1>13
      <4> QED BY <4>1, <2>4, <1>3
    <3>2. scan'[q] = scan[o] /\ scan[o] \in 1..(n - 1)
      BY <3>1, <2>1, <2>4, <1>1, <1>14
    <3> QED BY <3>2, <2>1, <1>7, <1>16 DEF o
  <2> QED BY <2>3, <2>4
<1>21. \A p, q \in 1..(n - 1) : p < q => slots'[scan'[p]].id < slots'[scan'[q]].id
  <2> SUFFICES ASSUME NEW p \in 1..(n - 1), NEW q \in 1..(n - 1), p < q
               PROVE  slots'[scan'[p]].id < slots'[scan'[q]].id
    OBVIOUS
  <2>1. old(p) \in 1..n /\ old(q) \in 1..n /\ old(p) < old(q)
    BY <1>1, <1>3, <1>19
  <2>2. IdAt(old(p)) < IdAt(old(q))
    BY <2>1, <1>17
  <2> QED BY <2>2, <1>20
<1>22. \A i \in 1..(n - 1) : \E q \in 1..(n - 1) : scan'[q] = i
  <2> SUFFICES ASSUME NEW i \in 1..(n - 1) PROVE \E q \in 1..(n - 1) : scan'[q] = i
    OBVIOUS
  <2>1. CASE i = s
    BY <2>1, <1>1, <1>13, <1>14
  <2>2. CASE i # s
    <3>1. PICK p \in 1..n : scan[p] = i
      BY <1>1, <1>18
    <3>2. p # r /\ p # mv
      BY <3>1, <2>2, <1>1, <1>3
    <3> DEFINE q == IF p > r THEN p - 1 ELSE p
    <3>3. q \in 1..(n - 1) /\ old(q) = p
      BY <3>2, <1>1, <1>3
    <3>4. ~(s # n /\ q = m)
      BY <3>2, <1>1, <1>3, <1>13
    <3>5. scan'[q] = i
      BY <3>1, <3>3, <3>4, <1>14, <1>19
    <3> QED BY <3>3, <3>5
  <2> QED BY <2>1, <2>2
<1>23. ScanInIdOrder'
  BY <1>7, <1>14, <1>21, <1>22 DEF ScanInIdOrder, IdAt
<1>24. TypeOK'
  <2>1. scan' \in Seq(1..(n - 1))
    <3>1. scan' \in [1..(n - 1) -> 1..(n - 1)]
      BY <1>14, <1>15, <1>20
    <3> QED BY <3>1, <1>1, SeqOfFunction
  <2> QED BY <2>1, <1>7, <1>11 DEF TypeOK
<1> QED BY <1>10, <1>23, <1>24 DEF IInv

LEMMA BulkLoadSlotsInv ==
  ASSUME IInv, NEW k \in Nat, NEW rows \in [1..k -> Slot], BulkLoadSlots(rows)
  PROVE  IInv'
<1>1. rows \in Seq(Slot) /\ Len(rows) = k
  BY SeqOfFunction
<1>2. \A i \in 1..k : rows[i].id \in RowId /\ rows[i].id \in Nat
  BY RowIdAssumption DEF Slot
<1>3. \A i, j \in 1..k : i < j => rows[i].id < rows[j].id
  BY <1>1 DEF BulkLoadSlots
<1>4. \A i, j \in 1..k : rows[i].id = rows[j].id => i = j
  BY <1>2, <1>3
<1>5. /\ slots' = rows /\ scan' = [i \in 1..k |-> i]
      /\ slotOf' = [id \in {rows[i].id : i \in 1..k} |-> CHOOSE i \in 1..k : rows[i].id = id]
  BY <1>1 DEF BulkLoadSlots
<1>6. \A id \in DOMAIN slotOf' : slotOf'[id] \in 1..k /\ rows[slotOf'[id]].id = id
  BY <1>5
<1>7. \A i \in 1..k : rows[i].id \in DOMAIN slotOf' /\ slotOf'[rows[i].id] = i
  BY <1>4, <1>5, <1>6
<1>8. scan' \in Seq(1..k) /\ Len(scan') = k
  BY <1>5, SeqOfFunction
<1>9. TypeOK'
  <2>1. DOMAIN slotOf' \in SUBSET RowId
    BY <1>2, <1>5
  <2>2. slotOf' \in [DOMAIN slotOf' -> 1..k]
    BY <1>5, <1>6
  <2> QED BY <2>1, <2>2, <1>1, <1>5, <1>8 DEF TypeOK
<1>10. SlotMapExact'
  BY <1>1, <1>5, <1>6, <1>7 DEF SlotMapExact
<1>11. ScanInIdOrder'
  BY <1>1, <1>3, <1>5, <1>8 DEF ScanInIdOrder, IdAt
<1> QED BY <1>9, <1>10, <1>11 DEF IInv

LEMMA NextInv == IInv /\ [Next]_vars => IInv'
<1> SUFFICES ASSUME IInv, [Next]_vars PROVE IInv'
  OBVIOUS
<1>1. ASSUME NEW id \in RowId, NEW c \in Content, InsertRowSlot(id, c) \/ ReplaceRowSlot(id, c)
      PROVE  IInv'
  BY <1>1, InsertRowSlotInv, ReplaceRowSlotInv
<1>2. ASSUME NEW id \in RowId, RemoveRowSlot(id) PROVE IInv'
  BY <1>2, RemoveRowSlotInv
<1>3. ASSUME NEW n \in 1..MaxBulk, NEW rows \in [1..n -> Slot], BulkLoadSlots(rows) PROVE IInv'
  <2>1. n \in Nat
    BY MaxBulkAssumption
  <2> QED BY <1>3, <2>1, BulkLoadSlotsInv
<1>4. CASE Clear
  <2>1. Init'
    BY <1>4 DEF Clear, Init
  <2>2. slots' = <<>> /\ slotOf' = <<>> /\ scan' = <<>> /\ DOMAIN slotOf' = {}
    BY <1>4 DEF Clear
  <2> QED BY <2>2, SeqOfFunction DEF IInv, TypeOK, SlotMapExact, ScanInIdOrder
<1>5. CASE UNCHANGED vars
  BY <1>5 DEF vars, IInv, TypeOK, SlotMapExact, ScanInIdOrder, IdAt
<1> QED BY <1>1, <1>2, <1>3, <1>4, <1>5 DEF Next

-----------------------------------------------------------------------------
(* The slot map is exact in every reachable state: get() by row id reaches *)
(* that row's slot, however many swap_removes moved the rows around.       *)
THEOREM SlotMapAlwaysExact == Spec => []SlotMapExact
<1>1. IInv => SlotMapExact
  BY DEF IInv
<1> QED BY InitInv, NextInv, <1>1, PTL DEF Spec

(* scan_order lists every stored row exactly once in increasing row-id     *)
(* order in every reachable state, which is what makes scans deterministic *)
(* and the binary searches of insert and remove correct.                   *)
THEOREM ScanAlwaysInIdOrder == Spec => []ScanInIdOrder
<1>1. IInv => ScanInIdOrder
  BY DEF IInv
<1> QED BY InitInv, NextInv, <1>1, PTL DEF Spec

(* Type correctness: every slot number the map or the scan order holds     *)
(* points into row_slots, so no indexing of the code can panic.            *)
THEOREM TypeCorrect == Spec => []TypeOK
<1>1. IInv => TypeOK
  BY DEF IInv
<1> QED BY InitInv, NextInv, <1>1, PTL DEF Spec

-----------------------------------------------------------------------------
(* What a step does to the rows it is not about. *)

\* Every row but that of id is there before and after, with the same content.
OthersSurvive(id) ==
  \A other \in (DOMAIN slotOf \cup DOMAIN slotOf') \ {id} :
    /\ other \in DOMAIN slotOf \cap DOMAIN slotOf'
    /\ slots'[slotOf'[other]].c = Stored(other)

(* An insertion appends to row_slots: no other row moves. *)
LEMMA InsertOthersSurvive ==
  ASSUME IInv, NEW id \in RowId, NEW c \in Content, InsertRowSlot(id, c)
  PROVE  OthersSurvive(id)
BY InsertSlotEffect, SlotFacts DEF OthersSurvive, Stored

(* A replacement writes into the slot of its own row only. *)
LEMMA ReplaceOthersSurvive ==
  ASSUME IInv, NEW id \in RowId, NEW c \in Content, ReplaceRowSlot(id, c)
  PROVE  OthersSurvive(id)
<1> SUFFICES ASSUME NEW other \in DOMAIN slotOf \ {id}
             PROVE  slots'[slotOf[other]].c = slots[slotOf[other]].c
  BY DEF OthersSurvive, Stored, ReplaceRowSlot
<1>1. /\ slotOf[id] \in 1..Len(slots) /\ slotOf[other] \in 1..Len(slots)
      /\ slots[slotOf[id]].id = id /\ slots[slotOf[other]].id = other
  BY SlotFacts DEF ReplaceRowSlot, IInv, SlotMapExact
<1>2. slotOf[other] # slotOf[id]
  BY <1>1
<1>3. slots \in Seq(Slot) /\ slots' = [slots EXCEPT ![slotOf[id]].c = c]
  BY DEF ReplaceRowSlot, IInv, TypeOK
<1> QED BY <1>1, <1>2, <1>3

(* A removal moves the last row into the freed slot, and the id map follows *)
(* that row there.                                                         *)
LEMMA RemoveOthersSurvive ==
  ASSUME IInv, NEW id \in RowId, RemoveRowSlot(id)
  PROVE  OthersSurvive(id)
<1> DEFINE n == Len(slots)
           s == slotOf[id]
           movedId == slots[n].id
           others == [x \in DOMAIN slotOf \ {id} |-> slotOf[x]]
<1>1. id \in DOMAIN slotOf /\ s \in 1..n /\ n \in Nat /\ n \in 1..n /\ slots[s].id = id
  BY SlotFacts DEF RemoveRowSlot, IInv, SlotMapExact
<1>2. movedId \in DOMAIN slotOf /\ slotOf[movedId] = n
  BY <1>1 DEF IInv, SlotMapExact
<1>3. \A i \in 1..(n - 1) : slots'[i] = IF i = s THEN slots[n] ELSE slots[i]
  <2>1. slots' = SwapRemove(s)
    BY DEF RemoveRowSlot
  <2> QED BY <2>1 DEF SwapRemove
<1>4. /\ DOMAIN slotOf' = DOMAIN slotOf \ {id}
      /\ \A x \in DOMAIN slotOf' : slotOf'[x] = IF x = movedId THEN s ELSE slotOf[x]
  <2>1. slotOf' = IF s = n THEN others ELSE [others EXCEPT ![movedId] = s]
    BY DEF RemoveRowSlot
  <2> QED BY <1>1, <1>2, <2>1
<1>5. \A x \in DOMAIN slotOf : slotOf[x] \in 1..n /\ slots[slotOf[x]].id = x
  BY SlotFacts DEF IInv, SlotMapExact
<1> SUFFICES ASSUME NEW other \in DOMAIN slotOf \ {id}
             PROVE  slots'[slotOf'[other]].c = slots[slotOf[other]].c
  BY <1>4 DEF OthersSurvive, Stored
<1>6. CASE other = movedId
  <2>1. s # n /\ s \in 1..(n - 1) /\ slotOf'[other] = s
    BY <1>1, <1>2, <1>4, <1>6
  <2> QED BY <1>2, <1>3, <1>6, <2>1
<1>7. CASE other # movedId
  <2>1. slotOf[other] # n /\ slotOf[other] # s /\ slotOf[other] \in 1..(n - 1)
    BY <1>1, <1>5, <1>7
  <2> QED BY <1>3, <1>4, <1>7, <2>1
<1> QED BY <1>6, <1>7

(* A helper call changes what is stored under at most one id, unless it     *)
(* fills an empty store or empties it, for any number of rows: the rows     *)
(* that a swap_remove or the scan order moves keep their content.          *)
THEOREM UntouchedRowsAlwaysSurvive == Spec => UntouchedRowsSurvive
<1> DEFINE Survive == \/ slots = <<>> \/ slots' = <<>>
                      \/ \E id \in RowId : \A other \in (DOMAIN slotOf \cup DOMAIN slotOf') \ {id} :
                           /\ other \in DOMAIN slotOf \cap DOMAIN slotOf'
                           /\ slots'[slotOf'[other]].c = Stored(other)
<1>1. IInv /\ [Next]_vars => [Survive]_vars
  <2> SUFFICES ASSUME IInv, Next PROVE Survive
    OBVIOUS
  <2>1. ASSUME NEW id \in RowId, OthersSurvive(id) PROVE Survive
    BY <2>1 DEF OthersSurvive
  <2>2. ASSUME NEW id \in RowId, NEW c \in Content, InsertRowSlot(id, c) \/ ReplaceRowSlot(id, c)
        PROVE  Survive
    BY <2>1, <2>2, InsertOthersSurvive, ReplaceOthersSurvive
  <2>3. ASSUME NEW id \in RowId, RemoveRowSlot(id) PROVE Survive
    BY <2>1, <2>3, RemoveOthersSurvive
  <2>4. ASSUME NEW rows, BulkLoadSlots(rows) PROVE Survive
    <3>1. slots \in Seq(Slot) /\ Len(slots) = 0
      BY <2>4 DEF BulkLoadSlots, IInv, TypeOK
    <3> QED BY <3>1
  <2>5. CASE Clear
    BY <2>5 DEF Clear
  <2> HIDE DEF Survive
  <2> QED BY <2>2, <2>3, <2>4, <2>5 DEF Next
<1> QED BY InitInv, NextInv, <1>1, PTL DEF Spec, UntouchedRowsSurvive

-----------------------------------------------------------------------------
(* The hash index of a table, another structure that is kept beside the    *)
(* rows: it keeps the contract of an index, for any keys, rows and calls.   *)
CONSTANT Batch

VARIABLES map, unique, result

Hash == INSTANCE HashIndex

\* Calls are made with pairs of a key and a row id.
BatchesOfPairs == \A batch \in Batch : \A e \in batch : e = <<e[1], e[2]>>

Entries == UNION {{<<k, r>> : r \in map[k]} : k \in DOMAIN map}

\* The initial map is empty.
LEMMA InitHolds == Hash!Init => Hash!NoEmptyKey /\ Hash!Contract!Init
BY DEF Hash!Init, Hash!NoEmptyKey, Hash!Contract!Init

\* What an entry is, in terms of the map.
LEMMA EntryOfMap == ASSUME NEW k, NEW r
                    PROVE  <<k, r>> \in Entries <=> k \in DOMAIN map /\ r \in map[k]
BY DEF Entries

\* Every entry is a pair.
LEMMA EntriesArePairs == \A e \in Entries : e = <<e[1], e[2]>> /\ e[1] \in DOMAIN map /\ e[2] \in map[e[1]]
BY DEF Entries

\* The keys that have entries are those of the map.
LEMMA KeysOfEntries == Hash!NoEmptyKey => Hash!Contract!KeysOf(Entries) = DOMAIN map
<1> SUFFICES ASSUME Hash!NoEmptyKey PROVE Hash!Contract!KeysOf(Entries) = DOMAIN map
  OBVIOUS
<1>1. ASSUME NEW k \in DOMAIN map PROVE k \in Hash!Contract!KeysOf(Entries)
  <2>1. PICK r \in map[k] : TRUE BY DEF Hash!NoEmptyKey
  <2>2. <<k, r>> \in Entries BY <2>1, EntryOfMap
  <2>3. <<k, r>>[1] = k OBVIOUS
  <2> QED BY <2>2, <2>3 DEF Hash!Contract!KeysOf
<1>2. \A k \in Hash!Contract!KeysOf(Entries) : k \in DOMAIN map
  BY EntriesArePairs DEF Hash!Contract!KeysOf
<1> QED BY <1>1, <1>2

\* A batch clashes with the entries exactly when the hash index refuses it.
LEMMA RefusedIffClashes ==
  ASSUME Hash!NoEmptyKey, BatchesOfPairs, NEW batch \in Batch
  PROVE  (\E e \in batch : Hash!ContainsKey(e[1]) \/ \E f \in batch \ {e} : f[1] = e[1])
           <=> Hash!Contract!Clashes(Entries, batch)
<1>1. Hash!Contract!KeysOf(Entries) = DOMAIN map BY KeysOfEntries
<1>2. Hash!Contract!KeysOf(batch) \cap DOMAIN map # {} <=> \E e \in batch : Hash!ContainsKey(e[1])
  BY DEF Hash!Contract!KeysOf, Hash!ContainsKey
<1> QED BY <1>1, <1>2 DEF Hash!Contract!Clashes

\* Storing a batch adds its pairs to the entries.
LEMMA AddBatchStep ==
  ASSUME Hash!NoEmptyKey, BatchesOfPairs, NEW batch \in Batch, Hash!AddBatch(batch)
  PROVE  Hash!NoEmptyKey' /\ Hash!Contract!AddAll(batch)
<1> DEFINE refused == \E e \in batch : Hash!ContainsKey(e[1]) \/ \E f \in batch \ {e} : f[1] = e[1]
           keys == {e[1] : e \in batch}
<1>1. refused <=> Hash!Contract!Clashes(Entries, batch) BY RefusedIffClashes
<1>2. CASE unique /\ refused
  <2>1. result' = "duplicate" /\ UNCHANGED <<map, unique>> BY <1>2 DEF Hash!AddBatch
  <2>2. Hash!NoEmptyKey' /\ Entries' = Entries BY <2>1 DEF Hash!NoEmptyKey, Entries
  <2> QED BY <1>1, <1>2, <2>1, <2>2 DEF Hash!Contract!AddAll, Entries
<1>3. CASE ~(unique /\ refused)
  <2>1. /\ result' = "ok" /\ unique' = unique
        /\ map' = [l \in DOMAIN map \cup keys |-> Hash!Rows(l) \cup Hash!RowsIn(batch, l)]
    BY <1>3 DEF Hash!AddBatch
  <2>2. Hash!NoEmptyKey'
    <3> SUFFICES ASSUME NEW k \in DOMAIN map' PROVE map'[k] # {} BY DEF Hash!NoEmptyKey
    <3>1. map'[k] = Hash!Rows(k) \cup Hash!RowsIn(batch, k) BY <2>1
    <3>2. CASE k \in DOMAIN map BY <3>1, <3>2 DEF Hash!NoEmptyKey, Hash!Rows, Hash!ContainsKey
    <3>3. CASE k \in keys
      <4>1. PICK e \in batch : k = e[1] BY <3>3
      <4> QED BY <3>1, <4>1 DEF Hash!RowsIn
    <3> QED BY <2>1, <3>2, <3>3
  <2>3. ASSUME NEW k, NEW r
        PROVE  <<k, r>> \in Entries' <=> <<k, r>> \in Entries \cup batch
    <3>1. <<k, r>> \in Entries' <=> k \in DOMAIN map' /\ r \in map'[k] BY DEF Entries
    <3>2. r \in Hash!RowsIn(batch, k) <=> <<k, r>> \in batch
      <4>1. ASSUME r \in Hash!RowsIn(batch, k) PROVE <<k, r>> \in batch
        <5>1. PICK e \in batch : e[1] = k /\ r = e[2] BY <4>1 DEF Hash!RowsIn
        <5> QED BY <5>1 DEF BatchesOfPairs
      <4>2. ASSUME <<k, r>> \in batch PROVE r \in Hash!RowsIn(batch, k)
        <5>1. <<k, r>>[1] = k /\ <<k, r>>[2] = r OBVIOUS
        <5> QED BY <4>2, <5>1 DEF Hash!RowsIn
      <4> QED BY <4>1, <4>2
    <3>3. <<k, r>> \in batch => k \in keys
      <4>1. <<k, r>>[1] = k OBVIOUS
      <4> QED BY <4>1
    <3>4. r \in Hash!Rows(k) <=> <<k, r>> \in Entries BY EntryOfMap DEF Hash!Rows, Hash!ContainsKey
    <3>5. k \in DOMAIN map' => map'[k] = Hash!Rows(k) \cup Hash!RowsIn(batch, k) BY <2>1
    <3>6. <<k, r>> \in Entries => k \in DOMAIN map BY EntryOfMap
    <3>7. DOMAIN map' = DOMAIN map \cup keys BY <2>1
    <3> QED BY <3>1, <3>2, <3>3, <3>4, <3>5, <3>6, <3>7
  <2>4. \A e \in Entries' : e = <<e[1], e[2]>> BY DEF Entries
  <2>5. \A e \in Entries \cup batch : e = <<e[1], e[2]>> BY EntriesArePairs DEF BatchesOfPairs
  <2>6. Entries' = Entries \cup batch BY <2>3, <2>4, <2>5
  <2> QED BY <1>1, <1>3, <2>1, <2>2, <2>6 DEF Hash!Contract!AddAll, Entries
<1> QED BY <1>2, <1>3

\* Storing one entry is storing a batch of one.
LEMMA AddStep ==
  ASSUME Hash!NoEmptyKey, BatchesOfPairs, NEW e \in UNION Batch, {e} \in Batch, Hash!Add(e[1], e[2])
  PROVE  Hash!NoEmptyKey' /\ Hash!Contract!AddAll({e})
<1>1. e = <<e[1], e[2]>> BY DEF BatchesOfPairs
<1>2. Hash!AddBatch({e})
  <2>1. (\E f \in {e} : Hash!ContainsKey(f[1]) \/ \E g \in {e} \ {f} : g[1] = f[1])
          <=> Hash!ContainsKey(e[1])
    OBVIOUS
  <2>2. {f[1] : f \in {e}} = {e[1]} OBVIOUS
  <2>3. \A l : Hash!RowsIn({e}, l) = IF l = e[1] THEN {e[2]} ELSE {} BY DEF Hash!RowsIn
  <2>4. [l \in DOMAIN map \cup {e[1]} |-> IF l = e[1] THEN Hash!Rows(e[1]) \cup {e[2]} ELSE map[l]]
          = [l \in DOMAIN map \cup {e[1]} |-> Hash!Rows(l) \cup Hash!RowsIn({e}, l)]
    BY <2>3 DEF Hash!Rows, Hash!ContainsKey
  <2>5. CASE unique /\ Hash!ContainsKey(e[1])
    BY <2>1, <2>5 DEF Hash!Add, Hash!AddBatch
  <2>6. CASE ~(unique /\ Hash!ContainsKey(e[1]))
    <3>1. /\ UNCHANGED unique /\ result' = "ok"
          /\ map' = [l \in DOMAIN map \cup {e[1]} |-> Hash!Rows(l) \cup Hash!RowsIn({e}, l)]
      BY <2>4, <2>6 DEF Hash!Add
    <3> QED BY <2>1, <2>2, <2>6, <3>1 DEF Hash!AddBatch
  <2> QED BY <2>5, <2>6
<1> QED BY <1>2, AddBatchStep

\* Replacing a key's rows replaces its entries.
LEMMA SetStep ==
  ASSUME Hash!NoEmptyKey, NEW k, NEW r, Hash!Set(k, r)
  PROVE  Hash!NoEmptyKey' /\ Hash!Contract!Set(k, r)
<1>1. /\ map' = [l \in DOMAIN map \cup {k} |-> IF l = k THEN {r} ELSE map[l]]
      /\ result' = "ok" /\ UNCHANGED unique
  BY DEF Hash!Set
<1>2. Hash!NoEmptyKey' BY <1>1 DEF Hash!NoEmptyKey
<1>3. ASSUME NEW l, NEW s
      PROVE  <<l, s>> \in Entries' <=> <<l, s>> \in {e \in Entries : e[1] # k} \cup {<<k, r>>}
  <2>1. <<l, s>> \in Entries' <=> l \in DOMAIN map' /\ s \in map'[l] BY DEF Entries
  <2>2. <<l, s>> \in Entries <=> l \in DOMAIN map /\ s \in map[l] BY EntryOfMap
  <2>3. <<l, s>>[1] = l OBVIOUS
  <2>4. CASE l = k BY <1>1, <2>1, <2>3, <2>4
  <2>5. CASE l # k BY <1>1, <2>1, <2>2, <2>3, <2>5
  <2> QED BY <2>4, <2>5
<1>4. \A e \in Entries' : e = <<e[1], e[2]>> BY DEF Entries
<1>5. \A e \in {f \in Entries : f[1] # k} \cup {<<k, r>>} : e = <<e[1], e[2]>>
  BY EntriesArePairs
<1>6. Entries' = {e \in Entries : e[1] # k} \cup {<<k, r>>} BY <1>3, <1>4, <1>5
<1> QED BY <1>1, <1>2, <1>6 DEF Hash!Contract!Set, Entries

\* Taking a batch out removes its pairs, and the keys that have no others.
LEMMA RemoveBatchStep ==
  ASSUME Hash!NoEmptyKey, BatchesOfPairs, NEW batch \in Batch, Hash!RemoveBatch(batch)
  PROVE  Hash!NoEmptyKey' /\ Hash!Contract!RemoveAll(batch)
<1> DEFINE left == {k \in DOMAIN map : map[k] \ Hash!RowsIn(batch, k) # {}}
<1>1. /\ map' = [l \in left |-> map[l] \ Hash!RowsIn(batch, l)]
      /\ result' = "ok" /\ UNCHANGED unique
  BY DEF Hash!RemoveBatch
<1>2. Hash!NoEmptyKey' BY <1>1 DEF Hash!NoEmptyKey
<1>3. ASSUME NEW k, NEW r
      PROVE  <<k, r>> \in Entries' <=> <<k, r>> \in Entries \ batch
  <2>1. <<k, r>> \in Entries' <=> k \in DOMAIN map' /\ r \in map'[k] BY DEF Entries
  <2>2. <<k, r>> \in Entries <=> k \in DOMAIN map /\ r \in map[k] BY EntryOfMap
  <2>3. r \in Hash!RowsIn(batch, k) <=> <<k, r>> \in batch
    <3>1. ASSUME r \in Hash!RowsIn(batch, k) PROVE <<k, r>> \in batch
      <4>1. PICK e \in batch : e[1] = k /\ r = e[2] BY <3>1 DEF Hash!RowsIn
      <4> QED BY <4>1 DEF BatchesOfPairs
    <3>2. ASSUME <<k, r>> \in batch PROVE r \in Hash!RowsIn(batch, k)
      <4>1. <<k, r>>[1] = k /\ <<k, r>>[2] = r OBVIOUS
      <4> QED BY <3>2, <4>1 DEF Hash!RowsIn
    <3> QED BY <3>1, <3>2
  <2>4. k \in DOMAIN map' => map'[k] = map[k] \ Hash!RowsIn(batch, k) BY <1>1
  <2>5. DOMAIN map' = left BY <1>1
  <2> QED BY <2>1, <2>2, <2>3, <2>4, <2>5
<1>4. \A e \in Entries' : e = <<e[1], e[2]>> BY DEF Entries
<1>5. Entries' = Entries \ batch BY <1>3, <1>4, EntriesArePairs
<1> QED BY <1>1, <1>2, <1>5 DEF Hash!Contract!RemoveAll, Entries

\* Taking a key out removes the entries that have it.
LEMMA RemoveKeyStep ==
  ASSUME Hash!NoEmptyKey, NEW k, Hash!RemoveKey(k)
  PROVE  Hash!NoEmptyKey' /\ Hash!Contract!RemoveKey(k)
<1>1. map' = [l \in DOMAIN map \ {k} |-> map[l]] /\ result' = "ok" /\ UNCHANGED unique
  BY DEF Hash!RemoveKey
<1>2. Hash!NoEmptyKey' BY <1>1 DEF Hash!NoEmptyKey
<1>3. ASSUME NEW l, NEW s
      PROVE  <<l, s>> \in Entries' <=> <<l, s>> \in {e \in Entries : e[1] # k}
  <2>1. <<l, s>> \in Entries' <=> l \in DOMAIN map' /\ s \in map'[l] BY DEF Entries
  <2>2. <<l, s>> \in Entries <=> l \in DOMAIN map /\ s \in map[l] BY EntryOfMap
  <2>3. <<l, s>>[1] = l OBVIOUS
  <2> QED BY <1>1, <2>1, <2>2, <2>3
<1>4. \A e \in Entries' : e = <<e[1], e[2]>> BY DEF Entries
<1>5. Entries' = {e \in Entries : e[1] # k} BY <1>3, <1>4, EntriesArePairs
<1> QED BY <1>1, <1>2, <1>5 DEF Hash!Contract!RemoveKey, Entries

\* Clearing leaves no entry.
LEMMA ClearStep == Hash!Clear => Hash!NoEmptyKey' /\ Hash!Contract!Clear
BY DEF Hash!Clear, Hash!NoEmptyKey, Hash!Contract!Clear

\* Every step of the hash index is a step of the contract, or none.
LEMMA StepRefines ==
  ASSUME Hash!NoEmptyKey, BatchesOfPairs, [Hash!Next]_(Hash!vars)
  PROVE  Hash!NoEmptyKey' /\ [Hash!Contract!Next]_(Hash!Contract!vars)
<1>1. ASSUME NEW batch \in Batch, Hash!AddBatch(batch) PROVE Hash!NoEmptyKey' /\ Hash!Contract!Next
  BY <1>1, AddBatchStep DEF Hash!Contract!Next
<1>2. ASSUME NEW batch \in Batch, Hash!RemoveBatch(batch) PROVE Hash!NoEmptyKey' /\ Hash!Contract!Next
  BY <1>2, RemoveBatchStep DEF Hash!Contract!Next
<1>3. ASSUME NEW e \in UNION Batch, Hash!Set(e[1], e[2]) PROVE Hash!NoEmptyKey' /\ Hash!Contract!Next
  BY <1>3, SetStep DEF Hash!Contract!Next
<1>4. ASSUME NEW e \in UNION Batch, Hash!RemoveKey(e[1]) PROVE Hash!NoEmptyKey' /\ Hash!Contract!Next
  BY <1>4, RemoveKeyStep DEF Hash!Contract!Next
<1>5. ASSUME NEW e \in UNION Batch, {e} \in Batch, Hash!Add(e[1], e[2])
      PROVE  Hash!NoEmptyKey' /\ Hash!Contract!Next
  BY <1>5, AddStep DEF Hash!Contract!Next
<1>6. CASE Hash!Clear BY <1>6, ClearStep DEF Hash!Contract!Next
<1>7. CASE UNCHANGED Hash!vars
  BY <1>7 DEF Hash!vars, Hash!NoEmptyKey, Hash!Contract!vars
<1> QED BY <1>1, <1>2, <1>3, <1>4, <1>5, <1>6, <1>7 DEF Hash!Next

\* In a hash index every stored key has a row.
THEOREM HashNoEmptyKey == ASSUME BatchesOfPairs PROVE Hash!Spec => []Hash!NoEmptyKey
<1>1. Hash!Init => Hash!NoEmptyKey BY InitHolds
<1>2. Hash!NoEmptyKey /\ [Hash!Next]_(Hash!vars) => Hash!NoEmptyKey' BY StepRefines
<1> QED BY <1>1, <1>2, PTL DEF Hash!Spec

\* The hash index (hash.rs) implements the contract of an index: it refuses
\* exactly the calls that would repeat a key of a unique index, and otherwise
\* adds and removes exactly the entries of the call.
THEOREM HashIsIndex == ASSUME BatchesOfPairs PROVE Hash!Spec => Hash!Contract!Spec
<1>1. Hash!Init => Hash!Contract!Init BY InitHolds
<1>2. Hash!NoEmptyKey /\ [Hash!Next]_(Hash!vars) => [Hash!Contract!Next]_(Hash!Contract!vars) BY StepRefines
<1> QED BY <1>1, <1>2, HashNoEmptyKey, PTL DEF Hash!Spec, Hash!Contract!Spec
=============================================================================
