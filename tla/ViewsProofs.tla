----------------------------- MODULE ViewsProofs -----------------------------
(***************************************************************************)
(* Proofs about the join states of a materialized view, for any tables,    *)
(* plans and batches: the slots, buckets and row index of each side stay   *)
(* exact, and the match counts that decide when an outer join shows a      *)
(* padded row are the sizes of the buckets across.                         *)
(*                                                                         *)
(* None of this holds of a side by itself: a row that was inserted twice   *)
(* would leave a slot that nothing names.  That it is not rests on the     *)
(* tables: a batch of deltas leads from one content to the next, delta by  *)
(* delta, also after the filter, and a side has the rows of the content    *)
(* that the deltas led to so far, and those whose deletion was folded with *)
(* a later insertion into one update.                                      *)
(***************************************************************************)
EXTENDS Views, Iteration, FiniteSetTheorems, TLAPS

Id == UNION {RowIdsOf(t) : t \in Table}
Vals == UNION {ValuesOf(t) : t \in Table}
Row == [id : Id, vals : Vals]
Column == {p.leftKey : p \in Plans} \cup {p.rightKey : p \in Plans}
Key == {v[c] : v \in Vals, c \in Column}
Slot == [row : Row, key : Key, pos : Nat, matches : Nat]

Slots == Seq(Slot \cup {NoSlot})
Buckets == UNION {[D -> Seq(Nat)] : D \in SUBSET Key}
RowIndexes == UNION {[D -> Nat] : D \in SUBSET Id}
SideType == [slots : Slots, free : Seq(Nat), buckets : Buckets, slotOf : RowIndexes]

Used(side) == {i \in DOMAIN side.slots : side.slots[i] # NoSlot}

\* The free list has every free slot once.
FreeExact(side) ==
  /\ \A p \in DOMAIN side.free : side.free[p] \in DOMAIN side.slots \ Used(side)
  /\ \A i \in DOMAIN side.slots \ Used(side) : \E p \in DOMAIN side.free : side.free[p] = i
  /\ \A p, q \in DOMAIN side.free : side.free[p] = side.free[q] => p = q

\* The row index leads from each row to its slot.
Indexed(side) ==
  /\ \A i \in Used(side) : side.slots[i].row.id \in DOMAIN side.slotOf
                           /\ side.slotOf[side.slots[i].row.id] = i
  /\ \A x \in DOMAIN side.slotOf :
       side.slotOf[x] \in Used(side) /\ side.slots[side.slotOf[x]].row.id = x

\* Each slot is in the bucket of its key, where it says it is, and nothing else is.
Bucketed(side) ==
  /\ \A i \in Used(side) :
       /\ side.slots[i].key \in DOMAIN side.buckets
       /\ side.slots[i].pos \in DOMAIN side.buckets[side.slots[i].key]
       /\ side.buckets[side.slots[i].key][side.slots[i].pos] = i
  /\ \A key \in DOMAIN side.buckets :
       /\ side.buckets[key] # <<>>
       /\ \A p \in DOMAIN side.buckets[key] :
            /\ side.buckets[key][p] \in Used(side)
            /\ side.slots[side.buckets[key][p]].key = key
            /\ side.slots[side.buckets[key][p]].pos = p

SideOK(side) == side \in SideType /\ FreeExact(side) /\ Indexed(side) /\ Bucketed(side)

\* Every slot's count of matches is the size of the other side's bucket for its key.
CountsOK(side, other) ==
  \A i \in Used(side) : side.slots[i].matches = Len(Bucket(other, side.slots[i].key))

-----------------------------------------------------------------------------
(* Slots and buckets.                                                       *)

LEMMA SlotIsRow == \A x \in Slot : x # NoSlot
<1> SUFFICES ASSUME NEW x \in Slot, x = NoSlot PROVE FALSE
  OBVIOUS
<1>1. DOMAIN x = {"row", "key", "pos", "matches"}
  BY DEF Slot
<1>2. DOMAIN x = {}
  BY DEF NoSlot
<1> QED BY <1>1, <1>2

\* A used slot holds a record.
LEMMA UsedSlots ==
  ASSUME NEW side \in SideType, NEW i \in Used(side)
  PROVE  /\ i \in 1..Len(side.slots) /\ side.slots[i] \in Slot
         /\ side.slots[i].row \in Row /\ side.slots[i].row.id \in Id
         /\ side.slots[i].key \in Key /\ side.slots[i].pos \in Nat
         /\ side.slots[i].matches \in Nat
<1>1. side.slots \in Seq(Slot \cup {NoSlot}) /\ i \in DOMAIN side.slots /\ side.slots[i] # NoSlot
  BY DEF SideType, Slots, Used
<1>2. side.slots[i] \in Slot /\ i \in 1..Len(side.slots)
  BY <1>1
<1> QED BY <1>2 DEF Slot, Row

LEMMA BucketIsSeq ==
  ASSUME NEW side \in SideType, NEW key
  PROVE  /\ Bucket(side, key) \in Seq(Nat)
         /\ key \in DOMAIN side.buckets => side.buckets[key] = Bucket(side, key)
<1>1. PICK D \in SUBSET Key : side.buckets \in [D -> Seq(Nat)]
  BY DEF SideType, Slots, Buckets, RowIndexes
<1> QED BY <1>1 DEF Bucket

LEMMA SideMade ==
  ASSUME NEW side, side = [slots |-> side.slots, free |-> side.free,
                           buckets |-> side.buckets, slotOf |-> side.slotOf],
         side.slots \in Slots, side.free \in Seq(Nat), side.buckets \in Buckets,
         side.slotOf \in RowIndexes
  PROVE  side \in SideType
BY DEF SideType

LEMMA EmptyIsOK == SideOK(EmptySide)
<1>1. EmptySide.slots = <<>> /\ EmptySide.free = <<>> /\ EmptySide.buckets = <<>> /\ EmptySide.slotOf = <<>>
  BY DEF EmptySide
<1>2. <<>> \in [{} -> Seq(Nat)] /\ <<>> \in [{} -> Nat]
  OBVIOUS
<1>3. EmptySide \in SideType
  <2>1. {} \in SUBSET Key /\ {} \in SUBSET Id
    OBVIOUS
  <2>2. <<>> \in Buckets
    BY <1>2, <2>1 DEF Buckets
  <2>3. <<>> \in RowIndexes
    BY <1>2, <2>1 DEF RowIndexes
  <2>4. <<>> \in Slots /\ <<>> \in Seq(Nat)
    BY DEF Slots
  <2>5. EmptySide = [slots |-> EmptySide.slots, free |-> EmptySide.free,
                     buckets |-> EmptySide.buckets, slotOf |-> EmptySide.slotOf]
    BY DEF EmptySide
  <2> QED BY <1>1, <2>2, <2>3, <2>4, <2>5, SideMade, Zenon
<1>4. Used(EmptySide) = {} /\ DOMAIN EmptySide.slots = {} /\ DOMAIN EmptySide.buckets = {}
      /\ DOMAIN EmptySide.free = {} /\ DOMAIN EmptySide.slotOf = {}
  BY <1>1 DEF Used
<1> QED BY <1>3, <1>4 DEF SideOK, FreeExact, Indexed, Bucketed

\* S differs from the side at most in the values of its rows and in the match counts.
SameShape(side, S) ==
  /\ S \in SideType /\ DOMAIN S.slots = DOMAIN side.slots /\ Used(S) = Used(side)
  /\ S.free = side.free /\ S.buckets = side.buckets /\ S.slotOf = side.slotOf
  /\ \A i \in Used(side) :
       /\ S.slots[i].row.id = side.slots[i].row.id
       /\ S.slots[i].key = side.slots[i].key /\ S.slots[i].pos = side.slots[i].pos

LEMMA SameShapeOK ==
  ASSUME NEW side, SideOK(side), NEW S, SameShape(side, S)
  PROVE  SideOK(S)
<1> USE DEF SameShape
<1>1. FreeExact(side) /\ Indexed(side) /\ Bucketed(side)
  BY DEF SideOK
<1>2. FreeExact(S)
  BY <1>1 DEF FreeExact
<1>3. Indexed(S)
  <2>1. ASSUME NEW i \in Used(side)
        PROVE  S.slots[i].row.id \in DOMAIN S.slotOf /\ S.slotOf[S.slots[i].row.id] = i
    <3>1. side.slots[i].row.id \in DOMAIN side.slotOf /\ side.slotOf[side.slots[i].row.id] = i
      BY <1>1 DEF Indexed
    <3> QED BY <3>1
  <2>2. ASSUME NEW x \in DOMAIN S.slotOf
        PROVE  S.slotOf[x] \in Used(S) /\ S.slots[S.slotOf[x]].row.id = x
    <3>1. S.slotOf[x] = side.slotOf[x] /\ side.slotOf[x] \in Used(side) /\ side.slots[side.slotOf[x]].row.id = x
      BY <1>1 DEF Indexed
    <3> QED BY <3>1
  <2> QED BY <2>1, <2>2 DEF Indexed
<1>4. Bucketed(S)
  <2>1. ASSUME NEW i \in Used(side)
        PROVE  /\ S.slots[i].key \in DOMAIN S.buckets
               /\ S.slots[i].pos \in DOMAIN S.buckets[S.slots[i].key]
               /\ S.buckets[S.slots[i].key][S.slots[i].pos] = i
    <3>1. /\ side.slots[i].key \in DOMAIN side.buckets
          /\ side.slots[i].pos \in DOMAIN side.buckets[side.slots[i].key]
          /\ side.buckets[side.slots[i].key][side.slots[i].pos] = i
      BY <1>1 DEF Bucketed
    <3> QED BY <3>1
  <2>2. ASSUME NEW k \in DOMAIN S.buckets
        PROVE  /\ S.buckets[k] # <<>>
               /\ \A p \in DOMAIN S.buckets[k] :
                    /\ S.buckets[k][p] \in Used(S)
                    /\ S.slots[S.buckets[k][p]].key = k
                    /\ S.slots[S.buckets[k][p]].pos = p
    <3> DEFINE c == side.buckets[k]
    <3>1. S.buckets[k] = c /\ c # <<>>
      BY <1>1 DEF Bucketed
    <3>2. ASSUME NEW p \in DOMAIN c
          PROVE  c[p] \in Used(S) /\ S.slots[c[p]].key = k /\ S.slots[c[p]].pos = p
      <4>1. c[p] \in Used(side) /\ side.slots[c[p]].key = k /\ side.slots[c[p]].pos = p
        BY <1>1 DEF Bucketed
      <4> HIDE DEF c
      <4> QED BY <4>1
    <3> HIDE DEF c
    <3> QED BY <3>1, <3>2
  <2> QED BY <2>1, <2>2 DEF Bucketed
<1> QED BY <1>2, <1>3, <1>4 DEF SideOK

-----------------------------------------------------------------------------
(* A row is put into a side.                                                *)

\* S is the side with one more slot, id, for the row; the bucket of its key is longer by it.
Added(side, S, row, key, matches) ==
  /\ SideOK(S)
  /\ DOMAIN S.slotOf = DOMAIN side.slotOf \cup {row.id}
  /\ \E id \in Nat \ Used(side) :
       /\ Used(S) = Used(side) \cup {id}
       /\ S.slots[id].row = row /\ S.slots[id].key = key /\ S.slots[id].matches = matches
       /\ \A i \in Used(side) : S.slots[i] = side.slots[i]
  /\ Len(Bucket(S, key)) = Len(Bucket(side, key)) + 1
  /\ \A k : k # key => Bucket(S, k) = Bucket(side, k)

\* Slot id is taken for slot, from the free list or at the end.
Takes(side, slot, id, slots, free) ==
  IF side.free = <<>>
  THEN id = Len(side.slots) + 1 /\ slots = Append(side.slots, slot) /\ free = side.free
  ELSE id = Last(side.free) /\ slots = [side.slots EXCEPT ![id] = slot] /\ free = Front(side.free)

\* It was not in use, and the free list goes on without it.
Taken(side, slot, id, slots, free) ==
  /\ id \in Nat \ Used(side)
  /\ slots \in Slots /\ free \in Seq(Nat)
  /\ slots[id] = slot /\ id \in DOMAIN slots
  /\ \A i \in Used(side) : i \in DOMAIN slots /\ slots[i] = side.slots[i]
  /\ \A i \in DOMAIN slots : i # id => i \in DOMAIN side.slots /\ slots[i] = side.slots[i]
  /\ \A p \in DOMAIN free : free[p] \in DOMAIN slots /\ free[p] # id
                            /\ free[p] \in DOMAIN side.slots \ Used(side)
  /\ \A i \in DOMAIN side.slots \ Used(side) : i # id => \E p \in DOMAIN free : free[p] = i
  /\ \A p, q \in DOMAIN free : free[p] = free[q] => p = q

LEMMA SlotTaken ==
  ASSUME NEW side \in SideType, FreeExact(side), NEW slot \in Slot,
         NEW id, NEW slots, NEW free, Takes(side, slot, id, slots, free)
  PROVE  Taken(side, slot, id, slots, free)
<1> USE DEF Taken, Slots
<1>1. side.slots \in Seq(Slot \cup {NoSlot}) /\ side.free \in Seq(Nat)
  BY DEF SideType, Slots, Buckets, RowIndexes
<1>2. CASE side.free = <<>>
  <2>1. side.free = <<>> /\ id = Len(side.slots) + 1 /\ slots = Append(side.slots, slot) /\ free = side.free
    BY <1>2 DEF Takes
  <2>2. DOMAIN slots = DOMAIN side.slots \cup {id} /\ id \notin DOMAIN side.slots
        /\ slots[id] = slot /\ \A i \in DOMAIN side.slots : slots[i] = side.slots[i]
    BY <1>1, <2>1
  <2>3. DOMAIN free = {} /\ slots \in Seq(Slot \cup {NoSlot})
    BY <1>1, <2>1
  <2>4. DOMAIN side.slots \ Used(side) = {}
    BY <2>1, <2>3 DEF FreeExact
  <2>5. Used(side) \subseteq DOMAIN side.slots /\ id \in Nat
    BY <1>1, <2>1 DEF Used
  <2> QED BY <1>1, <2>1, <2>2, <2>3, <2>4, <2>5
<1>3. CASE side.free # <<>>
  <2> DEFINE n == Len(side.free)
  <2>1. n \in Nat /\ n # 0 /\ id = side.free[n] /\ free = SubSeq(side.free, 1, n - 1)
        /\ slots = [side.slots EXCEPT ![id] = slot]
    <3>1. side.free # <<>> /\ id = Last(side.free) /\ free = Front(side.free)
          /\ slots = [side.slots EXCEPT ![id] = slot]
      BY <1>3 DEF Takes
    <3>2. \A f \in Seq(Nat) : Len(f) \in Nat /\ (f # <<>> => Len(f) # 0)
      OBVIOUS
    <3> QED BY <1>1, <3>1, <3>2 DEF Last, Front
  <2>2. DOMAIN side.free = 1..n /\ n \in DOMAIN side.free
    BY <1>1, <2>1
  <2>3. id \in DOMAIN side.slots /\ id \notin Used(side) /\ id \in Nat
    BY <1>1, <2>1, <2>2 DEF FreeExact
  <2>4. DOMAIN slots = DOMAIN side.slots /\ slots[id] = slot
        /\ \A i \in DOMAIN side.slots : i # id => slots[i] = side.slots[i]
    BY <1>1, <2>1, <2>3
  <2>5. slots \in Seq(Slot \cup {NoSlot})
    <3>1. slot \in Slot \cup {NoSlot}
      OBVIOUS
    <3>2. \A T, f, e, i : f \in Seq(T) /\ e \in T /\ i \in DOMAIN f => [f EXCEPT ![i] = e] \in Seq(T)
      OBVIOUS
    <3>3. slots = [side.slots EXCEPT ![id] = slot]
      BY <2>1
    <3> DEFINE T == Slot \cup {NoSlot}
    <3>4. side.slots \in Seq(T) /\ slot \in T
      BY <1>1
    <3> HIDE DEF T
    <3>5. [side.slots EXCEPT ![id] = slot] \in Seq(T)
      BY <2>3, <3>2, <3>4, Zenon
    <3>6. slots \in Seq(T)
      BY <3>3, <3>5, Zenon
    <3> QED BY <3>6 DEF T
  <2>6. DOMAIN free = 1..(n - 1) /\ free \in Seq(Nat) /\ \A p \in 1..(n - 1) : free[p] = side.free[p]
    <3>1. \A f \in Seq(Nat), m \in Nat : m # 0 /\ m = Len(f)
            => /\ DOMAIN SubSeq(f, 1, m - 1) = 1..(m - 1) /\ SubSeq(f, 1, m - 1) \in Seq(Nat)
               /\ \A p \in 1..(m - 1) : SubSeq(f, 1, m - 1)[p] = f[p]
      OBVIOUS
    <3>2. n \in Nat /\ n # 0 /\ n = Len(side.free) /\ side.free \in Seq(Nat)
      BY <1>1, <2>1
    <3>3. free = SubSeq(side.free, 1, n - 1)
      BY <2>1
    <3> HIDE DEF n
    <3>4. /\ DOMAIN SubSeq(side.free, 1, n - 1) = 1..(n - 1) /\ SubSeq(side.free, 1, n - 1) \in Seq(Nat)
          /\ \A p \in 1..(n - 1) : SubSeq(side.free, 1, n - 1)[p] = side.free[p]
      BY <3>1, <3>2, Zenon
    <3> QED BY <3>3, <3>4, Zenon
  <2>7. \A p \in 1..(n - 1) : p \in DOMAIN side.free /\ p # n /\ free[p] = side.free[p]
    BY <2>1, <2>2, <2>6
  <2> HIDE DEF n
  <2>8. \A p \in DOMAIN free : free[p] \in DOMAIN side.slots \ Used(side) /\ free[p] # id
    BY <2>1, <2>2, <2>6, <2>7 DEF FreeExact
  <2>9. ASSUME NEW i \in DOMAIN side.slots \ Used(side), i # id PROVE \E p \in DOMAIN free : free[p] = i
    <3>1. PICK p \in DOMAIN side.free : side.free[p] = i
      BY DEF FreeExact
    <3>2. p # n
      BY <2>1, <2>9, <3>1
    <3>3. p \in 1..(n - 1)
      BY <2>1, <2>2, <3>1, <3>2
    <3> QED BY <2>6, <3>1, <3>3
  <2>10. \A p, q \in DOMAIN free : free[p] = free[q] => p = q
    BY <2>6, <2>7 DEF FreeExact
  <2>11. \A i \in Used(side) : i \in DOMAIN side.slots /\ i # id
    BY <2>3 DEF Used
  <2> QED BY <2>3, <2>4, <2>5, <2>6, <2>8, <2>9, <2>10, <2>11
<1> QED BY <1>2, <1>3

LEMMA InsertRowOK ==
  ASSUME NEW side, SideOK(side), NEW row \in Row, NEW key \in Key, NEW matches \in Nat,
         row.id \notin DOMAIN side.slotOf
  PROVE  Added(side, InsertRow(side, row, key, matches), row, key, matches)
<1> DEFINE S == InsertRow(side, row, key, matches)
           bucket == Bucket(side, key)
           slot == [row |-> row, key |-> key, pos |-> Len(bucket) + 1, matches |-> matches]
           reused == side.free # <<>>
           id == IF reused THEN Last(side.free) ELSE Len(side.slots) + 1
<1>0. Takes(side, slot, id, S.slots, S.free)
  BY DEF InsertRow, Takes
<1>1. S = [slots |-> S.slots, free |-> S.free, buckets |-> With(side.buckets, key, Append(bucket, id)),
           slotOf |-> With(side.slotOf, row.id, id)]
  BY DEF InsertRow
<1>2. side \in SideType /\ FreeExact(side) /\ Indexed(side) /\ Bucketed(side)
  BY DEF SideOK
<1>3. bucket \in Seq(Nat) /\ (key \in DOMAIN side.buckets => side.buckets[key] = bucket)
      /\ (key \notin DOMAIN side.buckets => bucket = <<>>)
  BY <1>2, BucketIsSeq DEF Bucket
<1>4. slot \in Slot /\ slot.row = row /\ slot.key = key /\ slot.pos = Len(bucket) + 1 /\ slot.matches = matches
  BY <1>3 DEF Slot
<1> HIDE DEF S, slot, bucket, id, reused
<1>5. Taken(side, slot, id, S.slots, S.free)
  BY <1>0, <1>2, <1>4, SlotTaken
<1> USE DEF Taken
<1>6. Used(S) = Used(side) \cup {id}
  <2>1. S.slots[id] # NoSlot
    BY <1>4, <1>5, SlotIsRow
  <2>2. \A i \in Used(side) : i # id /\ S.slots[i] = side.slots[i] /\ side.slots[i] # NoSlot /\ i \in DOMAIN S.slots
    BY <1>5 DEF Used
  <2>3. \A i \in Used(S) : i # id => i \in Used(side)
    BY <1>5 DEF Used
  <2> QED BY <1>5, <2>1, <2>2, <2>3 DEF Used
<1>7. FreeExact(S)
  <2>1. \A p \in DOMAIN S.free : S.free[p] \in DOMAIN S.slots \ Used(S)
    BY <1>5, <1>6
  <2>2. ASSUME NEW i \in DOMAIN S.slots \ Used(S) PROVE \E p \in DOMAIN S.free : S.free[p] = i
    <3>1. i # id /\ i \notin Used(side) /\ i \in DOMAIN side.slots
      BY <1>5, <1>6
    <3> QED BY <1>5, <3>1
  <2> QED BY <1>5, <2>1, <2>2 DEF FreeExact
<1>8. DOMAIN S.slotOf = DOMAIN side.slotOf \cup {row.id} /\ S.slotOf[row.id] = id
      /\ \A x \in DOMAIN side.slotOf : x # row.id /\ S.slotOf[x] = side.slotOf[x]
  <2>1. S.slotOf = With(side.slotOf, row.id, id)
    BY <1>1
  <2>2. DOMAIN S.slotOf = DOMAIN side.slotOf \cup {row.id}
    BY <2>1 DEF With
  <2>3. S.slotOf[row.id] = id
    BY <2>1 DEF With
  <2>4. ASSUME NEW x \in DOMAIN side.slotOf PROVE x # row.id /\ S.slotOf[x] = side.slotOf[x]
    BY <2>1 DEF With
  <2> QED BY <2>2, <2>3, <2>4
<1>9. DOMAIN S.buckets = DOMAIN side.buckets \cup {key} /\ S.buckets[key] = Append(bucket, id)
      /\ \A k \in DOMAIN side.buckets : k # key => S.buckets[k] = side.buckets[k]
  <2>1. S.buckets = With(side.buckets, key, Append(bucket, id))
    BY <1>1
  <2>2. DOMAIN S.buckets = DOMAIN side.buckets \cup {key}
    BY <2>1 DEF With
  <2>3. S.buckets[key] = Append(bucket, id)
    BY <2>1 DEF With
  <2>4. ASSUME NEW k \in DOMAIN side.buckets, k # key PROVE S.buckets[k] = side.buckets[k]
    BY <2>1, <2>4 DEF With
  <2> QED BY <2>2, <2>3, <2>4
<1>10. Indexed(S)
  <2>1. ASSUME NEW i \in Used(S)
        PROVE  S.slots[i].row.id \in DOMAIN S.slotOf /\ S.slotOf[S.slots[i].row.id] = i
    <3>1. CASE i = id
      BY <1>4, <1>5, <1>8, <3>1
    <3>2. CASE i \in Used(side)
      BY <1>2, <1>5, <1>8, <3>2 DEF Indexed
    <3> QED BY <1>6, <3>1, <3>2
  <2>2. ASSUME NEW x \in DOMAIN S.slotOf
        PROVE  S.slotOf[x] \in Used(S) /\ S.slots[S.slotOf[x]].row.id = x
    <3>1. CASE x = row.id
      BY <1>4, <1>5, <1>6, <1>8, <3>1
    <3>2. CASE x \in DOMAIN side.slotOf
      <4>1. S.slotOf[x] = side.slotOf[x] /\ side.slotOf[x] \in Used(side)
            /\ side.slots[side.slotOf[x]].row.id = x
        BY <1>2, <1>8, <3>2 DEF Indexed
      <4>2. S.slots[side.slotOf[x]] = side.slots[side.slotOf[x]]
        BY <1>5, <4>1
      <4> QED BY <1>6, <4>1, <4>2
    <3> QED BY <1>8, <3>1, <3>2
  <2> QED BY <2>1, <2>2 DEF Indexed
<1>11. /\ DOMAIN Append(bucket, id) = 1..(Len(bucket) + 1) /\ Append(bucket, id)[Len(bucket) + 1] = id
       /\ DOMAIN bucket = 1..Len(bucket) /\ Len(bucket) \in Nat
       /\ \A p \in DOMAIN bucket : Append(bucket, id)[p] = bucket[p] /\ p \in DOMAIN Append(bucket, id)
       /\ Append(bucket, id) \in Seq(Nat) /\ Len(Append(bucket, id)) = Len(bucket) + 1
       /\ Append(bucket, id) # <<>>
  BY <1>3, <1>5
<1>12. Bucketed(S)
  <2>1. ASSUME NEW i \in Used(S)
        PROVE  /\ S.slots[i].key \in DOMAIN S.buckets
               /\ S.slots[i].pos \in DOMAIN S.buckets[S.slots[i].key]
               /\ S.buckets[S.slots[i].key][S.slots[i].pos] = i
    <3>1. CASE i = id
      BY <1>4, <1>5, <1>9, <1>11, <3>1
    <3>2. CASE i \in Used(side)
      <4>1. /\ S.slots[i] = side.slots[i] /\ side.slots[i].key \in DOMAIN side.buckets
            /\ side.slots[i].pos \in DOMAIN side.buckets[side.slots[i].key]
            /\ side.buckets[side.slots[i].key][side.slots[i].pos] = i
        BY <1>2, <1>5, <3>2 DEF Bucketed
      <4>2. CASE side.slots[i].key = key
        <5>1. side.slots[i].pos \in DOMAIN bucket /\ bucket[side.slots[i].pos] = i
          BY <1>3, <4>1, <4>2
        <5>2. S.buckets[key][side.slots[i].pos] = i /\ side.slots[i].pos \in DOMAIN S.buckets[key]
          BY <1>9, <1>11, <5>1
        <5> QED BY <1>9, <4>1, <4>2, <5>2
      <4>3. CASE side.slots[i].key # key
        BY <1>9, <4>1, <4>3
      <4> QED BY <4>2, <4>3
    <3> QED BY <1>6, <3>1, <3>2
  <2>2. ASSUME NEW k \in DOMAIN S.buckets
        PROVE  /\ S.buckets[k] # <<>>
               /\ \A p \in DOMAIN S.buckets[k] :
                    /\ S.buckets[k][p] \in Used(S)
                    /\ S.slots[S.buckets[k][p]].key = k
                    /\ S.slots[S.buckets[k][p]].pos = p
    <3>1. ASSUME k # key
          PROVE  /\ S.buckets[k] = side.buckets[k] /\ side.buckets[k] # <<>>
                 /\ \A p \in DOMAIN side.buckets[k] :
                      /\ side.buckets[k][p] \in Used(side)
                      /\ side.slots[side.buckets[k][p]].key = k
                      /\ side.slots[side.buckets[k][p]].pos = p
      BY <1>2, <1>9, <3>1 DEF Bucketed
    <3>2. CASE k # key
      BY <1>5, <1>6, <3>1, <3>2
    <3>3. CASE k = key
      <4>1. ASSUME NEW p \in DOMAIN bucket
            PROVE  bucket[p] \in Used(side) /\ side.slots[bucket[p]].key = key /\ side.slots[bucket[p]].pos = p
        <5>1. key \in DOMAIN side.buckets /\ side.buckets[key] = bucket
          BY <1>3
        <5> QED BY <1>2, <5>1 DEF Bucketed
      <4>2. ASSUME NEW p \in 1..(Len(bucket) + 1)
            PROVE  LET i == Append(bucket, id)[p]
                   IN  i \in Used(S) /\ S.slots[i].key = key /\ S.slots[i].pos = p
        <5>1. CASE p = Len(bucket) + 1
          BY <1>4, <1>5, <1>6, <1>11, <5>1
        <5>2. CASE p \in DOMAIN bucket
          BY <1>5, <1>6, <1>11, <4>1, <5>2
        <5> QED BY <1>11, <5>1, <5>2
      <4> QED BY <1>9, <1>11, <3>3, <4>2
    <3> QED BY <3>2, <3>3
  <2> QED BY <2>1, <2>2 DEF Bucketed
<1>13. S \in SideType
  <2>1. PICK D \in SUBSET Key : side.buckets \in [D -> Seq(Nat)]
    BY <1>2 DEF SideType, Buckets, RowIndexes
  <2>2. S.buckets \in [D \cup {key} -> Seq(Nat)] /\ D \cup {key} \in SUBSET Key
    <3>1. S.buckets = With(side.buckets, key, Append(bucket, id)) /\ DOMAIN side.buckets = D
      BY <1>1, <2>1
    <3>2. S.buckets = [k \in D \cup {key} |-> IF k = key THEN Append(bucket, id) ELSE side.buckets[k]]
      BY <3>1 DEF With
    <3> QED BY <1>11, <2>1, <3>2
  <2>3. PICK E \in SUBSET Id : side.slotOf \in [E -> Nat]
    BY <1>2 DEF SideType, Buckets, RowIndexes
  <2>4. S.slotOf \in [E \cup {row.id} -> Nat] /\ E \cup {row.id} \in SUBSET Id
    <3>1. S.slotOf = With(side.slotOf, row.id, id) /\ id \in Nat /\ row.id \in Id /\ DOMAIN side.slotOf = E
      BY <1>1, <1>5, <2>3 DEF Row
    <3>2. S.slotOf = [x \in E \cup {row.id} |-> IF x = row.id THEN id ELSE side.slotOf[x]]
      BY <3>1 DEF With
    <3> QED BY <2>3, <3>1, <3>2
  <2>5. S.buckets \in Buckets
    BY <2>2 DEF Buckets
  <2>6. S.slotOf \in RowIndexes
    BY <2>4 DEF RowIndexes
  <2>7. S = [slots |-> S.slots, free |-> S.free, buckets |-> S.buckets, slotOf |-> S.slotOf]
    BY <1>1
  <2> QED BY <1>5, <2>5, <2>6, <2>7, SideMade
<1>14. Len(Bucket(S, key)) = Len(Bucket(side, key)) + 1
  BY <1>9, <1>11 DEF Bucket, bucket
<1>15. ASSUME NEW k, k # key PROVE Bucket(S, k) = Bucket(side, k)
  BY <1>9, <1>15 DEF Bucket
<1>16. SideOK(S)
  BY <1>7, <1>10, <1>12, <1>13 DEF SideOK
<1>17. \A i \in Used(side) : S.slots[i] = side.slots[i]
  BY <1>5
<1> QED BY <1>4, <1>5, <1>6, <1>8, <1>14, <1>15, <1>16, <1>17 DEF Added, S

-----------------------------------------------------------------------------
(* A row is taken out of a side.                                            *)

\* g is f with e at i.
Replaced(f, i, e, g) == DOMAIN g = DOMAIN f /\ g[i] = e /\ \A j \in DOMAIN f : j # i => g[j] = f[j]

LEMMA SlotReplaced ==
  ASSUME NEW f \in Slots, NEW i \in DOMAIN f, NEW e \in Slot \cup {NoSlot},
         NEW g, g = [f EXCEPT ![i] = e]
  PROVE  g \in Slots /\ Replaced(f, i, e, g)
<1>1. f \in Seq(Slot \cup {NoSlot})
  BY DEF Slots
<1>2. Replaced(f, i, e, g)
  BY <1>1 DEF Replaced
<1> DEFINE T == Slot \cup {NoSlot}
<1>3. f \in Seq(T) /\ e \in T
  BY <1>1
<1> HIDE DEF T
<1>4. g \in Seq(T)
  BY <1>3
<1> QED BY <1>2, <1>4 DEF T, Slots

\* S is the side without the slot of the row; the bucket of its key is shorter by it.
Removed(side, S, rowId) ==
  LET id == side.slotOf[rowId]
  IN  /\ SideOK(S)
      /\ DOMAIN S.slotOf = DOMAIN side.slotOf \ {rowId}
      /\ Used(S) = Used(side) \ {id}
      /\ \A i \in Used(S) : /\ S.slots[i].row = side.slots[i].row
                            /\ S.slots[i].key = side.slots[i].key
                            /\ S.slots[i].matches = side.slots[i].matches
      /\ Len(Bucket(S, side.slots[id].key)) = Len(Bucket(side, side.slots[id].key)) - 1
      /\ \A k : k # side.slots[id].key => Bucket(S, k) = Bucket(side, k)

\* Closing up a bucket moves its last slot to the place that became free.
Closes(b, p, c) ==
  /\ c \in Seq(Nat) /\ Len(c) = Len(b) - 1
  /\ \A q \in 1..(Len(b) - 1) : c[q] = IF q = p THEN b[Len(b)] ELSE b[q]

LEMMA ClosedUp ==
  ASSUME NEW b \in Seq(Nat), NEW p \in 1..Len(b)
  PROVE  Closes(b, p, SwapRemove(b, p))
<1> DEFINE c == SwapRemove(b, p)
<1>1. \A f \in Seq(Nat) : Len(f) \in Nat /\ (Len(f) # 0 => f[Len(f)] \in Nat)
  OBVIOUS
<1> DEFINE d == IF p = Len(b) THEN b ELSE [b EXCEPT ![p] = b[Len(b)]]
<1>2. c = SubSeq(d, 1, Len(d) - 1)
  BY DEF SwapRemove, Front, Last
<1>3. d \in Seq(Nat) /\ Len(d) = Len(b) /\ \A q \in 1..(Len(b) - 1) : d[q] = IF q = p THEN b[Len(b)] ELSE b[q]
  BY <1>1
<1> HIDE DEF d
<1>4. \A f \in Seq(Nat), m \in Nat : m # 0 /\ m = Len(f)
        => /\ Len(SubSeq(f, 1, m - 1)) = m - 1 /\ SubSeq(f, 1, m - 1) \in Seq(Nat)
           /\ \A q \in 1..(m - 1) : SubSeq(f, 1, m - 1)[q] = f[q]
  OBVIOUS
<1> DEFINE n == Len(b)
<1>5. n \in Nat /\ n # 0 /\ n = Len(d)
  BY <1>1, <1>3
<1> HIDE DEF n
<1>6. c = SubSeq(d, 1, n - 1)
  BY <1>2, <1>5
<1>7. /\ Len(SubSeq(d, 1, n - 1)) = n - 1 /\ SubSeq(d, 1, n - 1) \in Seq(Nat)
      /\ \A q \in 1..(n - 1) : SubSeq(d, 1, n - 1)[q] = d[q]
  BY <1>3, <1>4, <1>5, Zenon
<1>8. Len(c) = n - 1 /\ c \in Seq(Nat) /\ \A q \in 1..(n - 1) : c[q] = d[q]
  BY <1>6, <1>7, Zenon
<1>9. Closes(b, p, c)
  BY <1>3, <1>5, <1>8 DEF n, Closes
<1> QED BY <1>9

\* What RemoveRow does to a bucket that has the slot where it says it is.
Unbucketed(side, S, id) ==
  LET slot == side.slots[id]
      b == side.buckets[slot.key]
      closed == SwapRemove(b, slot.pos)
  IN  /\ S.slots = Moved([side.slots EXCEPT ![id] = NoSlot], closed, slot.pos)
      /\ S.free = Append(side.free, id)
      /\ S.buckets = IF closed = <<>> THEN Without(side.buckets, slot.key)
                     ELSE [side.buckets EXCEPT ![slot.key] = closed]
      /\ S.slotOf = Without(side.slotOf, slot.row.id)
      /\ S = [slots |-> S.slots, free |-> S.free, buckets |-> S.buckets, slotOf |-> S.slotOf]

LEMMA RemoveRowUnbuckets ==
  ASSUME NEW side, SideOK(side), NEW rowId \in DOMAIN side.slotOf
  PROVE  /\ side.slotOf[rowId] \in Used(side) /\ side.slots[side.slotOf[rowId]].row.id = rowId
         /\ Unbucketed(side, RemoveRow(side, rowId), side.slotOf[rowId])
<1> DEFINE id == side.slotOf[rowId]
           slot == side.slots[id]
           S == RemoveRow(side, rowId)
<1>1. id \in Used(side) /\ slot.row.id = rowId
  BY DEF SideOK, Indexed
<1>2. slot.pos \in DOMAIN side.buckets[slot.key] /\ side.buckets[slot.key][slot.pos] = id
  BY <1>1 DEF SideOK, Bucketed
<1>3. Unbucketed(side, S, id)
  BY <1>1, <1>2 DEF RemoveRow, Unbucketed, Freed
<1> QED BY <1>1, <1>3

LEMMA RemoveRowOK ==
  ASSUME NEW side, SideOK(side), NEW rowId \in DOMAIN side.slotOf
  PROVE  Removed(side, RemoveRow(side, rowId), rowId)
<1> DEFINE S == RemoveRow(side, rowId)
           id == side.slotOf[rowId]
           slot == side.slots[id]
           key == slot.key
           p == slot.pos
           b == side.buckets[key]
           n == Len(b)
           closed == SwapRemove(b, p)
<1>1. side \in SideType /\ FreeExact(side) /\ Indexed(side) /\ Bucketed(side)
  BY DEF SideOK
<1>2. id \in Used(side) /\ slot.row.id = rowId /\ Unbucketed(side, S, id)
  BY RemoveRowUnbuckets
<1>3. id \in 1..Len(side.slots) /\ slot \in Slot /\ key \in Key /\ p \in Nat
  BY <1>1, <1>2, UsedSlots
<1>4. key \in DOMAIN side.buckets /\ p \in DOMAIN b /\ b[p] = id
  BY <1>1, <1>2 DEF Bucketed
<1>5. b \in Seq(Nat) /\ n \in Nat /\ DOMAIN b = 1..n /\ b = Bucket(side, key) /\ p \in 1..n
  BY <1>1, <1>4, BucketIsSeq
<1> HIDE DEF S, id, slot, key, p, b, n, closed
<1>6. \A q \in 1..n : b[q] \in Used(side) /\ side.slots[b[q]].key = key /\ side.slots[b[q]].pos = q
  BY <1>1, <1>4, <1>5 DEF Bucketed, b
<1>7. closed \in Seq(Nat) /\ Len(closed) = n - 1 /\ DOMAIN closed = 1..(n - 1)
      /\ \A q \in 1..(n - 1) : closed[q] = IF q = p THEN b[n] ELSE b[q]
  <2>1. closed \in Seq(Nat) /\ Len(closed) = n - 1
        /\ \A q \in 1..(n - 1) : closed[q] = IF q = p THEN b[n] ELSE b[q]
    <3>1. Closes(b, p, closed)
      BY <1>5, ClosedUp DEF closed, n
    <3> QED BY <3>1 DEF Closes, n
  <2> QED BY <1>5, <2>1
<1>8. \A q \in 1..(n - 1) : closed[q] \in Used(side) \ {id} /\ side.slots[closed[q]].key = key
  <2> SUFFICES ASSUME NEW q \in 1..(n - 1)
               PROVE  closed[q] \in Used(side) \ {id} /\ side.slots[closed[q]].key = key
    OBVIOUS
  <2>1. CASE q = p
    <3>1. closed[q] = b[n] /\ n \in 1..n /\ n # p
      BY <1>5, <1>7, <2>1
    <3> QED BY <1>4, <1>5, <1>6, <3>1
  <2>2. CASE q # p
    <3>1. closed[q] = b[q] /\ q \in 1..n
      BY <1>5, <1>7, <2>2
    <3> QED BY <1>4, <1>5, <1>6, <2>2, <3>1
  <2> QED BY <2>1, <2>2
<1>9. S.slots = Moved([side.slots EXCEPT ![id] = NoSlot], closed, p) /\ S.free = Append(side.free, id)
      /\ S.buckets = (IF closed = <<>> THEN Without(side.buckets, key)
                      ELSE [side.buckets EXCEPT ![key] = closed])
      /\ S.slotOf = Without(side.slotOf, rowId)
      /\ S = [slots |-> S.slots, free |-> S.free, buckets |-> S.buckets, slotOf |-> S.slotOf]
  BY <1>2 DEF Unbucketed, slot, key, p, b, closed
<1>10. /\ DOMAIN S.slots = DOMAIN side.slots /\ S.slots[id] = NoSlot /\ S.slots \in Slots
       /\ \A i \in DOMAIN side.slots \ Used(side) : S.slots[i] = NoSlot
       /\ \A i \in Used(side) \ {id} :
            /\ S.slots[i] \in Slot /\ S.slots[i].row = side.slots[i].row
            /\ S.slots[i].key = side.slots[i].key /\ S.slots[i].matches = side.slots[i].matches
            /\ S.slots[i].pos = IF p # n /\ i = b[n] THEN p ELSE side.slots[i].pos
  <2> DEFINE slots0 == [side.slots EXCEPT ![id] = NoSlot]
  <2>1. side.slots \in Slots /\ DOMAIN side.slots = 1..Len(side.slots) /\ Len(side.slots) \in Nat
    BY <1>1 DEF SideType, Slots
  <2>2. slots0 \in Slots /\ DOMAIN slots0 = DOMAIN side.slots /\ slots0[id] = NoSlot
        /\ \A i \in DOMAIN side.slots : i # id => slots0[i] = side.slots[i]
    <3>1. id \in DOMAIN side.slots /\ NoSlot \in Slot \cup {NoSlot}
      BY <1>3, <2>1 DEF id
    <3>2. slots0 \in Slots /\ Replaced(side.slots, id, NoSlot, slots0)
      BY <2>1, <3>1, SlotReplaced
    <3> QED BY <3>2 DEF Replaced
  <2> HIDE DEF slots0
  <2>3. \A i \in Used(side) \ {id} : slots0[i] = side.slots[i] /\ slots0[i] \in Slot /\ i \in DOMAIN side.slots
    BY <1>1, <2>2, UsedSlots DEF Used
  <2>4. \A i \in DOMAIN side.slots \ Used(side) : slots0[i] = NoSlot
    BY <2>2 DEF Used
  <2>5. S.slots = Moved(slots0, closed, p)
    BY <1>9 DEF slots0
  <2>6. CASE p = n
    <3>1. S.slots = slots0
      BY <1>5, <1>7, <2>5, <2>6 DEF Moved
    <3>2. \A i \in Used(side) \ {id} : S.slots[i] = side.slots[i] /\ S.slots[i] \in Slot
      BY <2>3, <3>1
    <3> QED BY <2>2, <2>4, <2>6, <3>1, <3>2
  <2>7. CASE p # n
    <3>1. p \in DOMAIN closed /\ closed[p] = b[n] /\ p < n
      BY <1>5, <1>7, <2>7
    <3> DEFINE m == b[n]
               new == [slots0[m] EXCEPT !.pos = p]
    <3>2. m \in Used(side) \ {id}
      BY <1>8, <3>1, <1>5, <1>7
    <3>3. S.slots = [slots0 EXCEPT ![m] = new]
      BY <2>5, <3>1 DEF Moved
    <3>4. slots0[m] \in Slot
      BY <2>3, <3>2
    <3> HIDE DEF m
    <3>5. new \in Slot /\ new.row = slots0[m].row /\ new.key = slots0[m].key
          /\ new.matches = slots0[m].matches /\ new.pos = p
      BY <1>3, <3>4 DEF Slot
    <3> HIDE DEF new
    <3>6. /\ S.slots \in Slots /\ DOMAIN S.slots = DOMAIN side.slots /\ S.slots[m] = new
          /\ \A i \in DOMAIN side.slots : i # m => S.slots[i] = slots0[i]
      <4>1. new \in Slot \cup {NoSlot} /\ m \in DOMAIN slots0
        BY <2>2, <2>3, <3>2, <3>5
      <4>2. S.slots \in Slots /\ Replaced(slots0, m, new, S.slots)
        BY <2>2, <3>3, <4>1, SlotReplaced
      <4> QED BY <2>2, <4>2 DEF Replaced
    <3>7. \A i \in DOMAIN side.slots \ Used(side) : i # m
      BY <3>2
    <3>8. S.slots[id] = NoSlot
      BY <1>3, <2>1, <2>2, <3>2, <3>6 DEF Used, id
    <3>9. ASSUME NEW i \in Used(side) \ {id}
          PROVE  /\ S.slots[i] \in Slot /\ S.slots[i].row = side.slots[i].row
                 /\ S.slots[i].key = side.slots[i].key /\ S.slots[i].matches = side.slots[i].matches
                 /\ S.slots[i].pos = IF i = m THEN p ELSE side.slots[i].pos
      <4>1. CASE i = m
        BY <2>3, <3>5, <3>6, <4>1
      <4>2. CASE i # m
        BY <2>3, <3>6, <4>2
      <4> QED BY <4>1, <4>2
    <3>10. \A i \in DOMAIN side.slots \ Used(side) : S.slots[i] = NoSlot
      BY <2>4, <3>6, <3>7
    <3>11. m = b[n]
      BY DEF m
    <3> HIDE DEF m
    <3>12. ASSUME NEW i \in Used(side) \ {id}
           PROVE  /\ S.slots[i] \in Slot /\ S.slots[i].row = side.slots[i].row
                  /\ S.slots[i].key = side.slots[i].key /\ S.slots[i].matches = side.slots[i].matches
                  /\ S.slots[i].pos = IF p # n /\ i = b[n] THEN p ELSE side.slots[i].pos
      BY <2>7, <3>9, <3>11
    <3> QED BY <3>6, <3>8, <3>10, <3>12
  <2> QED BY <2>6, <2>7
<1>11. Used(S) = Used(side) \ {id}
  <2>1. \A i \in Used(side) \ {id} : i \in DOMAIN S.slots /\ S.slots[i] # NoSlot
    BY <1>10, SlotIsRow DEF Used
  <2> QED BY <1>10, <2>1 DEF Used
<1>12. FreeExact(S)
  <2>1. side.free \in Seq(Nat) /\ id \in Nat
    BY <1>1, <1>3 DEF SideType, id
  <2> DEFINE m == Len(side.free)
  <2>2. /\ m \in Nat /\ DOMAIN side.free = 1..m /\ DOMAIN S.free = 1..(m + 1) /\ S.free[m + 1] = id
        /\ \A q \in 1..m : S.free[q] = side.free[q]
    BY <1>9, <2>1
  <2> HIDE DEF m
  <2>3. \A q \in 1..m : side.free[q] \in DOMAIN side.slots \ Used(side)
    BY <1>1, <2>2 DEF FreeExact
  <2>4. \A q \in 1..(m + 1) : q = m + 1 \/ q \in 1..m
    BY <2>2
  <2>5. id \in DOMAIN S.slots /\ id \in Used(side)
    BY <1>2, <1>10 DEF Used, id
  <2>6. ASSUME NEW q \in DOMAIN S.free PROVE S.free[q] \in DOMAIN S.slots \ Used(S)
    BY <1>10, <1>11, <2>2, <2>3, <2>4, <2>5
  <2>7. ASSUME NEW i \in DOMAIN S.slots \ Used(S) PROVE \E q \in DOMAIN S.free : S.free[q] = i
    <3>1. CASE i = id
      <4>1. m + 1 \in DOMAIN S.free
        BY <2>2
      <4> QED BY <2>2, <3>1, <4>1
    <3>2. CASE i # id
      <4>1. i \in DOMAIN side.slots \ Used(side)
        BY <1>10, <1>11, <3>2
      <4>2. PICK q \in 1..m : side.free[q] = i
        BY <1>1, <2>2, <4>1 DEF FreeExact
      <4>3. q \in DOMAIN S.free /\ S.free[q] = i
        BY <2>2, <4>2
      <4> QED BY <4>3
    <3> QED BY <3>1, <3>2
  <2>8. ASSUME NEW q \in DOMAIN S.free, NEW r \in DOMAIN S.free, S.free[q] = S.free[r] PROVE q = r
    <3>1. CASE q \in 1..m /\ r \in 1..m
      BY <1>1, <2>2, <2>8, <3>1 DEF FreeExact
    <3>2. CASE q = m + 1 /\ r \in 1..m
      BY <2>2, <2>3, <2>5, <2>8, <3>2
    <3>3. CASE r = m + 1 /\ q \in 1..m
      BY <2>2, <2>3, <2>5, <2>8, <3>3
    <3> QED BY <2>2, <2>4, <3>1, <3>2, <3>3
  <2> QED BY <2>6, <2>7, <2>8 DEF FreeExact
<1>13. DOMAIN S.slotOf = DOMAIN side.slotOf \ {rowId}
       /\ \A x \in DOMAIN side.slotOf : x # rowId => S.slotOf[x] = side.slotOf[x]
  BY <1>9 DEF Without
<1>14. Indexed(S)
  <2>1. ASSUME NEW i \in Used(S)
        PROVE  S.slots[i].row.id \in DOMAIN S.slotOf /\ S.slotOf[S.slots[i].row.id] = i
    <3>1. i \in Used(side) /\ i # id /\ S.slots[i].row = side.slots[i].row
      BY <1>10, <1>11
    <3>2. side.slots[i].row.id \in DOMAIN side.slotOf /\ side.slotOf[side.slots[i].row.id] = i
      BY <1>1, <3>1 DEF Indexed
    <3>3. side.slots[i].row.id # rowId
      BY <3>1, <3>2 DEF id
    <3> QED BY <1>13, <3>1, <3>2, <3>3
  <2>2. ASSUME NEW x \in DOMAIN S.slotOf
        PROVE  S.slotOf[x] \in Used(S) /\ S.slots[S.slotOf[x]].row.id = x
    <3>1. x \in DOMAIN side.slotOf /\ x # rowId /\ S.slotOf[x] = side.slotOf[x]
      BY <1>13
    <3>2. side.slotOf[x] \in Used(side) /\ side.slots[side.slotOf[x]].row.id = x
      BY <1>1, <3>1 DEF Indexed
    <3>3. side.slotOf[x] # id
      BY <1>2, <3>1, <3>2 DEF slot
    <3> QED BY <1>10, <1>11, <3>1, <3>2, <3>3
  <2> QED BY <2>1, <2>2 DEF Indexed
<1>15. /\ DOMAIN S.buckets = IF closed = <<>> THEN DOMAIN side.buckets \ {key} ELSE DOMAIN side.buckets
       /\ closed # <<>> => S.buckets[key] = closed
       /\ \A k \in DOMAIN side.buckets : k # key => S.buckets[k] = side.buckets[k]
  <2>1. PICK D \in SUBSET Key : side.buckets \in [D -> Seq(Nat)]
    BY <1>1 DEF SideType, Buckets
  <2>2. CASE closed = <<>>
    BY <1>9, <2>2 DEF Without
  <2>3. CASE closed # <<>>
    BY <1>4, <1>9, <2>1, <2>3
  <2> QED BY <2>2, <2>3
<1>16. closed = <<>> <=> n = 1
  BY <1>5, <1>7
<1>17. Bucketed(S)
  <2>1. ASSUME NEW i \in Used(S)
        PROVE  /\ S.slots[i].key \in DOMAIN S.buckets
               /\ S.slots[i].pos \in DOMAIN S.buckets[S.slots[i].key]
               /\ S.buckets[S.slots[i].key][S.slots[i].pos] = i
    <3>1. i \in Used(side) /\ i # id /\ S.slots[i].key = side.slots[i].key
          /\ S.slots[i].pos = IF p # n /\ i = b[n] THEN p ELSE side.slots[i].pos
      BY <1>10, <1>11
    <3>2. /\ side.slots[i].key \in DOMAIN side.buckets
          /\ side.slots[i].pos \in DOMAIN side.buckets[side.slots[i].key]
          /\ side.buckets[side.slots[i].key][side.slots[i].pos] = i
      BY <1>1, <3>1 DEF Bucketed
    <3>3. CASE side.slots[i].key # key
      <4>1. i # b[n]
        BY <1>5, <1>6, <3>3
      <4> QED BY <1>15, <3>1, <3>2, <3>3, <4>1
    <3>4. CASE side.slots[i].key = key
      <4> DEFINE r == side.slots[i].pos
      <4>1. r \in 1..n /\ b[r] = i /\ r # p
        BY <1>4, <1>5, <3>1, <3>2, <3>4 DEF b
      <4> HIDE DEF r
      <4>2. n # 1 /\ closed # <<>> /\ key \in DOMAIN S.buckets /\ S.buckets[key] = closed
        BY <1>4, <1>5, <1>15, <1>16, <4>1
      <4>3. CASE r = n
        <5>1. S.slots[i].pos = p /\ p \in 1..(n - 1) /\ closed[p] = b[n] /\ i = b[n]
          BY <1>5, <1>7, <3>1, <4>1, <4>3
        <5> QED BY <1>7, <3>1, <3>4, <4>2, <5>1
      <4>4. CASE r # n
        <5>1. i # b[n]
          <6>1. n \in 1..n
            BY <1>5
          <6>2. side.slots[b[n]].pos = n
            BY <1>6, <6>1
          <6> QED BY <4>4, <6>2 DEF r
        <5>2. S.slots[i].pos = r /\ r \in 1..(n - 1) /\ closed[r] = b[r]
          BY <1>5, <1>7, <3>1, <4>1, <4>4, <5>1 DEF r
        <5> QED BY <1>7, <3>1, <3>4, <4>1, <4>2, <5>2
      <4> QED BY <4>3, <4>4
    <3> QED BY <3>3, <3>4
  <2>2. ASSUME NEW k \in DOMAIN S.buckets
        PROVE  /\ S.buckets[k] # <<>>
               /\ \A q \in DOMAIN S.buckets[k] :
                    /\ S.buckets[k][q] \in Used(S)
                    /\ S.slots[S.buckets[k][q]].key = k
                    /\ S.slots[S.buckets[k][q]].pos = q
    <3>1. CASE k # key
      <4>1. k \in DOMAIN side.buckets /\ S.buckets[k] = side.buckets[k]
        BY <1>15, <3>1
      <4>2. side.buckets[k] # <<>>
        BY <1>1, <4>1 DEF Bucketed
      <4>3. ASSUME NEW q \in DOMAIN side.buckets[k]
            PROVE  LET i == side.buckets[k][q]
                   IN  i \in Used(S) /\ S.slots[i].key = k /\ S.slots[i].pos = q
        <5> DEFINE i == side.buckets[k][q]
        <5>1. i \in Used(side) /\ side.slots[i].key = k /\ side.slots[i].pos = q
          BY <1>1, <4>1 DEF Bucketed
        <5>2. i # id /\ i # b[n]
          BY <1>5, <1>6, <3>1, <5>1 DEF key, slot
        <5> HIDE DEF i
        <5>3. i \in Used(S) /\ S.slots[i].key = k /\ S.slots[i].pos = q
          BY <1>10, <1>11, <5>1, <5>2
        <5> QED BY <5>3 DEF i
      <4> QED BY <4>1, <4>2, <4>3
    <3>2. CASE k = key
      <4>1. closed # <<>> /\ S.buckets[k] = closed
        BY <1>15, <3>2
      <4>2. ASSUME NEW q \in 1..(n - 1)
            PROVE  closed[q] \in Used(S) /\ S.slots[closed[q]].key = key /\ S.slots[closed[q]].pos = q
        <5>1. closed[q] \in Used(side) \ {id} /\ side.slots[closed[q]].key = key
          BY <1>8
        <5>2. CASE q = p
          <6>1. closed[q] = b[n] /\ p # n
            BY <1>5, <1>7, <5>2
          <6> QED BY <1>10, <1>11, <5>1, <5>2, <6>1
        <5>3. CASE q # p
          <6>1. closed[q] = b[q] /\ q \in 1..n /\ n \in 1..n /\ q # n
            BY <1>5, <1>7, <5>3
          <6>2. side.slots[b[q]].pos = q /\ b[q] # b[n]
            BY <1>6, <6>1
          <6> QED BY <1>10, <1>11, <5>1, <6>1, <6>2
        <5> QED BY <5>2, <5>3
      <4> QED BY <1>7, <3>2, <4>1, <4>2
    <3> QED BY <3>1, <3>2
  <2> QED BY <2>1, <2>2 DEF Bucketed
<1>18. S \in SideType
  <2>1. PICK D \in SUBSET Key : side.buckets \in [D -> Seq(Nat)]
    BY <1>1 DEF SideType, Buckets
  <2>2. S.buckets \in Buckets
    <3>1. CASE closed = <<>>
      <4>1. S.buckets = [k \in D \ {key} |-> side.buckets[k]]
        BY <1>9, <2>1, <3>1 DEF Without
      <4>2. S.buckets \in [D \ {key} -> Seq(Nat)] /\ D \ {key} \in SUBSET Key
        BY <2>1, <4>1
      <4> QED BY <4>2 DEF Buckets
    <3>2. CASE closed # <<>>
      <4>1. S.buckets \in [D -> Seq(Nat)]
        BY <1>7, <1>9, <2>1, <3>2
      <4> QED BY <4>1 DEF Buckets
    <3> QED BY <3>1, <3>2
  <2>3. S.slotOf \in RowIndexes
    <3>1. PICK E \in SUBSET Id : side.slotOf \in [E -> Nat]
      BY <1>1 DEF SideType, RowIndexes
    <3>2. S.slotOf = [x \in E \ {rowId} |-> side.slotOf[x]]
      BY <1>9, <3>1 DEF Without
    <3>3. S.slotOf \in [E \ {rowId} -> Nat] /\ E \ {rowId} \in SUBSET Id
      BY <3>1, <3>2
    <3> QED BY <3>3 DEF RowIndexes
  <2>4. S.free \in Seq(Nat)
    <3>1. side.free \in Seq(Nat) /\ id \in Nat
      BY <1>1, <1>3 DEF SideType, id
    <3> QED BY <1>9, <3>1
  <2> QED BY <1>9, <1>10, <2>2, <2>3, <2>4, SideMade
<1>19. Len(Bucket(S, key)) = Len(Bucket(side, key)) - 1
  <2>1. CASE closed = <<>>
    <3>1. key \notin DOMAIN S.buckets
      BY <1>15, <2>1
    <3>2. Bucket(S, key) = <<>>
      BY <3>1 DEF Bucket
    <3>3. Len(Bucket(side, key)) = 1
      BY <1>5, <1>16, <2>1 DEF n
    <3> QED BY <3>2, <3>3
  <2>2. CASE closed # <<>>
    <3>1. Bucket(S, key) = closed
      BY <1>4, <1>15, <2>2 DEF Bucket
    <3> QED BY <1>5, <1>7, <3>1 DEF n
  <2> QED BY <2>1, <2>2
<1>20. ASSUME NEW k, k # key PROVE Bucket(S, k) = Bucket(side, k)
  BY <1>15, <1>20 DEF Bucket
<1>21. SideOK(S)
  BY <1>12, <1>14, <1>17, <1>18 DEF SideOK
<1>22. /\ key = side.slots[id].key
       /\ \A i \in Used(S) : /\ S.slots[i].row = side.slots[i].row
                             /\ S.slots[i].key = side.slots[i].key
                             /\ S.slots[i].matches = side.slots[i].matches
  BY <1>10, <1>11 DEF key, slot
<1>23. id = side.slotOf[rowId]
  BY DEF id
<1> HIDE DEF id
<1>24. Removed(side, S, rowId)
  BY <1>11, <1>13, <1>19, <1>20, <1>21, <1>22, <1>23 DEF Removed
<1> QED BY <1>24 DEF S

-----------------------------------------------------------------------------
(* The slots of a bucket have matched one row more or less.                 *)

MatchOne(side, i, change) == [side EXCEPT !.slots[i].matches = Max({@ + change, 0})]

LEMMA MatchedRuns ==
  ASSUME NEW side, NEW hits, Len(hits) \in Nat, NEW change
  PROVE  \E f : /\ f[0] = side
                /\ \A n \in 1..Len(hits) : f[n] = MatchOne(f[n - 1], hits[n], change)
                /\ Matched(side, hits, change) = f[Len(hits)]
<1> DEFINE N == Len(hits)
           Step(n, x) == MatchOne(x, hits[n], change)
           Run(f, k) == f = [n \in 0..k |-> IF n = 0 THEN side ELSE Step(n, f[n - 1])]
           P == {k \in 0..N : \E f : Run(f, k)}
<1>0. Matched(side, hits, change) = (CHOOSE f : Run(f, N))[N]
  BY DEF Matched, MatchOne
<1> HIDE DEF N, Step
<1>1. 0 \in P
  <2>1. Run([n \in 0..0 |-> side], 0) /\ 0 \in 0..N
    BY DEF N
  <2> QED BY <2>1
<1>2. ASSUME NEW k \in 1..N, k - 1 \in P PROVE k \in P
  <2>1. PICK f : Run(f, k - 1)
    BY <1>2
  <2> DEFINE h == [n \in 0..k |-> IF n = k THEN Step(k, f[k - 1]) ELSE f[n]]
  <2>2. ASSUME NEW n \in 0..k PROVE h[n] = IF n = 0 THEN side ELSE Step(n, h[n - 1])
    <3>1. CASE n = 0
      BY <2>1, <3>1
    <3>2. CASE n # 0 /\ n # k
      <4>1. h[n] = f[n] /\ h[n - 1] = f[n - 1] /\ n \in 0..(k - 1)
        BY <3>2
      <4> QED BY <2>1, <3>2, <4>1
    <3>3. CASE n = k
      <4>1. h[k] = Step(k, f[k - 1]) /\ h[k - 1] = f[k - 1]
        OBVIOUS
      <4> QED BY <3>3, <4>1
    <3> QED BY <3>1, <3>2, <3>3
  <2>3. h = [n \in 0..k |-> h[n]]
    OBVIOUS
  <2> HIDE DEF h
  <2>4. Run(h, k)
    BY <2>2, <2>3
  <2> QED BY <2>4
<1> HIDE DEF P
<1>3. N \in Nat
  BY DEF N
<1>4. N \in P
  BY <1>1, <1>2, <1>3, StepByStep
<1>5. PICK f : f = (CHOOSE e : Run(e, N)) /\ Run(f, N)
  BY <1>4 DEF P
<1>6. f[0] = side /\ \A n \in 1..N : f[n] = Step(n, f[n - 1])
  <2>1. \A n \in 0..N : f[n] = IF n = 0 THEN side ELSE Step(n, f[n - 1])
    <3>1. Run(f, N)
      BY <1>5
    <3> QED BY <3>1
  <2>2. 0 \in 0..N /\ \A n \in 1..N : n \in 0..N /\ n # 0
    BY <1>3
  <2> QED BY <2>1, <2>2
<1>7. Matched(side, hits, change) = f[N]
  BY <1>0, <1>5
<1> QED BY <1>6, <1>7 DEF N, Step

LEMMA MaxWithZero ==
  ASSUME NEW a \in Int PROVE Max({a, 0}) \in Nat /\ (a >= 0 => Max({a, 0}) = a)
<1>1. \E x \in {a, 0} : \A y \in {a, 0} : x >= y
  <2>1. CASE a >= 0
    BY <2>1
  <2>2. CASE ~(a >= 0)
    BY <2>2
  <2> QED BY <2>1, <2>2
<1>2. Max({a, 0}) \in {a, 0} /\ \A y \in {a, 0} : Max({a, 0}) >= y
  BY <1>1 DEF Max
<1> QED BY <1>2

\* The slots hits hold rows, each once.
Hits(side, hits) ==
  /\ hits \in Seq(Nat)
  /\ \A m \in 1..Len(hits) : hits[m] \in Used(side)
  /\ \A m, n \in 1..Len(hits) : hits[m] = hits[n] => m = n

\* S is the side with the match counts of the first n of hits changed.
Recounted(side, S, hits, n, change) ==
  /\ S = [slots |-> S.slots, free |-> side.free, buckets |-> side.buckets, slotOf |-> side.slotOf]
  /\ S.slots \in Slots /\ DOMAIN S.slots = DOMAIN side.slots
  /\ \A m \in 1..n : /\ S.slots[hits[m]] \in Slot
                     /\ S.slots[hits[m]].row = side.slots[hits[m]].row
                     /\ S.slots[hits[m]].key = side.slots[hits[m]].key
                     /\ S.slots[hits[m]].pos = side.slots[hits[m]].pos
                     /\ S.slots[hits[m]].matches = Max({side.slots[hits[m]].matches + change, 0})
  /\ \A i \in DOMAIN side.slots : (\A m \in 1..n : hits[m] # i) => S.slots[i] = side.slots[i]

LEMMA MatchedRecounts ==
  ASSUME NEW side \in SideType, NEW hits, Hits(side, hits), NEW change \in {1, -1}
  PROVE  Recounted(side, Matched(side, hits, change), hits, Len(hits), change)
<1> DEFINE N == Len(hits)
<1>1. N \in Nat
  BY DEF Hits
<1>2. PICK f : /\ f[0] = side
               /\ \A n \in 1..N : f[n] = MatchOne(f[n - 1], hits[n], change)
               /\ Matched(side, hits, change) = f[N]
  BY <1>1, MatchedRuns
<1> HIDE DEF N
<1> DEFINE P == {n \in 0..N : Recounted(side, f[n], hits, n, change)}
<1>3. 0 \in P
  <2>1. side.slots \in Slots
        /\ side = [slots |-> side.slots, free |-> side.free, buckets |-> side.buckets, slotOf |-> side.slotOf]
    BY DEF SideType
  <2>2. Recounted(side, side, hits, 0, change)
    BY <2>1 DEF Recounted
  <2> QED BY <1>1, <1>2, <2>2
<1>4. ASSUME NEW n \in 1..N, n - 1 \in P PROVE n \in P
  <2> DEFINE x == f[n - 1]
             i == hits[n]
             new == [x.slots[i] EXCEPT !.matches = Max({@ + change, 0})]
  <2>1. Recounted(side, x, hits, n - 1, change)
    BY <1>4
  <2>2. i \in Used(side) /\ \A m \in 1..(n - 1) : hits[m] # i
    BY <1>1 DEF Hits, N
  <2>3. x.slots[i] = side.slots[i] /\ x.slots[i] \in Slot /\ i \in DOMAIN x.slots
    BY <2>1, <2>2, UsedSlots DEF Recounted, Used
  <2>4. Max({x.slots[i].matches + change, 0}) \in Nat
    <3>1. x.slots[i].matches + change \in Int
      BY <2>3 DEF Slot
    <3> QED BY <3>1, MaxWithZero
  <2>5. new \in Slot /\ new.row = x.slots[i].row /\ new.key = x.slots[i].key /\ new.pos = x.slots[i].pos
        /\ new.matches = Max({x.slots[i].matches + change, 0})
    BY <2>3, <2>4 DEF Slot
  <2>6. f[n] = [x EXCEPT !.slots = [x.slots EXCEPT ![i] = new]]
    BY <1>2 DEF MatchOne
  <2> DEFINE slots == [x.slots EXCEPT ![i] = new]
  <2>7. x.slots \in Slots
        /\ x = [slots |-> x.slots, free |-> side.free, buckets |-> side.buckets, slotOf |-> side.slotOf]
    BY <2>1 DEF Recounted
  <2> HIDE DEF x, new
  <2>8. slots \in Slots /\ Replaced(x.slots, i, new, slots)
    BY <2>3, <2>5, <2>7, SlotReplaced
  <2> HIDE DEF slots
  <2>9. f[n] = [slots |-> slots, free |-> side.free, buckets |-> side.buckets, slotOf |-> side.slotOf]
    BY <2>6, <2>7 DEF slots
  <2> DEFINE y == f[n]
  <2>10. y = [slots |-> slots, free |-> side.free, buckets |-> side.buckets, slotOf |-> side.slotOf]
    BY <2>9
  <2> HIDE DEF y
  <2>11. y.slots = slots
    BY <2>10
  <2> HIDE DEF i
  <2>12. ASSUME NEW m \in 1..n
         PROVE  /\ slots[hits[m]] \in Slot
                /\ slots[hits[m]].row = side.slots[hits[m]].row
                /\ slots[hits[m]].key = side.slots[hits[m]].key
                /\ slots[hits[m]].pos = side.slots[hits[m]].pos
                /\ slots[hits[m]].matches = Max({side.slots[hits[m]].matches + change, 0})
    <3>1. CASE m = n
      <4>1. hits[m] = i /\ slots[hits[m]] = new
        BY <2>8, <3>1 DEF i, Replaced
      <4> QED BY <2>3, <2>5, <4>1
    <3>2. CASE m # n
      <4>1. m \in 1..(n - 1) /\ m \in 1..N
        BY <1>1, <3>2
      <4>2. hits[m] # i /\ hits[m] \in DOMAIN x.slots
        BY <2>1, <2>2, <4>1 DEF Recounted, Hits, Used, N
      <4>3. slots[hits[m]] = x.slots[hits[m]]
        BY <2>8, <4>2 DEF Replaced
      <4> QED BY <2>1, <4>1, <4>3 DEF Recounted
    <3> QED BY <3>1, <3>2
  <2>13. ASSUME NEW j \in DOMAIN side.slots, \A m \in 1..n : hits[m] # j
         PROVE  slots[j] = side.slots[j]
    <3>1. j # i /\ \A m \in 1..(n - 1) : hits[m] # j
      BY <2>13, <1>1 DEF i
    <3>2. x.slots[j] = side.slots[j] /\ j \in DOMAIN x.slots
      BY <2>1, <3>1 DEF Recounted
    <3> QED BY <2>8, <3>1, <3>2 DEF Replaced
  <2>14. DOMAIN slots = DOMAIN side.slots
    BY <2>1, <2>8 DEF Recounted, Replaced
  <2>15. Recounted(side, y, hits, n, change)
    BY <2>8, <2>10, <2>11, <2>12, <2>13, <2>14 DEF Recounted
  <2> QED BY <1>1, <2>15 DEF y
<1> HIDE DEF P
<1>5. N \in P
  BY <1>1, <1>3, <1>4, StepByStep
<1>6. Recounted(side, f[N], hits, N, change)
  BY <1>5 DEF P
<1> QED BY <1>2, <1>6 DEF N

LEMMA BucketHits ==
  ASSUME NEW side, SideOK(side), NEW key
  PROVE  /\ Hits(side, Bucket(side, key))
         /\ \A i \in Used(side) : side.slots[i].key = key <=>
              \E m \in 1..Len(Bucket(side, key)) : Bucket(side, key)[m] = i
<1> DEFINE b == Bucket(side, key)
<1>1. side \in SideType /\ Bucketed(side)
  BY DEF SideOK
<1>2. b \in Seq(Nat) /\ DOMAIN b = 1..Len(b)
  BY <1>1, BucketIsSeq
<1>3. CASE key \in DOMAIN side.buckets
  <2>1. b = side.buckets[key]
    BY <1>3 DEF Bucket
  <2>2. \A m \in 1..Len(b) : b[m] \in Used(side) /\ side.slots[b[m]].key = key /\ side.slots[b[m]].pos = m
    BY <1>1, <1>2, <1>3, <2>1 DEF Bucketed
  <2>3. \A i \in Used(side) : side.slots[i].key = key =>
          side.slots[i].pos \in DOMAIN b /\ b[side.slots[i].pos] = i
    BY <1>1, <2>1 DEF Bucketed
  <2> HIDE DEF b
  <2>4. Hits(side, b)
    BY <1>2, <2>2 DEF Hits
  <2>5. ASSUME NEW i \in Used(side)
        PROVE  side.slots[i].key = key <=> \E m \in 1..Len(b) : b[m] = i
    BY <1>2, <2>2, <2>3
  <2> QED BY <2>4, <2>5 DEF b
<1>4. CASE key \notin DOMAIN side.buckets
  <2>1. b = <<>> /\ 1..Len(b) = {}
    BY <1>4 DEF Bucket
  <2>2. \A i \in Used(side) : side.slots[i].key # key
    BY <1>1, <1>4 DEF Bucketed
  <2>3. Hits(side, b)
    BY <1>2, <2>1 DEF Hits
  <2> QED BY <2>1, <2>2, <2>3
<1> QED BY <1>3, <1>4

\* S is the side with the match counts of the rows with this key changed.
Rematched(side, S, key, change) ==
  /\ SideOK(S)
  /\ S.slotOf = side.slotOf /\ S.buckets = side.buckets /\ Used(S) = Used(side)
  /\ \A i \in Used(side) :
       /\ S.slots[i].row = side.slots[i].row /\ S.slots[i].key = side.slots[i].key
       /\ S.slots[i].matches = IF side.slots[i].key = key
                               THEN Max({side.slots[i].matches + change, 0})
                               ELSE side.slots[i].matches

LEMMA MatchedOK ==
  ASSUME NEW side, SideOK(side), NEW key, NEW change \in {1, -1}
  PROVE  Rematched(side, Matched(side, Bucket(side, key), change), key, change)
<1> DEFINE hits == Bucket(side, key)
           S == Matched(side, hits, change)
<1>1. side \in SideType /\ FreeExact(side) /\ Indexed(side) /\ Bucketed(side)
  BY DEF SideOK
<1>2. /\ Hits(side, hits)
      /\ \A i \in Used(side) : side.slots[i].key = key <=> \E m \in 1..Len(hits) : hits[m] = i
  BY BucketHits
<1> HIDE DEF hits
<1>3. Recounted(side, S, hits, Len(hits), change)
  BY <1>1, <1>2, MatchedRecounts
<1> HIDE DEF S
<1>4. S = [slots |-> S.slots, free |-> side.free, buckets |-> side.buckets, slotOf |-> side.slotOf]
      /\ S.slots \in Slots /\ DOMAIN S.slots = DOMAIN side.slots
  BY <1>3 DEF Recounted
<1>5. S.free = side.free /\ S.buckets = side.buckets /\ S.slotOf = side.slotOf
  BY <1>4
<1>6. ASSUME NEW i \in Used(side)
      PROVE  /\ S.slots[i] \in Slot /\ i \in DOMAIN S.slots
             /\ S.slots[i].row = side.slots[i].row /\ S.slots[i].key = side.slots[i].key
             /\ S.slots[i].pos = side.slots[i].pos
             /\ S.slots[i].matches = IF side.slots[i].key = key
                                     THEN Max({side.slots[i].matches + change, 0})
                                     ELSE side.slots[i].matches
  <2>1. side.slots[i] \in Slot /\ i \in DOMAIN side.slots
    BY <1>1, UsedSlots DEF Used
  <2>2. CASE side.slots[i].key = key
    <3>1. PICK m \in 1..Len(hits) : hits[m] = i
      BY <1>2, <2>2
    <3> QED BY <1>3, <1>4, <2>1, <2>2, <3>1 DEF Recounted
  <2>3. CASE side.slots[i].key # key
    <3>1. S.slots[i] = side.slots[i]
      BY <1>2, <1>3, <2>1, <2>3 DEF Recounted
    <3> QED BY <1>4, <2>1, <2>3, <3>1
  <2> QED BY <2>2, <2>3
<1>7. ASSUME NEW i \in DOMAIN side.slots \ Used(side) PROVE S.slots[i] = NoSlot
  <2>1. \A m \in 1..Len(hits) : hits[m] # i
    BY <1>2 DEF Hits
  <2>2. S.slots[i] = side.slots[i]
    BY <1>3, <2>1 DEF Recounted
  <2> QED BY <2>2 DEF Used
<1>8. Used(S) = Used(side)
  <2>1. \A i \in Used(side) : S.slots[i] # NoSlot /\ i \in DOMAIN S.slots
    BY <1>6, SlotIsRow
  <2> QED BY <1>4, <1>7, <2>1 DEF Used
<1>9. S \in SideType
  <2>1. side.free \in Seq(Nat) /\ side.buckets \in Buckets /\ side.slotOf \in RowIndexes
    BY <1>1 DEF SideType
  <2>2. S.free \in Seq(Nat) /\ S.buckets \in Buckets /\ S.slotOf \in RowIndexes
    BY <1>5, <2>1
  <2>3. S = [slots |-> S.slots, free |-> S.free, buckets |-> S.buckets, slotOf |-> S.slotOf]
    BY <1>4, <1>5
  <2> QED BY <1>4, <2>2, <2>3, SideMade
<1>10. SideOK(S)
  <2>1. SameShape(side, S)
    BY <1>4, <1>5, <1>6, <1>8, <1>9 DEF SameShape
  <2> QED BY <2>1, SameShapeOK
<1>11. Rematched(side, S, key, change)
  BY <1>5, <1>6, <1>8, <1>10 DEF Rematched
<1> QED BY <1>11 DEF S, hits

-----------------------------------------------------------------------------
(* The deltas that a join emits.                                            *)

JoinRow == Row \cup {Joined(l, r) : l, r \in Row} \cup {PadRight(r, Width) : r \in Row}
               \cup {PadLeft(r, Width) : r \in Row}
Out == {Insert(r) : r \in JoinRow} \cup {Delete(r) : r \in JoinRow}

LEMMA FlattenTyped ==
  ASSUME NEW S, NEW seqs \in Seq(Seq(S))
  PROVE  FlattenSeq(seqs) \in Seq(S)
<1> DEFINE N == Len(seqs)
           T == Seq(S)
           G == [n \in 1..N |-> [x \in T |-> x \o seqs[n]]]
           Run(f) == f = [i \in 1..N |-> IF i = 1 THEN seqs[i] ELSE f[i - 1] \o seqs[i]]
<1>1. N \in Nat /\ \A n \in 1..N : seqs[n] \in T
  OBVIOUS
<1>2. CASE N = 0
  BY <1>2 DEF FlattenSeq
<1>3. CASE N # 0
  <2>1. FlattenSeq(seqs) = (CHOOSE f : Run(f))[N]
    BY <1>3 DEF FlattenSeq
  <2>2. <<>> \in T /\ \A x, y \in T : x \o y \in T /\ <<>> \o y = y
    OBVIOUS
  <2> HIDE DEF N, T
  <2>3. Steps(G, T, N)
    BY <1>1, <2>2 DEF Steps
  <2>4. PICK h : Iterates(h, G, T, N, <<>>)
    BY <1>1, <2>2, <2>3, IterationExists
  <2>5. h \in [0..N -> T] /\ h[0] = <<>> /\ \A n \in 1..N : h[n - 1] \in T /\ h[n] = h[n - 1] \o seqs[n]
    <3>1. h \in [0..N -> T] /\ h[0] = <<>> /\ \A n \in 1..N : h[n] = G[n][h[n - 1]]
      BY <2>4 DEF Iterates
    <3>2. \A n \in 1..N : n - 1 \in 0..N /\ h[n - 1] \in T
      BY <1>1, <3>1
    <3> QED BY <3>1, <3>2
  <2> DEFINE g == [i \in 1..N |-> h[i]]
  <2>6. Run(g)
    <3>1. ASSUME NEW i \in 1..N PROVE g[i] = IF i = 1 THEN seqs[i] ELSE g[i - 1] \o seqs[i]
      <4>1. CASE i = 1
        <5>1. h[i] = h[i - 1] \o seqs[i] /\ seqs[i] \in T
          BY <1>1, <2>5
        <5>2. i - 1 = 0
          BY <4>1
        <5>3. h[i] = <<>> \o seqs[i]
          BY <2>5, <5>1, <5>2
        <5> QED BY <2>2, <4>1, <5>1, <5>3
      <4>2. CASE i # 1
        <5>1. i - 1 \in 1..N /\ g[i - 1] = h[i - 1]
          BY <1>1, <4>2
        <5> QED BY <2>5, <4>2, <5>1
      <4> QED BY <4>1, <4>2
    <3>2. g = [i \in 1..N |-> g[i]]
      OBVIOUS
    <3> HIDE DEF g
    <3> QED BY <3>1, <3>2
  <2>7. PICK f : f = (CHOOSE e : Run(e)) /\ Run(f)
    BY <2>6
  <2>8. \A i \in 1..N : f[i] = IF i = 1 THEN seqs[i] ELSE f[i - 1] \o seqs[i]
    <3>1. Run(f)
      BY <2>7
    <3> QED BY <3>1
  <2> DEFINE P == {n \in 0..N : n # 0 => f[n] \in T}
  <2>9. ASSUME NEW n \in 1..N, n - 1 \in P PROVE n \in P
    <3>1. CASE n = 1
      BY <1>1, <2>8, <3>1
    <3>2. CASE n # 1
      <4>1. f[n - 1] \in T /\ f[n] = f[n - 1] \o seqs[n] /\ n \in 0..N
        <5>1. n - 1 \in P /\ n - 1 # 0 /\ n \in 0..N
          BY <1>1, <2>9, <3>2
        <5>2. f[n] = IF n = 1 THEN seqs[n] ELSE f[n - 1] \o seqs[n]
          BY <2>8
        <5> QED BY <3>2, <5>1, <5>2
      <4> QED BY <1>1, <2>2, <4>1
    <3> QED BY <3>1, <3>2
  <2>10. 0 \in P
    BY <1>1
  <2> HIDE DEF P
  <2>11. N \in P
    <3>1. N \in Nat
      BY <1>1
    <3>2. 0..N \subseteq P
      BY <2>9, <2>10, <3>1, StepByStep
    <3> QED BY <3>1, <3>2
  <2>12. f[N] \in T
    BY <1>3, <2>11 DEF P
  <2> QED BY <2>1, <2>7, <2>12 DEF T
<1> QED BY <1>2, <1>3

\* What is paired or padded is a row of the join.
LEMMA EmittedRows ==
  ASSUME NEW s \in Side, NEW own \in Row, NEW their \in Row
  PROVE  /\ Insert(Pair(s, own, their)) \in Out /\ Delete(Pair(s, own, their)) \in Out
         /\ Insert(Padded(s, own)) \in Out /\ Delete(Padded(s, own)) \in Out
<1>1. Pair(s, own, their) \in JoinRow
  BY DEF Pair, JoinRow
<1>2. Padded(s, own) \in JoinRow
  BY DEF Padded, JoinRow
<1> QED BY <1>1, <1>2 DEF Out

-----------------------------------------------------------------------------
(* One delta through the join.                                              *)

JoinOK(j) ==
  /\ j = [left |-> j.left, right |-> j.right, out |-> j.out] /\ j.out \in Seq(Out)
  /\ \A s \in Side : SideOK(j[s]) /\ CountsOK(j[s], j[Other(s)])

\* The rows of a side.
RowsOf(side) == DOMAIN side.slotOf

LEMMA SideCases == \A s \in Side : Other(s) \in Side /\ Other(Other(s)) = s /\ s # Other(s)
                                   /\ \A x \in Side : x = s \/ x = Other(s)
BY DEF Side, Other

\* A join and the deltas it has emitted; its two sides.
IsJoin(j) == j = [left |-> j.left, right |-> j.right, out |-> j.out] /\ j.out \in Seq(Out)
HasSides(j, s, A, B) == IsJoin(j) /\ j[s] = A /\ j[Other(s)] = B

\* Both sides are replaced, and deltas emitted.
LEMMA BothReplaced ==
  ASSUME NEW j, IsJoin(j),
         NEW s \in Side, NEW A, NEW B, NEW ds \in Seq(Out),
         NEW J, J = Emit([j EXCEPT ![s] = A, ![Other(s)] = B], ds)
  PROVE  HasSides(J, s, A, B)
<1> USE DEF IsJoin, HasSides
<1> DEFINE out == j.out \o ds
<1>1. out \in Seq(Out)
  <2>1. \A S, a, b : a \in Seq(S) /\ b \in Seq(S) => a \o b \in Seq(S)
    OBVIOUS
  <2> QED BY <2>1, Zenon
<1>2. CASE s = "left"
  <2>1. J = [left |-> A, right |-> B, out |-> out]
    BY <1>2 DEF Emit, Other
  <2> HIDE DEF out
  <2>2. J.left = A /\ J.right = B /\ J.out = out
    BY <2>1
  <2>3. J[s] = A /\ J[Other(s)] = B
    BY <1>2, <2>2 DEF Other
  <2> QED BY <1>1, <2>1, <2>2, <2>3
<1>3. CASE s = "right"
  <2>1. J = [left |-> B, right |-> A, out |-> out]
    BY <1>3 DEF Emit, Other
  <2> HIDE DEF out
  <2>2. J.left = B /\ J.right = A /\ J.out = out
    BY <2>1
  <2>3. J[s] = A /\ J[Other(s)] = B
    BY <1>3, <2>2 DEF Other
  <2> QED BY <1>1, <2>1, <2>2, <2>3
<1> QED BY <1>2, <1>3 DEF Side

LEMMA InsertKeepsCounts ==
  ASSUME NEW own, NEW their, NEW A, NEW B, NEW row, NEW key,
         SideOK(own), SideOK(their), CountsOK(own, their), CountsOK(their, own),
         Added(own, A, row, key, Len(Bucket(their, key))), Rematched(their, B, key, 1)
  PROVE  CountsOK(A, B) /\ CountsOK(B, A)
<1>1. \A k : Bucket(B, k) = Bucket(their, k)
  BY DEF Rematched, Bucket
<1>2. CountsOK(A, B)
  <2>1. PICK id \in Nat \ Used(own) :
          /\ Used(A) = Used(own) \cup {id} /\ A.slots[id].key = key
          /\ A.slots[id].matches = Len(Bucket(their, key))
          /\ \A i \in Used(own) : A.slots[i] = own.slots[i]
    BY DEF Added
  <2> QED BY <1>1, <2>1 DEF CountsOK
<1>3. ASSUME NEW i \in Used(B) PROVE B.slots[i].matches = Len(Bucket(A, B.slots[i].key))
  <2>1. /\ i \in Used(their) /\ B.slots[i].key = their.slots[i].key
        /\ B.slots[i].matches = IF their.slots[i].key = key THEN Max({their.slots[i].matches + 1, 0})
                                ELSE their.slots[i].matches
    BY DEF Rematched
  <2>2. their.slots[i].matches = Len(Bucket(own, their.slots[i].key))
    BY <2>1 DEF CountsOK
  <2>3. Len(Bucket(own, their.slots[i].key)) \in Nat
    <3>1. Bucket(own, their.slots[i].key) \in Seq(Nat)
      BY BucketIsSeq DEF SideOK
    <3> QED BY <3>1
  <2>4. CASE their.slots[i].key = key
    <3>1. Len(Bucket(A, key)) = Len(Bucket(own, key)) + 1
      BY DEF Added
    <3>2. Max({their.slots[i].matches + 1, 0}) = their.slots[i].matches + 1
      BY <2>2, <2>3, MaxWithZero
    <3> QED BY <2>1, <2>2, <2>4, <3>1, <3>2
  <2>5. CASE their.slots[i].key # key
    <3>1. Bucket(A, their.slots[i].key) = Bucket(own, their.slots[i].key)
      BY <2>5 DEF Added
    <3> QED BY <2>1, <2>2, <2>5, <3>1
  <2> QED BY <2>4, <2>5
<1> QED BY <1>2, <1>3 DEF CountsOK

LEMMA DeleteKeepsCounts ==
  ASSUME NEW own, NEW their, NEW A, NEW B, NEW x \in RowsOf(own), NEW key,
         key = own.slots[own.slotOf[x]].key,
         SideOK(own), SideOK(their), CountsOK(own, their), CountsOK(their, own),
         Removed(own, A, x), Rematched(their, B, key, -1)
  PROVE  CountsOK(A, B) /\ CountsOK(B, A)
<1>1. \A k : Bucket(B, k) = Bucket(their, k)
  BY DEF Rematched, Bucket
<1>2. CountsOK(A, B)
  BY <1>1 DEF CountsOK, Removed
<1>3. ASSUME NEW i \in Used(B) PROVE B.slots[i].matches = Len(Bucket(A, B.slots[i].key))
  <2>1. /\ i \in Used(their) /\ B.slots[i].key = their.slots[i].key
        /\ B.slots[i].matches = IF their.slots[i].key = key THEN Max({their.slots[i].matches + -1, 0})
                                ELSE their.slots[i].matches
    BY DEF Rematched
  <2>2. their.slots[i].matches = Len(Bucket(own, their.slots[i].key))
    BY <2>1 DEF CountsOK
  <2>3. \A k : Len(Bucket(own, k)) \in Nat /\ Len(Bucket(A, k)) \in Nat
    <3>1. \A k : Bucket(own, k) \in Seq(Nat) /\ Bucket(A, k) \in Seq(Nat)
      BY BucketIsSeq DEF SideOK, Removed
    <3> QED BY <3>1
  <2>4. CASE their.slots[i].key = key
    <3>1. Len(Bucket(A, key)) = Len(Bucket(own, key)) - 1
      BY DEF Removed
    <3>2. their.slots[i].matches + -1 \in Nat /\ their.slots[i].matches + -1 = Len(Bucket(A, key))
      BY <2>2, <2>3, <2>4, <3>1
    <3>3. Max({their.slots[i].matches + -1, 0}) = their.slots[i].matches + -1
      BY <3>2, MaxWithZero
    <3> QED BY <2>1, <2>4, <3>2, <3>3
  <2>5. CASE their.slots[i].key # key
    <3>1. Bucket(A, their.slots[i].key) = Bucket(own, their.slots[i].key)
      BY <2>5 DEF Removed
    <3> QED BY <2>1, <2>2, <2>5, <3>1
  <2> QED BY <2>4, <2>5
<1> QED BY <1>2, <1>3 DEF CountsOK

\* A delta of side s led from j to J: side s has the rows ids, the other side what it had.
Stepped(j, J, s, ids) ==
  JoinOK(J) /\ RowsOf(J[s]) = ids /\ RowsOf(J[Other(s)]) = RowsOf(j[Other(s)])

\* The deltas of the rows hit, one or two for each, and those of the row by itself.
LEMMA EmittedTyped ==
  ASSUME NEW n \in Nat, NEW f, f = [i \in 1..n |-> f[i]], \A i \in 1..n : f[i] \in Seq(Out),
         NEW lone \in Seq(Out)
  PROVE  FlattenSeq(f) \o lone \in Seq(Out)
<1> DEFINE S == Seq(Out)
<1>1. f \in Seq(S)
  <2> HIDE DEF S
  <2>1. \A i \in 1..n : f[i] \in S
    BY DEF S
  <2>2. f \in [1..n -> S]
    BY <2>1
  <2> QED BY <2>2
<1>2. FlattenSeq(f) \in Seq(Out)
  BY <1>1, FlattenTyped
<1>3. \A S0, a, b : a \in Seq(S0) /\ b \in Seq(S0) => a \o b \in Seq(S0)
  OBVIOUS
<1> QED BY <1>2, <1>3, Zenon

LEMMA OneOrTwo ==
  ASSUME NEW a \in Out, NEW b \in Out
  PROVE  /\ <<>> \in Seq(Out) /\ <<a>> \in Seq(Out) /\ <<a, b>> \in Seq(Out)
         /\ <<a>> \o <<b>> \in Seq(Out) /\ <<a>> \o <<>> \in Seq(Out)
OBVIOUS

LEMMA ProcessInsertOK ==
  ASSUME NEW j, JoinOK(j), NEW s \in Side, NEW row \in Row, row.vals[KeyColumn(s)] \in Key,
         row.id \notin RowsOf(j[s])
  PROVE  Stepped(j, ProcessInsert(j, s, row), s, RowsOf(j[s]) \cup {row.id})
<1> DEFINE o == Other(s)
           key == row.vals[KeyColumn(s)]
           hits == Bucket(j[o], key)
           Hit(i) == j[o].slots[hits[i]]
           New(i) == <<Insert(Pair(s, row, Hit(i).row))>> \o
                     (IF Keeps(o) /\ Hit(i).matches = 0 THEN <<Delete(Padded(o, Hit(i).row))>> ELSE <<>>)
           new == [i \in DOMAIN hits |-> New(i)]
           lone == IF hits = <<>> /\ Keeps(s) THEN <<Insert(Padded(s, row))>> ELSE <<>>
           A == InsertRow(j[s], row, key, Len(hits))
           B == Matched(j[o], hits, 1)
           J == ProcessInsert(j, s, row)
<1>1. s # o /\ o \in Side /\ Other(o) = s /\ SideOK(j[s]) /\ SideOK(j[o])
      /\ CountsOK(j[s], j[o]) /\ CountsOK(j[o], j[s])
      /\ j = [left |-> j.left, right |-> j.right, out |-> j.out] /\ j.out \in Seq(Out)
  BY SideCases DEF JoinOK
<1>2. J = Emit([j EXCEPT ![s] = A, ![o] = B], FlattenSeq(new) \o lone)
  BY <1>1 DEF ProcessInsert, Side, Other
<1>3. hits \in Seq(Nat) /\ Hits(j[o], hits)
  BY <1>1, BucketIsSeq, BucketHits DEF SideOK
<1>4. Len(hits) \in Nat /\ DOMAIN hits = 1..Len(hits)
  BY <1>3
<1>5. FlattenSeq(new) \o lone \in Seq(Out)
  <2>1. ASSUME NEW i \in DOMAIN hits PROVE New(i) \in Seq(Out)
    <3>1. Hit(i).row \in Row
      BY <1>1, <1>3, <1>4, <2>1, UsedSlots DEF Hits, SideOK
    <3> DEFINE a == Insert(Pair(s, row, Hit(i).row))
               b == Delete(Padded(o, Hit(i).row))
    <3>2. a \in Out /\ b \in Out
      BY <1>1, <3>1, EmittedRows
    <3> HIDE DEF a, b
    <3>3. <<a>> \o <<b>> \in Seq(Out) /\ <<a>> \o <<>> \in Seq(Out)
      BY <3>2, OneOrTwo
    <3> HIDE DEF Hit
    <3>4. (<<a>> \o (IF Keeps(o) /\ Hit(i).matches = 0 THEN <<b>> ELSE <<>>)) \in Seq(Out)
      <4>1. CASE Keeps(o) /\ Hit(i).matches = 0
        BY <3>3, <4>1, Zenon
      <4>2. CASE ~(Keeps(o) /\ Hit(i).matches = 0)
        BY <3>3, <4>2, Zenon
      <4> QED BY <4>1, <4>2, Zenon
    <3> QED BY <3>4, Zenon DEF a, b
  <2> HIDE DEF New
  <2>2. \A i \in 1..Len(hits) : new[i] \in Seq(Out)
    BY <1>4, <2>1
  <2>3. new = [i \in 1..Len(hits) |-> new[i]]
    BY <1>4
  <2>4. lone \in Seq(Out)
    <3>1. Insert(Padded(s, row)) \in Out
      BY EmittedRows
    <3> HIDE DEF hits
    <3>2. <<Insert(Padded(s, row))>> \in Seq(Out) /\ <<>> \in Seq(Out)
      BY <3>1, OneOrTwo
    <3>3. CASE hits = <<>> /\ Keeps(s)
      BY <3>2, <3>3, Zenon
    <3>4. CASE ~(hits = <<>> /\ Keeps(s))
      BY <3>2, <3>4, Zenon
    <3> QED BY <3>3, <3>4, Zenon
  <2> HIDE DEF new, lone, hits
  <2> QED BY <1>4, <2>2, <2>3, <2>4, EmittedTyped
<1>6. Added(j[s], A, row, key, Len(hits))
  BY <1>1, <1>4, InsertRowOK DEF RowsOf
<1>7. Rematched(j[o], B, key, 1)
  BY <1>1, MatchedOK
<1> DEFINE ds == FlattenSeq(new) \o lone
<1> HIDE DEF A, B, J, ds
<1>8. J = [left |-> J.left, right |-> J.right, out |-> J.out] /\ J.out \in Seq(Out) /\ J[s] = A /\ J[o] = B
  <2>1. J = Emit([j EXCEPT ![s] = A, ![Other(s)] = B], ds) /\ ds \in Seq(Out)
    BY <1>2, <1>5 DEF ds
  <2>2. IsJoin(j)
    BY <1>1 DEF IsJoin
  <2>3. HasSides(J, s, A, B)
    BY <2>1, <2>2, BothReplaced
  <2> QED BY <2>3 DEF HasSides, IsJoin
<1>9. CountsOK(A, B) /\ CountsOK(B, A)
  BY <1>1, <1>6, <1>7, InsertKeepsCounts
<1>10. SideOK(A) /\ SideOK(B) /\ RowsOf(A) = RowsOf(j[s]) \cup {row.id} /\ RowsOf(B) = RowsOf(j[o])
  BY <1>6, <1>7 DEF Added, Rematched, RowsOf
<1>11. \A t \in Side : SideOK(J[t]) /\ CountsOK(J[t], J[Other(t)])
  BY <1>1, <1>8, <1>9, <1>10, SideCases
<1>12. JoinOK(J)
  BY <1>8, <1>11 DEF JoinOK
<1> QED BY <1>8, <1>10, <1>12 DEF Stepped, J

LEMMA ProcessDeleteOK ==
  ASSUME NEW j, JoinOK(j), NEW s \in Side, NEW row
  PROVE  Stepped(j, ProcessDelete(j, s, row), s, RowsOf(j[s]) \ {row.id})
<1> DEFINE o == Other(s)
           x == row.id
           id == j[s].slotOf[x]
           slot == j[s].slots[id]
           hits == IF slot.matches = 0 THEN <<>> ELSE Bucket(j[o], slot.key)
           Hit(i) == j[o].slots[hits[i]]
           Gone(i) == <<Delete(Pair(s, slot.row, Hit(i).row))>> \o
                      (IF Keeps(o) /\ Hit(i).matches = 1 THEN <<Insert(Padded(o, Hit(i).row))>> ELSE <<>>)
           gone == [i \in DOMAIN hits |-> Gone(i)]
           lone == IF slot.matches = 0 /\ Keeps(s) THEN <<Delete(Padded(s, slot.row))>> ELSE <<>>
           A == RemoveRow(j[s], x)
           B == Matched(j[o], hits, -1)
           J == ProcessDelete(j, s, row)
<1>1. s # o /\ o \in Side /\ Other(o) = s /\ SideOK(j[s]) /\ SideOK(j[o])
      /\ CountsOK(j[s], j[o]) /\ CountsOK(j[o], j[s])
      /\ j = [left |-> j.left, right |-> j.right, out |-> j.out] /\ j.out \in Seq(Out)
  BY SideCases DEF JoinOK
<1>2. CASE x \notin RowsOf(j[s])
  <2>1. J = j
    BY <1>2 DEF ProcessDelete, RowsOf
  <2>2. RowsOf(j[s]) = RowsOf(j[s]) \ {x}
    BY <1>2
  <2> QED BY <2>1, <2>2 DEF Stepped
<1>3. CASE x \in RowsOf(j[s])
  <2>1. J = Emit([j EXCEPT ![s] = A, ![o] = B], FlattenSeq(gone) \o lone)
    BY <1>1, <1>3 DEF ProcessDelete, RowsOf, Side, Other
  <2>2. id \in Used(j[s])
    BY <1>1, <1>3, RemoveRowUnbuckets DEF RowsOf
  <2>3. slot.row \in Row
    BY <1>1, <2>2, UsedSlots DEF SideOK
  <2>4. hits = Bucket(j[o], slot.key)
    <3>1. slot.matches = Len(Bucket(j[o], slot.key))
      BY <1>1, <2>2 DEF CountsOK
    <3>2. Bucket(j[o], slot.key) \in Seq(Nat)
      BY <1>1, BucketIsSeq DEF SideOK
    <3>3. \A f \in Seq(Nat) : Len(f) = 0 => f = <<>>
      OBVIOUS
    <3> HIDE DEF slot
    <3> QED BY <3>1, <3>2, <3>3
  <2> HIDE DEF hits
  <2>5. hits \in Seq(Nat) /\ Hits(j[o], hits)
    BY <1>1, <2>4, BucketIsSeq, BucketHits DEF SideOK
  <2>6. Len(hits) \in Nat /\ DOMAIN hits = 1..Len(hits)
    BY <2>5
  <2> HIDE DEF slot
  <2>7. FlattenSeq(gone) \o lone \in Seq(Out)
    <3>1. ASSUME NEW i \in DOMAIN hits PROVE Gone(i) \in Seq(Out)
      <4>1. Hit(i).row \in Row
        BY <1>1, <2>5, <2>6, <3>1, UsedSlots DEF Hits, SideOK
      <4> DEFINE a == Delete(Pair(s, slot.row, Hit(i).row))
                 b == Insert(Padded(o, Hit(i).row))
      <4>2. a \in Out /\ b \in Out
        BY <1>1, <2>3, <4>1, EmittedRows
      <4> HIDE DEF a, b
      <4>3. <<a>> \o <<b>> \in Seq(Out) /\ <<a>> \o <<>> \in Seq(Out)
        BY <4>2, OneOrTwo
      <4> HIDE DEF Hit
      <4>4. (<<a>> \o (IF Keeps(o) /\ Hit(i).matches = 1 THEN <<b>> ELSE <<>>)) \in Seq(Out)
        <5>1. CASE Keeps(o) /\ Hit(i).matches = 1
          BY <4>3, <5>1, Zenon
        <5>2. CASE ~(Keeps(o) /\ Hit(i).matches = 1)
          BY <4>3, <5>2, Zenon
        <5> QED BY <5>1, <5>2, Zenon
      <4> QED BY <4>4, Zenon DEF a, b
    <3> HIDE DEF Gone
    <3>2. \A i \in 1..Len(hits) : gone[i] \in Seq(Out)
      BY <2>6, <3>1
    <3>3. gone = [i \in 1..Len(hits) |-> gone[i]]
      BY <2>6
    <3>4. lone \in Seq(Out)
      <4>1. Delete(Padded(s, slot.row)) \in Out
        BY <2>3, EmittedRows
      <4>2. <<Delete(Padded(s, slot.row))>> \in Seq(Out) /\ <<>> \in Seq(Out)
        BY <4>1, OneOrTwo
      <4>3. CASE slot.matches = 0 /\ Keeps(s)
        BY <4>2, <4>3, Zenon
      <4>4. CASE ~(slot.matches = 0 /\ Keeps(s))
        BY <4>2, <4>4, Zenon
      <4> QED BY <4>3, <4>4, Zenon
    <3> HIDE DEF gone, lone
    <3> QED BY <2>6, <3>2, <3>3, <3>4, EmittedTyped
  <2>8. Removed(j[s], A, x)
    BY <1>1, <1>3, RemoveRowOK DEF RowsOf
  <2>9. Rematched(j[o], B, slot.key, -1)
    BY <1>1, <2>4, MatchedOK
  <2> DEFINE ds == FlattenSeq(gone) \o lone
  <2> HIDE DEF A, B, J, ds
  <2>10. HasSides(J, s, A, B)
    <3>1. J = Emit([j EXCEPT ![s] = A, ![Other(s)] = B], ds) /\ ds \in Seq(Out)
      BY <2>1, <2>7 DEF ds
    <3>2. IsJoin(j)
      BY <1>1 DEF IsJoin
    <3> QED BY <3>1, <3>2, BothReplaced
  <2>11. J = [left |-> J.left, right |-> J.right, out |-> J.out] /\ J.out \in Seq(Out) /\ J[s] = A /\ J[o] = B
    BY <2>10 DEF HasSides, IsJoin
  <2>12. CountsOK(A, B) /\ CountsOK(B, A)
    <3>1. slot.key = j[s].slots[j[s].slotOf[x]].key
      BY DEF slot
    <3> QED BY <1>1, <1>3, <2>8, <2>9, <3>1, DeleteKeepsCounts
  <2>13. SideOK(A) /\ SideOK(B) /\ RowsOf(A) = RowsOf(j[s]) \ {x} /\ RowsOf(B) = RowsOf(j[o])
    BY <2>8, <2>9 DEF Removed, Rematched, RowsOf
  <2>14. \A t \in Side : SideOK(J[t]) /\ CountsOK(J[t], J[Other(t)])
    BY <1>1, <2>11, <2>12, <2>13, SideCases
  <2>15. JoinOK(J)
    BY <2>11, <2>14 DEF JoinOK
  <2> QED BY <2>11, <2>13, <2>15 DEF Stepped, J
<1> QED BY <1>2, <1>3

\* S is the side with another row of the same id in slot id.
Rerowed(side, S, id, new) ==
  /\ SideOK(S)
  /\ S.slotOf = side.slotOf /\ S.buckets = side.buckets /\ Used(S) = Used(side)
  /\ \A i \in Used(side) :
       S.slots[i].key = side.slots[i].key /\ S.slots[i].matches = side.slots[i].matches

LEMMA RerowedOK ==
  ASSUME NEW side, SideOK(side), NEW new \in Row, new.id \in RowsOf(side)
  PROVE  Rerowed(side, [side EXCEPT !.slots[side.slotOf[new.id]].row = new], side.slotOf[new.id], new)
<1> DEFINE id == side.slotOf[new.id]
           slot == [side.slots[id] EXCEPT !.row = new]
           slots == [side.slots EXCEPT ![id] = slot]
           S == [side EXCEPT !.slots[id].row = new]
<1>1. side \in SideType /\ FreeExact(side) /\ Indexed(side) /\ Bucketed(side)
  BY DEF SideOK
<1>2. id \in Used(side) /\ side.slots[id].row.id = new.id
  BY <1>1 DEF Indexed, RowsOf
<1>3. side.slots[id] \in Slot /\ id \in DOMAIN side.slots
  BY <1>1, <1>2, UsedSlots DEF Used
<1>4. slot \in Slot /\ slot.row = new /\ slot.key = side.slots[id].key
      /\ slot.pos = side.slots[id].pos /\ slot.matches = side.slots[id].matches
  BY <1>3 DEF Slot
<1>5. side.slots \in Slots /\ side.free \in Seq(Nat) /\ side.buckets \in Buckets /\ side.slotOf \in RowIndexes
      /\ side = [slots |-> side.slots, free |-> side.free, buckets |-> side.buckets, slotOf |-> side.slotOf]
  BY <1>1 DEF SideType
<1>6. S = [side EXCEPT !.slots = slots]
  OBVIOUS
<1> HIDE DEF S, slot, id
<1>7. slots \in Slots /\ Replaced(side.slots, id, slot, slots)
  BY <1>3, <1>4, <1>5, SlotReplaced
<1> HIDE DEF slots
<1>8. S = [slots |-> slots, free |-> side.free, buckets |-> side.buckets, slotOf |-> side.slotOf]
  BY <1>5, <1>6
<1>9. S.slots = slots /\ S.free = side.free /\ S.buckets = side.buckets /\ S.slotOf = side.slotOf
  BY <1>8
<1>10. S \in SideType
  <2>1. S.slots \in Slots /\ S.free \in Seq(Nat) /\ S.buckets \in Buckets /\ S.slotOf \in RowIndexes
    BY <1>5, <1>7, <1>9
  <2>2. S = [slots |-> S.slots, free |-> S.free, buckets |-> S.buckets, slotOf |-> S.slotOf]
    BY <1>8, <1>9
  <2> QED BY <2>1, <2>2, SideMade
<1>11. DOMAIN S.slots = DOMAIN side.slots
       /\ \A i \in DOMAIN side.slots : S.slots[i] = IF i = id THEN slot ELSE side.slots[i]
  BY <1>7, <1>9 DEF Replaced
<1>12. Used(S) = Used(side)
  <2>1. slot # NoSlot
    BY <1>4, SlotIsRow
  <2> QED BY <1>2, <1>11, <2>1 DEF Used
<1>13. ASSUME NEW i \in Used(side)
       PROVE  /\ S.slots[i].row.id = side.slots[i].row.id /\ S.slots[i].key = side.slots[i].key
              /\ S.slots[i].pos = side.slots[i].pos /\ S.slots[i].matches = side.slots[i].matches
  <2>1. i \in DOMAIN side.slots
    BY DEF Used
  <2>2. CASE i = id
    BY <1>2, <1>4, <1>11, <2>1, <2>2
  <2>3. CASE i # id
    BY <1>11, <2>1, <2>3
  <2> QED BY <2>2, <2>3
<1>14. SideOK(S)
  <2>1. SameShape(side, S)
    BY <1>9, <1>10, <1>11, <1>12, <1>13 DEF SameShape
  <2> QED BY <2>1, SameShapeOK
<1>15. Rerowed(side, S, id, new)
  BY <1>9, <1>12, <1>13, <1>14 DEF Rerowed
<1> QED BY <1>15 DEF S, id

LEMMA RerowKeepsCounts ==
  ASSUME NEW own, NEW their, NEW A, NEW id, NEW new,
         CountsOK(own, their), CountsOK(their, own), Rerowed(own, A, id, new)
  PROVE  CountsOK(A, their) /\ CountsOK(their, A)
<1>1. \A k : Bucket(A, k) = Bucket(own, k)
  BY DEF Rerowed, Bucket
<1> QED BY <1>1 DEF CountsOK, Rerowed

LEMMA ProcessSameKeyUpdateOK ==
  ASSUME NEW j, JoinOK(j), NEW s \in Side, NEW old \in Row, NEW new \in Row,
         new.vals[KeyColumn(s)] \in Key
  PROVE  Stepped(j, ProcessSameKeyUpdate(j, s, old, new), s, RowsOf(j[s]) \cup {new.id})
<1> DEFINE o == Other(s)
           x == new.id
           id == j[s].slotOf[x]
           slot == j[s].slots[id]
           hits == IF slot.matches = 0 THEN <<>> ELSE Bucket(j[o], slot.key)
           Theirs(i) == j[o].slots[hits[i]].row
           Both(i) == <<Delete(Pair(s, old, Theirs(i))), Insert(Pair(s, new, Theirs(i)))>>
           both == [i \in DOMAIN hits |-> Both(i)]
           lone == IF slot.matches = 0 /\ Keeps(s)
                   THEN <<Delete(Padded(s, old)), Insert(Padded(s, new))>> ELSE <<>>
           A == [j[s] EXCEPT !.slots[id].row = new]
           J == ProcessSameKeyUpdate(j, s, old, new)
<1>1. s # o /\ o \in Side /\ Other(o) = s /\ SideOK(j[s]) /\ SideOK(j[o])
      /\ CountsOK(j[s], j[o]) /\ CountsOK(j[o], j[s])
      /\ j = [left |-> j.left, right |-> j.right, out |-> j.out] /\ j.out \in Seq(Out)
  BY SideCases DEF JoinOK
<1>2. CASE x \notin RowsOf(j[s])
  <2>1. J = ProcessInsert(j, s, new)
    BY <1>2 DEF ProcessSameKeyUpdate, RowsOf
  <2> QED BY <1>2, <2>1, ProcessInsertOK
<1>3. CASE x \in RowsOf(j[s])
  <2>1. J = Emit([j EXCEPT ![s] = A], FlattenSeq(both) \o lone)
    BY <1>3 DEF ProcessSameKeyUpdate, RowsOf
  <2>2. hits \in Seq(Nat) /\ Hits(j[o], hits)
    <3>1. <<>> \in Seq(Nat) /\ Len(<<>>) = 0 /\ 1..0 = {}
      OBVIOUS
    <3>2. Hits(j[o], <<>>)
      BY <3>1 DEF Hits
    <3>3. Bucket(j[o], slot.key) \in Seq(Nat) /\ Hits(j[o], Bucket(j[o], slot.key))
      BY <1>1, BucketIsSeq, BucketHits DEF SideOK
    <3> QED BY <3>1, <3>2, <3>3
  <2> HIDE DEF hits
  <2>3. Len(hits) \in Nat /\ DOMAIN hits = 1..Len(hits)
    BY <2>2
  <2> HIDE DEF slot
  <2>4. FlattenSeq(both) \o lone \in Seq(Out)
    <3>1. ASSUME NEW i \in DOMAIN hits PROVE Both(i) \in Seq(Out)
      <4>1. Theirs(i) \in Row
        BY <1>1, <2>2, <2>3, <3>1, UsedSlots DEF Hits, SideOK
      <4> DEFINE a == Delete(Pair(s, old, Theirs(i)))
                 b == Insert(Pair(s, new, Theirs(i)))
      <4>2. a \in Out /\ b \in Out
        BY <4>1, EmittedRows
      <4> HIDE DEF a, b
      <4>3. <<a, b>> \in Seq(Out)
        BY <4>2, OneOrTwo
      <4> QED BY <4>3 DEF a, b
    <3> HIDE DEF Both
    <3>2. \A i \in 1..Len(hits) : both[i] \in Seq(Out)
      BY <2>3, <3>1
    <3>3. both = [i \in 1..Len(hits) |-> both[i]]
      BY <2>3
    <3>4. lone \in Seq(Out)
      <4>1. Delete(Padded(s, old)) \in Out /\ Insert(Padded(s, new)) \in Out
        BY EmittedRows
      <4>2. <<Delete(Padded(s, old)), Insert(Padded(s, new))>> \in Seq(Out) /\ <<>> \in Seq(Out)
        BY <4>1, OneOrTwo
      <4>3. CASE slot.matches = 0 /\ Keeps(s)
        BY <4>2, <4>3, Zenon
      <4>4. CASE ~(slot.matches = 0 /\ Keeps(s))
        BY <4>2, <4>4, Zenon
      <4> QED BY <4>3, <4>4, Zenon
    <3> HIDE DEF both, lone
    <3> QED BY <2>3, <3>2, <3>3, <3>4, EmittedTyped
  <2>5. Rerowed(j[s], A, id, new)
    BY <1>1, <1>3, RerowedOK
  <2> DEFINE ds == FlattenSeq(both) \o lone
             B == j[o]
  <2> HIDE DEF A, J, ds, B, id
  <2>6. HasSides(J, s, A, B)
    <3>1. J = Emit([j EXCEPT ![s] = A], ds) /\ ds \in Seq(Out)
      BY <2>1, <2>4 DEF ds
    <3>2. [j EXCEPT ![s] = A] = [j EXCEPT ![s] = A, ![Other(s)] = B]
      BY <1>1 DEF B, Side
    <3>3. J = Emit([j EXCEPT ![s] = A, ![Other(s)] = B], ds)
      BY <3>1, <3>2
    <3>4. IsJoin(j)
      BY <1>1 DEF IsJoin
    <3> QED BY <3>1, <3>3, <3>4, BothReplaced
  <2>7. J = [left |-> J.left, right |-> J.right, out |-> J.out] /\ J.out \in Seq(Out) /\ J[s] = A /\ J[o] = B
    BY <2>6 DEF HasSides, IsJoin
  <2>8. CountsOK(A, B) /\ CountsOK(B, A)
    BY <1>1, <2>5, RerowKeepsCounts DEF B
  <2>9. SideOK(A) /\ SideOK(B) /\ RowsOf(A) = RowsOf(j[s]) /\ RowsOf(B) = RowsOf(j[o])
    BY <1>1, <2>5 DEF Rerowed, RowsOf, B
  <2>10. \A t \in Side : SideOK(J[t]) /\ CountsOK(J[t], J[Other(t)])
    BY <1>1, <2>7, <2>8, <2>9, SideCases
  <2>11. JoinOK(J)
    BY <2>7, <2>10 DEF JoinOK
  <2>12. RowsOf(A) = RowsOf(j[s]) \cup {x}
    BY <1>3, <2>9
  <2> QED BY <2>7, <2>9, <2>11, <2>12 DEF Stepped, J
<1> QED BY <1>2, <1>3

-----------------------------------------------------------------------------
(* Lawful deltas: those that lead from one content of a table to another.   *)

Present(c) == {id \in DOMAIN c : c[id] # Absent}
RowOf(t) == [id : RowIdsOf(t), vals : ValuesOf(t)]
DeltaOf(t) == [diff : {1, -1}, row : RowOf(t)]

\* A delta inserts a row under an id that has none, or deletes the row that is there.
Change(b, d, c) ==
  IF d.diff = 1 THEN b[d.row.id] = Absent /\ c = [b EXCEPT ![d.row.id] = d.row.vals]
  ELSE b[d.row.id] = d.row.vals /\ c = [b EXCEPT ![d.row.id] = Absent]

\* The contents before and after each delta.
History(t, H, ds) ==
  H \in [0..Len(ds) -> ContentsOf(t)] /\ \A i \in 1..Len(ds) : Change(H[i - 1], ds[i], H[i])

Lawful(t, a, ds, b) ==
  ds \in Seq(DeltaOf(t)) /\ \E H : History(t, H, ds) /\ H[0] = a /\ H[Len(ds)] = b

LEMMA LawfulNone == \A t \in Table : \A c \in ContentsOf(t) : Lawful(t, c, <<>>, c)
<1> SUFFICES ASSUME NEW t \in Table, NEW c \in ContentsOf(t) PROVE Lawful(t, c, <<>>, c)
  OBVIOUS
<1> DEFINE H == [i \in 0..0 |-> c]
<1>1. Len(<<>>) = 0 /\ 1..0 = {} /\ <<>> \in Seq(DeltaOf(t))
  OBVIOUS
<1>2. H[0] = c /\ H \in [0..0 -> ContentsOf(t)]
  OBVIOUS
<1> HIDE DEF H
<1> QED BY <1>1, <1>2 DEF Lawful, History

LEMMA LawfulOneMore ==
  ASSUME NEW t \in Table, NEW a, NEW ds, NEW b, Lawful(t, a, ds, b),
         NEW d \in DeltaOf(t), NEW c \in ContentsOf(t), Change(b, d, c)
  PROVE  Lawful(t, a, Append(ds, d), c)
<1>1. PICK H : History(t, H, ds) /\ H[0] = a /\ H[Len(ds)] = b
  BY DEF Lawful
<1> DEFINE N == Len(ds)
           more == Append(ds, d)
           G == [i \in 0..(N + 1) |-> IF i = N + 1 THEN c ELSE H[i]]
<1>2. ds \in Seq(DeltaOf(t)) /\ N \in Nat
  BY DEF Lawful
<1>3. more \in Seq(DeltaOf(t)) /\ Len(more) = N + 1 /\ more[N + 1] = d
      /\ \A i \in 1..N : more[i] = ds[i]
  BY <1>2
<1>4. H \in [0..N -> ContentsOf(t)] /\ \A i \in 1..N : Change(H[i - 1], ds[i], H[i])
  BY <1>1 DEF History
<1> HIDE DEF N, more
<1>5. G \in [0..(N + 1) -> ContentsOf(t)]
  BY <1>2, <1>4
<1>6. ASSUME NEW i \in 1..(N + 1) PROVE Change(G[i - 1], more[i], G[i])
  <2>1. CASE i = N + 1
    <3>1. G[i - 1] = b /\ G[i] = c /\ more[i] = d
      BY <1>1, <1>2, <1>3, <2>1 DEF N
    <3> QED BY <3>1
  <2>2. CASE i # N + 1
    <3>1. G[i - 1] = H[i - 1] /\ G[i] = H[i] /\ i \in 1..N /\ more[i] = ds[i]
      BY <1>2, <1>3, <2>2
    <3> QED BY <1>4, <3>1
  <2> QED BY <2>1, <2>2
<1>7. G[0] = a /\ G[N + 1] = c
  BY <1>1, <1>2
<1> HIDE DEF G
<1>8. History(t, G, more)
  BY <1>3, <1>5, <1>6 DEF History
<1> QED BY <1>3, <1>7, <1>8 DEF Lawful, more

\* Written is the run of its writes.
LEMMA WrittenRuns ==
  ASSUME NEW content, NEW writes, Len(writes) \in Nat
  PROVE  \E f : /\ f[0] = [content |-> content, deltas |-> <<>>, changes |-> TRUE]
                /\ \A n \in 1..Len(writes) : f[n] = Write(f[n - 1], writes[n][1], writes[n][2])
                /\ Written(content, writes) = f[Len(writes)]
<1> DEFINE N == Len(writes)
           Start == [content |-> content, deltas |-> <<>>, changes |-> TRUE]
           Step(n, x) == Write(x, writes[n][1], writes[n][2])
           Run(f, k) == f = [n \in 0..k |-> IF n = 0 THEN Start ELSE Step(n, f[n - 1])]
           P == {k \in 0..N : \E f : Run(f, k)}
<1>0. Written(content, writes) = (CHOOSE f : Run(f, N))[N]
  BY DEF Written
<1> HIDE DEF N, Start, Step
<1>1. N \in Nat
  BY DEF N
<1>2. 0 \in P
  <2>1. Run([n \in 0..0 |-> Start], 0) /\ 0 \in 0..N
    BY <1>1
  <2> QED BY <2>1
<1>3. ASSUME NEW k \in 1..N, k - 1 \in P PROVE k \in P
  <2>1. PICK f : Run(f, k - 1)
    BY <1>3
  <2> DEFINE h == [n \in 0..k |-> IF n = k THEN Step(k, f[k - 1]) ELSE f[n]]
  <2>2. ASSUME NEW n \in 0..k PROVE h[n] = IF n = 0 THEN Start ELSE Step(n, h[n - 1])
    <3>1. CASE n = 0
      BY <2>1, <3>1
    <3>2. CASE n # 0 /\ n # k
      <4>1. h[n] = f[n] /\ h[n - 1] = f[n - 1] /\ n \in 0..(k - 1)
        BY <3>2
      <4> QED BY <2>1, <3>2, <4>1
    <3>3. CASE n = k
      <4>1. h[k] = Step(k, f[k - 1]) /\ h[k - 1] = f[k - 1]
        OBVIOUS
      <4> QED BY <3>3, <4>1
    <3> QED BY <3>1, <3>2, <3>3
  <2>3. h = [n \in 0..k |-> h[n]]
    OBVIOUS
  <2> HIDE DEF h
  <2>4. Run(h, k)
    BY <2>2, <2>3
  <2> QED BY <2>4
<1> HIDE DEF P
<1>4. N \in P
  BY <1>1, <1>2, <1>3, StepByStep
<1>5. PICK f : f = (CHOOSE e : Run(e, N)) /\ Run(f, N)
  BY <1>4 DEF P
<1>6. f[0] = Start /\ \A n \in 1..N : f[n] = Step(n, f[n - 1])
  <2>1. \A n \in 0..N : f[n] = IF n = 0 THEN Start ELSE Step(n, f[n - 1])
    <3>1. Run(f, N)
      BY <1>5
    <3> QED BY <3>1
  <2>2. 0 \in 0..N /\ \A n \in 1..N : n \in 0..N /\ n # 0
    BY <1>1
  <2> QED BY <2>1, <2>2
<1>7. Written(content, writes) = f[N]
  BY <1>0, <1>5
<1> QED BY <1>6, <1>7 DEF N, Start, Step

\* Kept is the run over its entries.
LEMMA KeptRuns ==
  ASSUME NEW entries, Len(entries) \in Nat, NEW places
  PROVE  \E f : /\ f[0] = <<>>
                /\ \A n \in 1..Len(entries) : f[n] = (IF n \in places THEN Append(f[n - 1], entries[n]) ELSE f[n - 1])
                /\ Kept(entries, places) = f[Len(entries)]
<1> DEFINE N == Len(entries)
           Start == <<>>
           Step(n, x) == (IF n \in places THEN Append(x, entries[n]) ELSE x)
           Run(f, k) == f = [n \in 0..k |-> IF n = 0 THEN Start ELSE Step(n, f[n - 1])]
           P == {k \in 0..N : \E f : Run(f, k)}
<1>0. Kept(entries, places) = (CHOOSE f : Run(f, N))[N]
  BY DEF Kept
<1> HIDE DEF N, Start, Step
<1>1. N \in Nat
  BY DEF N
<1>2. 0 \in P
  <2>1. Run([n \in 0..0 |-> Start], 0) /\ 0 \in 0..N
    BY <1>1
  <2> QED BY <2>1
<1>3. ASSUME NEW k \in 1..N, k - 1 \in P PROVE k \in P
  <2>1. PICK f : Run(f, k - 1)
    BY <1>3
  <2> DEFINE h == [n \in 0..k |-> IF n = k THEN Step(k, f[k - 1]) ELSE f[n]]
  <2>2. ASSUME NEW n \in 0..k PROVE h[n] = IF n = 0 THEN Start ELSE Step(n, h[n - 1])
    <3>1. CASE n = 0
      BY <2>1, <3>1
    <3>2. CASE n # 0 /\ n # k
      <4>1. h[n] = f[n] /\ h[n - 1] = f[n - 1] /\ n \in 0..(k - 1)
        BY <3>2
      <4> QED BY <2>1, <3>2, <4>1
    <3>3. CASE n = k
      <4>1. h[k] = Step(k, f[k - 1]) /\ h[k - 1] = f[k - 1]
        OBVIOUS
      <4> QED BY <3>3, <4>1
    <3> QED BY <3>1, <3>2, <3>3
  <2>3. h = [n \in 0..k |-> h[n]]
    OBVIOUS
  <2> HIDE DEF h
  <2>4. Run(h, k)
    BY <2>2, <2>3
  <2> QED BY <2>4
<1> HIDE DEF P
<1>4. N \in P
  BY <1>1, <1>2, <1>3, StepByStep
<1>5. PICK f : f = (CHOOSE e : Run(e, N)) /\ Run(f, N)
  BY <1>4 DEF P
<1>6. f[0] = Start /\ \A n \in 1..N : f[n] = Step(n, f[n - 1])
  <2>1. \A n \in 0..N : f[n] = IF n = 0 THEN Start ELSE Step(n, f[n - 1])
    <3>1. Run(f, N)
      BY <1>5
    <3> QED BY <3>1
  <2>2. 0 \in 0..N /\ \A n \in 1..N : n \in 0..N /\ n # 0
    BY <1>1
  <2> QED BY <2>1, <2>2
<1>7. Kept(entries, places) = f[N]
  BY <1>0, <1>5
<1> QED BY <1>6, <1>7 DEF N, Start, Step

LEMMA AbsentIsNoValue == \A t \in Table : \A v \in ValuesOf(t) : v # Absent
BY ContentAssumption DEF Absent

LEMMA TwoMore ==
  ASSUME NEW T, NEW s \in Seq(T), NEW d, NEW e
  PROVE  s \o (<<d>> \o <<e>>) = Append(Append(s, d), e)
OBVIOUS

\* What one write does to a lawful batch.
WriteOK(t, a, w) == w.content \in ContentsOf(t) /\ Lawful(t, a, w.deltas, w.content)

LEMMA WriteLawful ==
  ASSUME NEW t \in Table, NEW a, NEW w, WriteOK(t, a, w),
         NEW id \in RowIdsOf(t), NEW new \in ValuesOf(t) \cup {Absent}
  PROVE  WriteOK(t, a, Write(w, id, new))
<1> DEFINE b == w.content
           old == b[id]
           c == [b EXCEPT ![id] = new]
           mid == [b EXCEPT ![id] = Absent]
           gone == Delete([id |-> id, vals |-> old])
           come == Insert([id |-> id, vals |-> new])
           W == Write(w, id, new)
<1>1. b \in ContentsOf(t) /\ Lawful(t, a, w.deltas, b) /\ w.deltas \in Seq(DeltaOf(t))
  BY DEF WriteOK, Lawful
<1>2. old \in ValuesOf(t) \cup {Absent} /\ c \in ContentsOf(t) /\ mid \in ContentsOf(t)
  BY <1>1 DEF ContentsOf
<1>3. W.content = c /\ W.deltas = w.deltas \o DeltasOf(id, old, new)
  BY DEF Write
<1>4. ASSUME old # Absent
      PROVE  gone \in DeltaOf(t) /\ Change(b, gone, mid)
  <2>1. old \in ValuesOf(t)
    BY <1>2, <1>4
  <2>2. gone = [diff |-> -1, row |-> [id |-> id, vals |-> old]]
    BY DEF Delete, Delta
  <2>3. [id |-> id, vals |-> old] \in RowOf(t)
    BY <2>1 DEF RowOf
  <2>4. gone \in DeltaOf(t)
    BY <2>2, <2>3 DEF DeltaOf
  <2>5. gone.diff # 1 /\ gone.row.id = id /\ gone.row.vals = old
    BY <2>2
  <2> QED BY <2>4, <2>5 DEF Change
<1>5. ASSUME new # Absent
      PROVE  come \in DeltaOf(t) /\ come.diff = 1 /\ come.row.id = id /\ come.row.vals = new
  <2>1. come = [diff |-> 1, row |-> [id |-> id, vals |-> new]]
    BY DEF Insert, Delta
  <2>2. [id |-> id, vals |-> new] \in RowOf(t)
    BY <1>5 DEF RowOf
  <2>3. come \in DeltaOf(t)
    BY <2>1, <2>2 DEF DeltaOf
  <2> QED BY <2>1, <2>3
<1>6. DeltasOf(id, old, new) = (IF old = Absent THEN <<>> ELSE <<gone>>) \o (IF new = Absent THEN <<>> ELSE <<come>>)
  BY DEF DeltasOf
<1> DEFINE D == DeltaOf(t)
           ds == w.deltas
<1>7. \A T, s, d, e : s \in Seq(T) => s \o (<<>> \o <<>>) = s
  OBVIOUS
<1>8. \A T, s, d, e : s \in Seq(T) => s \o (<<d>> \o <<>>) = Append(s, d) /\ s \o (<<>> \o <<d>>) = Append(s, d)
  OBVIOUS
<1>10. ds \in Seq(D)
  BY <1>1
<1>11. b[id] = old /\ id \in DOMAIN b /\ mid[id] = Absent /\ [mid EXCEPT ![id] = new] = c
  BY <1>1 DEF ContentsOf
<1> HIDE DEF D, ds, gone, come, W, c, mid, b, old
<1>12. CASE old = Absent /\ new = Absent
  <2>1. W.deltas = ds /\ c = b
    <3>1. W.deltas = ds
      BY <1>3, <1>6, <1>7, <1>10, <1>12 DEF ds
    <3>2. c = b
      BY <1>1, <1>11, <1>12 DEF c, ContentsOf
    <3> QED BY <3>1, <3>2
  <2> QED BY <1>1, <1>3, <2>1 DEF WriteOK, ds, W
<1>13. CASE old # Absent /\ new = Absent
  <2>1. W.deltas = Append(ds, gone)
    BY <1>3, <1>6, <1>8, <1>10, <1>13 DEF ds
  <2>2. c = mid
    BY <1>13 DEF c, mid
  <2>3. Lawful(t, a, Append(ds, gone), mid)
    BY <1>1, <1>2, <1>4, <1>13, LawfulOneMore DEF ds
  <2> QED BY <1>2, <1>3, <2>1, <2>2, <2>3 DEF WriteOK, W
<1>14. CASE old = Absent /\ new # Absent
  <2>1. W.deltas = Append(ds, come)
    BY <1>3, <1>6, <1>8, <1>10, <1>14 DEF ds
  <2>2. Change(b, come, c)
    BY <1>5, <1>11, <1>14 DEF Change, c
  <2>3. Lawful(t, a, Append(ds, come), c)
    BY <1>1, <1>2, <1>5, <1>14, <2>2, LawfulOneMore DEF ds
  <2> QED BY <1>2, <1>3, <2>1, <2>3 DEF WriteOK, W
<1>15. CASE old # Absent /\ new # Absent
  <2>1. W.deltas = Append(Append(ds, gone), come)
    <3>1. W.deltas = ds \o (<<gone>> \o <<come>>)
      BY <1>3, <1>6, <1>15 DEF ds
    <3>2. ds \o (<<gone>> \o <<come>>) = Append(Append(ds, gone), come)
      BY <1>10, TwoMore
    <3> QED BY <3>1, <3>2
  <2>2. Lawful(t, a, Append(ds, gone), mid)
    BY <1>1, <1>2, <1>4, <1>15, LawfulOneMore DEF ds
  <2>3. Change(mid, come, c)
    BY <1>5, <1>11, <1>15 DEF Change
  <2>4. Lawful(t, a, Append(Append(ds, gone), come), c)
    BY <1>2, <1>5, <1>15, <2>2, <2>3, LawfulOneMore
  <2> QED BY <1>2, <1>3, <2>1, <2>4 DEF WriteOK, W
<1> QED BY <1>12, <1>13, <1>14, <1>15 DEF W

LEMMA WrittenLawful ==
  ASSUME NEW t \in Table, NEW a \in ContentsOf(t), NEW writes \in Batches(t)
  PROVE  WriteOK(t, a, Written(a, writes))
<1> DEFINE N == Len(writes)
           Start == [content |-> a, deltas |-> <<>>, changes |-> TRUE]
<1>1. writes \in Seq(RowIdsOf(t) \X (ValuesOf(t) \cup {Absent}))
  BY ContentAssumption DEF Absent
<1>2. N \in Nat /\ \A i \in 1..N : writes[i][1] \in RowIdsOf(t) /\ writes[i][2] \in ValuesOf(t) \cup {Absent}
  BY <1>1
<1>3. PICK f : /\ f[0] = Start
               /\ \A n \in 1..N : f[n] = Write(f[n - 1], writes[n][1], writes[n][2])
               /\ Written(a, writes) = f[N]
  BY <1>2, WrittenRuns
<1> HIDE DEF N
<1> DEFINE P == {n \in 0..N : WriteOK(t, a, f[n])}
<1>4. 0 \in P
  <2>1. Start.content = a /\ Start.deltas = <<>>
    OBVIOUS
  <2>2. WriteOK(t, a, Start)
    BY <2>1, LawfulNone DEF WriteOK
  <2> QED BY <1>2, <1>3, <2>2
<1>5. ASSUME NEW n \in 1..N, n - 1 \in P PROVE n \in P
  <2>1. WriteOK(t, a, f[n - 1])
    BY <1>5
  <2>2. WriteOK(t, a, f[n])
    BY <1>2, <1>3, <2>1, WriteLawful
  <2> QED BY <2>2
<1> HIDE DEF P
<1>6. N \in P
  BY <1>2, <1>4, <1>5, StepByStep
<1> QED BY <1>3, <1>6 DEF P

\* What the filter leaves of a content.
Passing(c) == [id \in DOMAIN c |-> IF c[id] # Absent /\ Passes([id |-> id, vals |-> c[id]])
                                   THEN c[id] ELSE Absent]

LEMMA PassingTyped == \A t \in Table : \A c \in ContentsOf(t) : Passing(c) \in ContentsOf(t)
BY DEF Passing, ContentsOf

\* A delta that passes the filter changes what the filter leaves; another does not.
LEMMA PassingChange ==
  ASSUME NEW t \in Table, NEW b \in ContentsOf(t), NEW c \in ContentsOf(t), NEW d \in DeltaOf(t),
         Change(b, d, c)
  PROVE  IF Passes(d.row) THEN Change(Passing(b), d, Passing(c)) ELSE Passing(b) = Passing(c)
<1> DEFINE id == d.row.id
           vals == d.row.vals
<1>1. id \in RowIdsOf(t) /\ vals \in ValuesOf(t) /\ vals # Absent /\ d.row = [id |-> id, vals |-> vals]
  BY AbsentIsNoValue DEF DeltaOf, RowOf
<1>2. DOMAIN b = RowIdsOf(t) /\ DOMAIN c = RowIdsOf(t)
  BY DEF ContentsOf
<1>3. \A x \in RowIdsOf(t) : x # id => c[x] = b[x]
  BY <1>2 DEF Change
<1>4. DOMAIN Passing(b) = RowIdsOf(t) /\ DOMAIN Passing(c) = RowIdsOf(t)
      /\ \A x \in RowIdsOf(t) : x # id => Passing(c)[x] = Passing(b)[x]
  BY <1>2, <1>3 DEF Passing
<1>5. Passing(b) = [x \in RowIdsOf(t) |-> Passing(b)[x]] /\ Passing(c) = [x \in RowIdsOf(t) |-> Passing(c)[x]]
  BY <1>2 DEF Passing
<1>6. CASE d.diff = 1
  <2>1. b[id] = Absent /\ c[id] = vals
    BY <1>1, <1>2, <1>6 DEF Change
  <2>2. Passing(b)[id] = Absent /\ Passing(c)[id] = IF Passes(d.row) THEN vals ELSE Absent
    BY <1>1, <1>2, <2>1 DEF Passing
  <2> QED BY <1>1, <1>4, <1>5, <1>6, <2>2 DEF Change
<1>7. CASE d.diff # 1
  <2>1. b[id] = vals /\ c[id] = Absent
    BY <1>1, <1>2, <1>7 DEF Change
  <2>2. Passing(c)[id] = Absent /\ Passing(b)[id] = IF Passes(d.row) THEN vals ELSE Absent
    BY <1>1, <1>2, <2>1 DEF Passing
  <2> QED BY <1>1, <1>4, <1>5, <1>7, <2>2 DEF Change
<1> QED BY <1>6, <1>7

LEMMA LeftDeltasLawful ==
  ASSUME NEW t \in Table, NEW a, NEW ds, NEW b, Lawful(t, a, ds, b)
  PROVE  Lawful(t, Passing(a), LeftDeltas(ds), Passing(b))
<1> DEFINE N == Len(ds)
           places == {i \in DOMAIN ds : Passes(ds[i].row)}
<1>1. PICK H : History(t, H, ds) /\ H[0] = a /\ H[Len(ds)] = b
  BY DEF Lawful
<1>2. ds \in Seq(DeltaOf(t)) /\ N \in Nat /\ DOMAIN ds = 1..N
  BY DEF Lawful
<1>3. \A i \in 1..N : i \in places <=> Passes(ds[i].row)
  BY <1>2
<1>4. LeftDeltas(ds) = Kept(ds, places)
  BY DEF LeftDeltas
<1> HIDE DEF places
<1>5. PICK f : /\ f[0] = <<>>
               /\ \A n \in 1..N : f[n] = IF n \in places THEN Append(f[n - 1], ds[n]) ELSE f[n - 1]
               /\ Kept(ds, places) = f[N]
  BY <1>2, KeptRuns
<1>6. H \in [0..N -> ContentsOf(t)] /\ \A i \in 1..N : Change(H[i - 1], ds[i], H[i])
  BY <1>1 DEF History
<1>7. H[N] = b
  BY <1>1
<1> HIDE DEF N
<1> DEFINE P == {n \in 0..N : Lawful(t, Passing(a), f[n], Passing(H[n]))}
<1>8. 0 \in P
  <2>1. Passing(a) \in ContentsOf(t)
    BY <1>1, <1>2, <1>6, PassingTyped
  <2>2. Lawful(t, Passing(a), <<>>, Passing(a))
    BY <2>1, LawfulNone
  <2> QED BY <1>1, <1>2, <1>5, <2>2
<1>9. ASSUME NEW n \in 1..N, n - 1 \in P PROVE n \in P
  <2>1. Lawful(t, Passing(a), f[n - 1], Passing(H[n - 1]))
    BY <1>9
  <2>2. n \in 0..N /\ n - 1 \in 0..N /\ ds[n] \in DeltaOf(t)
    BY <1>2 DEF N
  <2>3. H[n - 1] \in ContentsOf(t) /\ H[n] \in ContentsOf(t) /\ Change(H[n - 1], ds[n], H[n])
    BY <1>6, <2>2
  <2>4. CASE Passes(ds[n].row)
    <3>1. f[n] = Append(f[n - 1], ds[n])
      BY <1>5, <1>3, <2>4
    <3>2. Change(Passing(H[n - 1]), ds[n], Passing(H[n])) /\ Passing(H[n]) \in ContentsOf(t)
      BY <2>2, <2>3, <2>4, PassingChange, PassingTyped
    <3>3. Lawful(t, Passing(a), f[n], Passing(H[n]))
      BY <2>1, <2>2, <3>1, <3>2, LawfulOneMore
    <3> QED BY <2>2, <3>3
  <2>5. CASE ~Passes(ds[n].row)
    <3>1. f[n] = f[n - 1]
      BY <1>5, <1>3, <2>5
    <3>2. Passing(H[n - 1]) = Passing(H[n])
      BY <2>2, <2>3, <2>5, PassingChange
    <3> QED BY <2>1, <2>2, <3>1, <3>2
  <2> QED BY <2>4, <2>5
<1> HIDE DEF P
<1>10. N \in P
  BY <1>2, <1>8, <1>9, StepByStep
<1> QED BY <1>5, <1>4, <1>7, <1>10 DEF P

-----------------------------------------------------------------------------
(* A lawful batch through one side of the join.                             *)

LEMMA MaxIs ==
  ASSUME NEW S, S \subseteq Nat, 0 \in S, NEW n \in Nat, \A x \in S : x <= n
  PROVE  Max(S) \in S /\ \A x \in S : x <= Max(S)
<1> DEFINE U == {m \in Nat : \A x \in S : x <= m}
<1>1. U \subseteq Nat /\ U # {}
  OBVIOUS
<1>2. PICK m \in U : \A k \in U : m <= k
  BY <1>1, LeastNatural, Zenon
<1>3. m \in S
  <2>1. CASE m = 0
    BY <2>1
  <2>2. CASE m # 0
    <3>1. m - 1 \in Nat /\ ~(m <= m - 1)
      BY <1>2, <2>2
    <3>2. ~ \A x \in S : x <= m - 1
      BY <1>2, <3>1
    <3>3. PICK x \in S : ~(x <= m - 1)
      BY <3>2
    <3>4. x = m
      BY <1>2, <2>2, <3>3
    <3> QED BY <3>4
  <2> QED BY <2>1, <2>2
<1>4. \E x \in S : \A y \in S : x >= y
  BY <1>2, <1>3
<1>5. Max(S) \in S /\ \A y \in S : Max(S) >= y
  BY <1>4 DEF Max
<1> QED BY <1>5

\* The last delta of the same row before the i-th, or 0.
LastBefore(ds, i, h) ==
  /\ h \in 0..(i - 1)
  /\ h # 0 => ds[h].row.id = ds[i].row.id
  /\ \A k \in 1..(i - 1) : ds[k].row.id = ds[i].row.id => k <= h

LEMMA PreviousIs ==
  ASSUME NEW ds, NEW i \in Nat, i # 0
  PROVE  LastBefore(ds, i, Previous(ds, i))
<1> DEFINE S == {h \in 1..(i - 1) : ds[h].row.id = ds[i].row.id} \cup {0}
<1>1. S \subseteq Nat /\ 0 \in S /\ \A x \in S : x <= i
  OBVIOUS
<1>2. Previous(ds, i) = Max(S)
  BY DEF Previous
<1>3. \A x \in S : x \in 0..(i - 1) /\ (x # 0 => ds[x].row.id = ds[i].row.id)
  OBVIOUS
<1>4. \A k \in 1..(i - 1) : ds[k].row.id = ds[i].row.id => k \in S
  OBVIOUS
<1> HIDE DEF S
<1>5. Max(S) \in S /\ \A x \in S : x <= Max(S)
  BY <1>1, MaxIs
<1> QED BY <1>2, <1>3, <1>4, <1>5 DEF LastBefore

\* The rows whose deletion was folded with an insertion that is still to come.
Held(ds, updates, i) ==
  {ds[u].row.id : u \in {v \in updates : v > i /\ Previous(ds, v) <= i}}

\* What an update folds: a deletion and the next delta of the same row.
Folds(ds, u, h) ==
  /\ u \in 1..Len(ds) /\ h \in 1..(u - 1)
  /\ ds[u].diff = 1 /\ ds[h].diff = -1 /\ ds[h].row.id = ds[u].row.id
  /\ \A k \in 1..(u - 1) : ds[k].row.id = ds[u].row.id => k <= h

LEMMA UpdateFolds ==
  ASSUME NEW ds, Len(ds) \in Nat, DOMAIN ds = 1..Len(ds), NEW column, NEW u \in Updates(ds, column)
  PROVE  Folds(ds, u, Previous(ds, u))
<1>1. u \in 1..Len(ds) /\ ds[u].diff = 1 /\ Previous(ds, u) # 0 /\ ds[Previous(ds, u)].diff = -1
  BY DEF Updates
<1>2. LastBefore(ds, u, Previous(ds, u))
  BY <1>1, PreviousIs
<1> QED BY <1>1, <1>2 DEF LastBefore, Folds

\* The keys of the rows that a side may get.
LEMMA RowsHaveKeys ==
  ASSUME plan \in Plans, NEW s \in Side, NEW t \in Table, NEW row \in RowOf(t)
  PROVE  row \in Row /\ row.id \in RowIdsOf(t) /\ row.vals[KeyColumn(s)] \in Key /\ row.vals # Absent
<1>1. row.id \in RowIdsOf(t) /\ row.vals \in ValuesOf(t) /\ row = [id |-> row.id, vals |-> row.vals]
  BY DEF RowOf
<1>2. row.id \in Id /\ row.vals \in Vals
  BY <1>1 DEF Id, Vals
<1>3. KeyColumn(s) \in Column
  BY DEF KeyColumn, Column
<1>4. row \in Row
  BY <1>1, <1>2 DEF Row
<1>5. row.vals[KeyColumn(s)] \in Key
  BY <1>2, <1>3 DEF Key
<1> QED BY <1>1, <1>4, <1>5, AbsentIsNoValue

\* What a change does to the ids that have a row.
Appears(b, x, c) == x \notin Present(b) /\ Present(c) = Present(b) \cup {x}
Vanishes(b, x, c) == x \in Present(b) /\ Present(c) = Present(b) \ {x}

LEMMA PresentAfter ==
  ASSUME NEW t \in Table, NEW b \in ContentsOf(t), NEW c \in ContentsOf(t), NEW d \in DeltaOf(t),
         Change(b, d, c)
  PROVE  /\ d.diff = 1 => Appears(b, d.row.id, c)
         /\ d.diff # 1 => Vanishes(b, d.row.id, c)
<1>1. d.row.id \in RowIdsOf(t) /\ d.row.vals # Absent
  BY AbsentIsNoValue DEF DeltaOf, RowOf
<1>2. DOMAIN b = RowIdsOf(t)
  BY DEF ContentsOf
<1> QED BY <1>1, <1>2 DEF Change, Present, Appears, Vanishes
\* Applied is the run of its deltas.
LEMMA AppliedRuns ==
  ASSUME NEW j, NEW s, NEW deltas, Len(deltas) \in Nat
  PROVE  \E f : /\ f[0] = j
                /\ \A n \in 1..Len(deltas) : f[n] = Processed(f[n - 1], s, deltas, n)
                /\ Applied(j, s, deltas) = f[Len(deltas)]
<1> DEFINE N == Len(deltas)
           Start == j
           Step(n, x) == Processed(x, s, deltas, n)
           Run(f, k) == f = [n \in 0..k |-> IF n = 0 THEN Start ELSE Step(n, f[n - 1])]
           P == {k \in 0..N : \E f : Run(f, k)}
<1>0. Applied(j, s, deltas) = (CHOOSE f : Run(f, N))[N]
  BY DEF Applied
<1> HIDE DEF N, Start, Step
<1>1. N \in Nat
  BY DEF N
<1>2. 0 \in P
  <2>1. Run([n \in 0..0 |-> Start], 0) /\ 0 \in 0..N
    BY <1>1
  <2> QED BY <2>1
<1>3. ASSUME NEW k \in 1..N, k - 1 \in P PROVE k \in P
  <2>1. PICK f : Run(f, k - 1)
    BY <1>3
  <2> DEFINE h == [n \in 0..k |-> IF n = k THEN Step(k, f[k - 1]) ELSE f[n]]
  <2>2. ASSUME NEW n \in 0..k PROVE h[n] = IF n = 0 THEN Start ELSE Step(n, h[n - 1])
    <3>1. CASE n = 0
      BY <2>1, <3>1
    <3>2. CASE n # 0 /\ n # k
      <4>1. h[n] = f[n] /\ h[n - 1] = f[n - 1] /\ n \in 0..(k - 1)
        BY <3>2
      <4> QED BY <2>1, <3>2, <4>1
    <3>3. CASE n = k
      <4>1. h[k] = Step(k, f[k - 1]) /\ h[k - 1] = f[k - 1]
        OBVIOUS
      <4> QED BY <3>3, <4>1
    <3> QED BY <3>1, <3>2, <3>3
  <2>3. h = [n \in 0..k |-> h[n]]
    OBVIOUS
  <2> HIDE DEF h
  <2>4. Run(h, k)
    BY <2>2, <2>3
  <2> QED BY <2>4
<1> HIDE DEF P
<1>4. N \in P
  BY <1>1, <1>2, <1>3, StepByStep
<1>5. PICK f : f = (CHOOSE e : Run(e, N)) /\ Run(f, N)
  BY <1>4 DEF P
<1>6. f[0] = Start /\ \A n \in 1..N : f[n] = Step(n, f[n - 1])
  <2>1. \A n \in 0..N : f[n] = IF n = 0 THEN Start ELSE Step(n, f[n - 1])
    <3>1. Run(f, N)
      BY <1>5
    <3> QED BY <3>1
  <2>2. 0 \in 0..N /\ \A n \in 1..N : n \in 0..N /\ n # 0
    BY <1>1
  <2> QED BY <2>1, <2>2
<1>7. Applied(j, s, deltas) = f[N]
  BY <1>0, <1>5
<1> QED BY <1>6, <1>7 DEF N, Start, Step

LEMMA ProcessedOK ==
  ASSUME plan \in Plans, NEW s \in Side, NEW t \in Table, NEW ds \in Seq(DeltaOf(t)),
         NEW i \in 1..Len(ds), NEW b \in ContentsOf(t), NEW c \in ContentsOf(t), Change(b, ds[i], c),
         NEW j, JoinOK(j),
         RowsOf(j[s]) = Present(b) \cup Held(ds, Updates(ds, KeyColumn(s)), i - 1)
  PROVE  Stepped(j, Processed(j, s, ds, i), s,
                 Present(c) \cup Held(ds, Updates(ds, KeyColumn(s)), i))
<1> DEFINE updates == Updates(ds, KeyColumn(s))
           updateAt == {u \in updates : Previous(ds, u) = i}
           row == ds[i].row
           x == row.id
           before == Held(ds, updates, i - 1)
           after == Held(ds, updates, i)
           J == Processed(j, s, ds, i)
<1>1. i \in Nat /\ i # 0 /\ Len(ds) \in Nat /\ DOMAIN ds = 1..Len(ds)
      /\ \A k \in 1..Len(ds) : ds[k] \in DeltaOf(t) /\ ds[k].row \in RowOf(t)
  <2>1. i \in Nat /\ i # 0 /\ Len(ds) \in Nat /\ DOMAIN ds = 1..Len(ds)
    OBVIOUS
  <2>2. \A k \in 1..Len(ds) : ds[k] \in DeltaOf(t)
    OBVIOUS
  <2>3. \A d \in DeltaOf(t) : d.row \in RowOf(t)
    BY DEF DeltaOf
  <2> QED BY <2>1, <2>2, <2>3, Zenon
<1>2. row \in Row /\ row.vals[KeyColumn(s)] \in Key
  BY <1>1, RowsHaveKeys
<1>3. ds[i].diff = 1 => Appears(b, x, c)
  BY <1>1, PresentAfter
<1>4. ds[i].diff # 1 => Vanishes(b, x, c)
  BY <1>1, PresentAfter
<1>5. \A u \in updates : Folds(ds, u, Previous(ds, u))
  BY <1>1, UpdateFolds
<1> HIDE DEF updates
<1>6. ASSUME i \notin updates PROVE before \subseteq after
  <2> SUFFICES ASSUME NEW u \in updates, u > i - 1, Previous(ds, u) <= i - 1
               PROVE  u > i /\ Previous(ds, u) <= i
    BY DEF Held
  <2>1. u \in Nat /\ Previous(ds, u) \in Nat /\ u # i
    BY <1>1, <1>5, <1>6 DEF Folds
  <2> QED BY <1>1, <2>1
<1>7. after \subseteq before \cup {x}
  <2> SUFFICES ASSUME NEW u \in updates, u > i, Previous(ds, u) <= i
               PROVE  ds[u].row.id \in before \cup {x}
    BY DEF Held
  <2>1. u \in Nat /\ Previous(ds, u) \in Nat /\ ds[Previous(ds, u)].row.id = ds[u].row.id
    BY <1>1, <1>5 DEF Folds
  <2>2. CASE Previous(ds, u) = i
    BY <2>1, <2>2
  <2>3. CASE Previous(ds, u) # i
    <3>1. u > i - 1 /\ Previous(ds, u) <= i - 1
      BY <1>1, <2>1, <2>3
    <3> QED BY <3>1 DEF Held
  <2> QED BY <2>2, <2>3
<1>8. before \subseteq after \cup {x}
  <2> SUFFICES ASSUME NEW u \in updates, u > i - 1, Previous(ds, u) <= i - 1
               PROVE  ds[u].row.id \in after \cup {x}
    BY DEF Held
  <2>1. u \in Nat /\ Previous(ds, u) \in Nat
    BY <1>1, <1>5 DEF Folds
  <2>2. CASE u # i
    <3>1. u > i /\ Previous(ds, u) <= i
      BY <1>1, <2>1, <2>2
    <3> QED BY <3>1 DEF Held
  <2> QED BY <2>2
\* No delta of the same row comes between the two that are folded.
<1>9. ASSUME i \notin updates, updateAt = {} PROVE x \notin before /\ x \notin after
  <2>1. ASSUME NEW u \in updates, u > i - 1, Previous(ds, u) <= i PROVE ds[u].row.id # x
    <3>1. u \in Nat /\ Previous(ds, u) \in Nat /\ u # i /\ Previous(ds, u) # i
      BY <1>1, <1>5, <1>9 DEF Folds
    <3>2. i \in 1..(u - 1) /\ ~(i <= Previous(ds, u))
      BY <1>1, <2>1, <3>1
    <3> QED BY <1>5, <3>2 DEF Folds
  <2>2. ASSUME NEW u \in updates PROVE u \in Nat /\ Previous(ds, u) \in Nat
    BY <1>1, <1>5 DEF Folds
  <2>3. x \notin before
    <3> SUFFICES ASSUME NEW u \in updates, u > i - 1, Previous(ds, u) <= i - 1, ds[u].row.id = x PROVE FALSE
      BY DEF Held
    <3> QED BY <1>1, <2>1, <2>2
  <2>4. x \notin after
    <3> SUFFICES ASSUME NEW u \in updates, u > i, Previous(ds, u) <= i, ds[u].row.id = x PROVE FALSE
      BY DEF Held
    <3> QED BY <1>1, <2>1, <2>2
  <2> QED BY <2>3, <2>4
<1>10. RowsOf(j[s]) = Present(b) \cup before
  BY DEF updates
<1>11. J = CASE i \in updates -> j
             [] updateAt # {} -> ProcessSameKeyUpdate(j, s, row, ds[CHOOSE u \in updateAt : TRUE].row)
             [] i \notin updates /\ updateAt = {} /\ ds[i].diff = 1 -> ProcessInsert(j, s, row)
             [] i \notin updates /\ updateAt = {} /\ ds[i].diff # 1 -> ProcessDelete(j, s, row)
  BY DEF Processed, updates
<1>12. i \in updates => ds[i].diff = 1 /\ x \in before
  <2> SUFFICES ASSUME i \in updates PROVE ds[i].diff = 1 /\ x \in before
    OBVIOUS
  <2>1. ds[i].diff = 1 /\ Previous(ds, i) \in 1..(i - 1)
    BY <1>5 DEF Folds
  <2>2. i > i - 1 /\ Previous(ds, i) <= i - 1
    BY <1>1, <2>1
  <2> QED BY <2>1, <2>2 DEF Held
<1>13. ASSUME NEW u \in updateAt
       PROVE  ds[i].diff # 1 /\ ds[u].row.id = x /\ x \in after /\ u \in 1..Len(ds)
  <2>1. ds[i].diff = -1 /\ ds[u].row.id = x /\ u \in 1..Len(ds) /\ i \in 1..(u - 1)
    BY <1>5 DEF Folds
  <2>2. u > i /\ Previous(ds, u) <= i
    BY <1>1, <2>1
  <2> QED BY <2>1, <2>2 DEF Held
<1> HIDE DEF before, after, J, row, x, updateAt
<1>14. CASE i \in updates
  <2>1. updateAt = {}
    BY <1>12, <1>13, <1>14
  <2>2. J = j
    BY <1>11, <1>14, <2>1
  <2>3. Present(b) \cup before = Present(c) \cup after
    BY <1>3, <1>7, <1>8, <1>12, <1>14 DEF Appears
  <2> QED BY <1>10, <2>2, <2>3 DEF Stepped, J, after, updates
<1>15. CASE i \notin updates /\ updateAt # {}
  <2> DEFINE u == CHOOSE v \in updateAt : TRUE
             new == ds[u].row
  <2>1. u \in updateAt
    BY <1>15
  <2>2. J = ProcessSameKeyUpdate(j, s, row, new)
    BY <1>11, <1>15
  <2> HIDE DEF u
  <2>3. new \in Row /\ new.vals[KeyColumn(s)] \in Key /\ new.id = x
    BY <1>1, <1>13, <2>1, RowsHaveKeys
  <2> HIDE DEF new
  <2>4. Stepped(j, J, s, RowsOf(j[s]) \cup {x})
    BY <1>2, <2>2, <2>3, ProcessSameKeyUpdateOK
  <2>5. Vanishes(b, x, c) /\ x \in after
    BY <1>4, <1>13, <2>1
  <2>6. RowsOf(j[s]) \cup {x} = Present(c) \cup after
    BY <1>6, <1>7, <1>10, <1>15, <2>5 DEF Vanishes
  <2> QED BY <2>4, <2>6 DEF J, after, updates
<1>16. CASE i \notin updates /\ updateAt = {} /\ ds[i].diff = 1
  <2>1. J = ProcessInsert(j, s, row)
    BY <1>11, <1>16
  <2>2. Appears(b, x, c) /\ x \notin before /\ x \notin after
    BY <1>3, <1>9, <1>16
  <2>3. x \notin RowsOf(j[s])
    BY <1>10, <2>2 DEF Appears
  <2>4. Stepped(j, J, s, RowsOf(j[s]) \cup {x})
    BY <1>2, <2>1, <2>3, ProcessInsertOK DEF x
  <2>5. RowsOf(j[s]) \cup {x} = Present(c) \cup after
    BY <1>6, <1>7, <1>10, <1>16, <2>2 DEF Appears
  <2> QED BY <2>4, <2>5 DEF J, after, updates
<1>17. CASE i \notin updates /\ updateAt = {} /\ ds[i].diff # 1
  <2>1. J = ProcessDelete(j, s, row)
    BY <1>11, <1>17
  <2>2. Vanishes(b, x, c) /\ x \notin before /\ x \notin after
    BY <1>4, <1>9, <1>17
  <2>3. Stepped(j, J, s, RowsOf(j[s]) \ {x})
    BY <2>1, ProcessDeleteOK DEF x
  <2>4. RowsOf(j[s]) \ {x} = Present(c) \cup after
    BY <1>6, <1>7, <1>10, <1>17, <2>2 DEF Vanishes
  <2> QED BY <2>3, <2>4 DEF J, after, updates
<1> QED BY <1>14, <1>15, <1>16, <1>17

LEMMA AppliedOK ==
  ASSUME plan \in Plans, NEW s \in Side, NEW t \in Table, NEW a, NEW ds, NEW b,
         Lawful(t, a, ds, b), NEW j, JoinOK(j), RowsOf(j[s]) = Present(a)
  PROVE  Stepped(j, Applied(j, s, ds), s, Present(b))
<1> DEFINE N == Len(ds)
           updates == Updates(ds, KeyColumn(s))
           o == Other(s)
<1>1. ds \in Seq(DeltaOf(t)) /\ N \in Nat /\ DOMAIN ds = 1..N
  BY DEF Lawful
<1>2. PICK H : History(t, H, ds) /\ H[0] = a /\ H[N] = b
  BY DEF Lawful
<1>3. H \in [0..N -> ContentsOf(t)] /\ \A i \in 1..N : Change(H[i - 1], ds[i], H[i])
  BY <1>2 DEF History
<1>4. PICK f : /\ f[0] = j
               /\ \A i \in 1..N : f[i] = Processed(f[i - 1], s, ds, i)
               /\ Applied(j, s, ds) = f[N]
  <2>1. Len(ds) \in Nat
    BY <1>1
  <2> QED BY <2>1, AppliedRuns
<1>5. \A u \in updates : u \in 1..N /\ Previous(ds, u) \in 1..(u - 1)
  BY <1>1, UpdateFolds DEF Folds
<1> DEFINE P == {i \in 0..N : Stepped(j, f[i], s, Present(H[i]) \cup Held(ds, updates, i))}
<1>6. 0 \in P
  <2>1. Held(ds, updates, 0) = {}
    <3>1. ASSUME NEW u \in updates PROVE ~(Previous(ds, u) <= 0)
      BY <1>1, <1>5
    <3> HIDE DEF updates
    <3> QED BY <3>1 DEF Held
  <2>2. Present(H[0]) \cup Held(ds, updates, 0) = Present(a)
    BY <1>2, <2>1
  <2> HIDE DEF updates
  <2>3. Stepped(j, f[0], s, Present(H[0]) \cup Held(ds, updates, 0))
    BY <1>4, <2>2 DEF Stepped
  <2>4. 0 \in 0..N
    BY <1>1
  <2> QED BY <2>3, <2>4
<1>7. ASSUME NEW i \in 1..N, i - 1 \in P PROVE i \in P
  <2> DEFINE A == Present(H[i - 1]) \cup Held(ds, updates, i - 1)
             B == Present(H[i]) \cup Held(ds, updates, i)
  <2>1. i \in 0..N /\ i - 1 \in 0..N
    BY <1>1
  <2>2. Stepped(j, f[i - 1], s, A)
    BY <1>7
  <2>3. JoinOK(f[i - 1]) /\ RowsOf(f[i - 1][s]) = A /\ RowsOf(f[i - 1][o]) = RowsOf(j[o])
    BY <2>2 DEF Stepped
  <2>4. H[i - 1] \in ContentsOf(t) /\ H[i] \in ContentsOf(t) /\ Change(H[i - 1], ds[i], H[i])
    BY <1>3, <2>1
  <2> HIDE DEF N
  <2>5. Stepped(f[i - 1], Processed(f[i - 1], s, ds, i), s, B)
    <3>1. i \in 1..Len(ds)
      BY DEF N
    <3> QED BY <1>1, <2>3, <2>4, <3>1, ProcessedOK
  <2> HIDE DEF updates, A, B, P
  <2>6. Stepped(f[i - 1], f[i], s, B)
    BY <1>4, <2>5
  <2>7. Stepped(j, f[i], s, B)
    BY <2>3, <2>6 DEF Stepped
  <2> QED BY <2>1, <2>7 DEF P, B
<1> HIDE DEF P
<1>8. N \in P
  <2> HIDE DEF N
  <2> QED BY <1>1, <1>6, <1>7, StepByStep
<1>9. Held(ds, updates, N) = {}
  <2>1. ASSUME NEW u \in updates PROVE ~(u > N)
    BY <1>1, <1>5
  <2> HIDE DEF updates, N
  <2> QED BY <2>1 DEF Held
<1>10. Stepped(j, f[N], s, Present(b) \cup Held(ds, updates, N))
  BY <1>2, <1>8 DEF P
<1> HIDE DEF updates, N
<1>11. Present(b) \cup Held(ds, updates, N) = Present(b)
  BY <1>9
<1> QED BY <1>4, <1>10, <1>11

-----------------------------------------------------------------------------
(* The groups: an announced key has a group, and every key with a group is  *)
(* announced or silent since the bootstrap.                                 *)

GroupKeys(deltas) == {KeyOfDelta(deltas[i]) : i \in DOMAIN deltas}
OfKey(deltas, key) == SelectSeq(deltas, LAMBDA d : KeyOfDelta(d) = key)

\* Aggregated is the run of its groups.
LEMMA AggregatedRuns ==
  ASSUME NEW g, NEW deltas, Len(SetToSeq(GroupKeys(deltas))) \in Nat
  PROVE  \E f : /\ f[0] = g
                /\ \A n \in 1..Len(SetToSeq(GroupKeys(deltas))) : f[n] = ProcessGroup(f[n - 1], SetToSeq(GroupKeys(deltas))[n], OfKey(deltas, SetToSeq(GroupKeys(deltas))[n]))
                /\ Aggregated(g, deltas) = f[Len(SetToSeq(GroupKeys(deltas)))]
<1> DEFINE N == Len(SetToSeq(GroupKeys(deltas)))
           Start == g
           Step(n, x) == ProcessGroup(x, SetToSeq(GroupKeys(deltas))[n], OfKey(deltas, SetToSeq(GroupKeys(deltas))[n]))
           Run(f, k) == f = [n \in 0..k |-> IF n = 0 THEN Start ELSE Step(n, f[n - 1])]
           P == {k \in 0..N : \E f : Run(f, k)}
<1>0. Aggregated(g, deltas) = (CHOOSE f : Run(f, N))[N]
  BY DEF Aggregated, GroupKeys, OfKey
<1> HIDE DEF N, Start, Step
<1>1. N \in Nat
  BY DEF N
<1>2. 0 \in P
  <2>1. Run([n \in 0..0 |-> Start], 0) /\ 0 \in 0..N
    BY <1>1
  <2> QED BY <2>1
<1>3. ASSUME NEW k \in 1..N, k - 1 \in P PROVE k \in P
  <2>1. PICK f : Run(f, k - 1)
    BY <1>3
  <2> DEFINE h == [n \in 0..k |-> IF n = k THEN Step(k, f[k - 1]) ELSE f[n]]
  <2>2. ASSUME NEW n \in 0..k PROVE h[n] = IF n = 0 THEN Start ELSE Step(n, h[n - 1])
    <3>1. CASE n = 0
      BY <2>1, <3>1
    <3>2. CASE n # 0 /\ n # k
      <4>1. h[n] = f[n] /\ h[n - 1] = f[n - 1] /\ n \in 0..(k - 1)
        BY <3>2
      <4> QED BY <2>1, <3>2, <4>1
    <3>3. CASE n = k
      <4>1. h[k] = Step(k, f[k - 1]) /\ h[k - 1] = f[k - 1]
        OBVIOUS
      <4> QED BY <3>3, <4>1
    <3> QED BY <3>1, <3>2, <3>3
  <2>3. h = [n \in 0..k |-> h[n]]
    OBVIOUS
  <2> HIDE DEF h
  <2>4. Run(h, k)
    BY <2>2, <2>3
  <2> QED BY <2>4
<1> HIDE DEF P
<1>4. N \in P
  BY <1>1, <1>2, <1>3, StepByStep
<1>5. PICK f : f = (CHOOSE e : Run(e, N)) /\ Run(f, N)
  BY <1>4 DEF P
<1>6. f[0] = Start /\ \A n \in 1..N : f[n] = Step(n, f[n - 1])
  <2>1. \A n \in 0..N : f[n] = IF n = 0 THEN Start ELSE Step(n, f[n - 1])
    <3>1. Run(f, N)
      BY <1>5
    <3> QED BY <3>1
  <2>2. 0 \in 0..N /\ \A n \in 1..N : n \in 0..N /\ n # 0
    BY <1>1
  <2> QED BY <2>1, <2>2
<1>7. Aggregated(g, deltas) = f[N]
  BY <1>0, <1>5
<1> QED BY <1>6, <1>7 DEF N, Start, Step

GroupsOK(g) == g.announced \subseteq DOMAIN g.groups /\ DOMAIN g.groups \ g.announced \subseteq silent

LEMMA ProcessGroupOK ==
  ASSUME NEW g, GroupsOK(g), NEW key, NEW ds
  PROVE  GroupsOK(ProcessGroup(g, key, ds))
<1> DEFINE old == States(g.groups, key)
           new == FoldLeft(LAMBDA acc, d : After(acc, d.row, d.diff), old, ds)
           over == \A f \in DOMAIN new : IsEmpty(plan.functions[f][1], new[f])
           G == ProcessGroup(g, key, ds)
<1>1. G.groups = (IF over THEN Without(g.groups, key) ELSE With(g.groups, key, new))
      /\ G.announced = (IF over THEN g.announced \ {key} ELSE g.announced \cup {key})
  BY DEF ProcessGroup
<1> HIDE DEF G, over, new, old
<1>2. CASE over
  BY <1>1, <1>2 DEF GroupsOK, Without, G
<1>3. CASE ~over
  BY <1>1, <1>3 DEF GroupsOK, With, G
<1> QED BY <1>2, <1>3

\* What is counted by a sequence is finite, and can be put in order.
LEMMA OrderIsSeq ==
  ASSUME NEW S, NEW N \in Nat, NEW f \in [1..N -> S], \A x \in S : \E i \in 1..N : f[i] = x
  PROVE  Len(SetToSeq(S)) \in Nat
<1>1. f \in Surjection(1..N, S)
  BY DEF Surjection
<1>2. IsFiniteSet(1..N)
  BY FS_Interval
<1>3. IsFiniteSet(S)
  BY <1>1, <1>2, FS_Surjection
<1> DEFINE n == Cardinality(S)
<1>4. n \in Nat /\ ExistsBijection(1..n, S)
  BY <1>3, FS_CardinalityType
<1>5. PICK g \in [1..n -> S] : g = SetToSeq(S)
  <2>1. \E g \in [1..n -> S] : IsInjective(g)
    BY <1>4 DEF ExistsBijection, Bijection, Injection
  <2> HIDE DEF n
  <2>2. (CHOOSE g \in [1..n -> S] : IsInjective(g)) \in [1..n -> S]
    BY <2>1
  <2> QED BY <2>2 DEF SetToSeq, n
<1> HIDE DEF n
<1>6. SetToSeq(S) \in [1..n -> S]
  BY <1>5
<1> QED BY <1>4, <1>6

LEMMA AggregatedOK ==
  ASSUME NEW g, GroupsOK(g), NEW D, NEW ds \in Seq(D)
  PROVE  GroupsOK(Aggregated(g, ds))
<1> DEFINE order == SetToSeq(GroupKeys(ds))
           N == Len(order)
<1>1. N \in Nat
  <2> DEFINE f == [i \in 1..Len(ds) |-> KeyOfDelta(ds[i])]
  <2>1. Len(ds) \in Nat /\ DOMAIN ds = 1..Len(ds)
    OBVIOUS
  <2>2. f \in [1..Len(ds) -> GroupKeys(ds)]
    BY <2>1 DEF GroupKeys
  <2>3. \A x \in GroupKeys(ds) : \E i \in 1..Len(ds) : f[i] = x
    BY <2>1 DEF GroupKeys
  <2> HIDE DEF f
  <2> QED BY <2>1, <2>2, <2>3, OrderIsSeq
<1>2. PICK f : /\ f[0] = g
               /\ \A n \in 1..N : f[n] = ProcessGroup(f[n - 1], order[n], OfKey(ds, order[n]))
               /\ Aggregated(g, ds) = f[N]
  BY <1>1, AggregatedRuns
<1> HIDE DEF order, N
<1> DEFINE P == {n \in 0..N : GroupsOK(f[n])}
<1>3. 0 \in P
  BY <1>1, <1>2
<1>4. ASSUME NEW n \in 1..N, n - 1 \in P PROVE n \in P
  <2>1. GroupsOK(f[n - 1]) /\ n \in 0..N
    BY <1>1, <1>4
  <2>2. GroupsOK(f[n])
    BY <1>2, <2>1, ProcessGroupOK
  <2> QED BY <2>1, <2>2
<1> HIDE DEF P
<1>5. N \in P
  <2>1. 0..N \subseteq P
    BY <1>1, <1>3, <1>4, StepByStep
  <2> QED BY <1>1, <2>1
<1> QED BY <1>2, <1>5 DEF P

-----------------------------------------------------------------------------
(* The bootstrap: the rows of the tables in the sides.                      *)

IdsOf(rows) == {rows[i].id : i \in DOMAIN rows}

\* Rows of a table, no id twice.
Distinct(t, rows) ==
  rows \in Seq(RowOf(t)) /\ \A i, k \in DOMAIN rows : rows[i].id = rows[k].id => i = k

\* Every id of a finite set of numbers has its rank, and every rank its id.
Rank(ids, i) == Cardinality({k \in ids : k < i})

LEMMA Ranks ==
  ASSUME NEW ids, ids \subseteq Nat, IsFiniteSet(ids)
  PROVE  /\ Cardinality(ids) \in Nat
         /\ \A i \in ids : Rank(ids, i) \in 0..(Cardinality(ids) - 1)
         /\ \A i, k \in ids : Rank(ids, i) = Rank(ids, k) => i = k
         /\ \A n \in 0..(Cardinality(ids) - 1) : \E i \in ids : Rank(ids, i) = n
<1> DEFINE m == Cardinality(ids)
           Below(i) == {k \in ids : k < i}
<1>1. m \in Nat
  BY FS_CardinalityType
<1>2. ASSUME NEW i \in Nat PROVE IsFiniteSet(Below(i)) /\ Cardinality(Below(i)) \in Nat
  <2>1. Below(i) \in SUBSET ids
    OBVIOUS
  <2> HIDE DEF Below
  <2> QED BY <2>1, FS_Subset, FS_CardinalityType
<1>3. ASSUME NEW i \in ids PROVE Rank(ids, i) \in 0..(m - 1)
  <2> DEFINE B == Below(i)
  <2>1. i \in Nat /\ i \notin B /\ B \cup {i} \in SUBSET ids /\ Rank(ids, i) = Cardinality(B)
    BY DEF Rank
  <2>2. IsFiniteSet(B) /\ Cardinality(B) \in Nat
    BY <1>2, <2>1
  <2> HIDE DEF B
  <2>3. Cardinality(B \cup {i}) = Cardinality(B) + 1
    BY <2>1, <2>2, FS_AddElement
  <2>4. Cardinality(B \cup {i}) <= m
    BY <2>1, FS_Subset
  <2> QED BY <1>1, <2>1, <2>2, <2>3, <2>4
<1>4. ASSUME NEW i \in ids, NEW k \in ids, i < k PROVE Rank(ids, i) # Rank(ids, k)
  <2> DEFINE B == Below(i)
             C == Below(k)
  <2>1. i \in Nat /\ k \in Nat /\ i \notin B /\ B \cup {i} \in SUBSET C
        /\ Rank(ids, i) = Cardinality(B) /\ Rank(ids, k) = Cardinality(C)
    <3>1. i \in Nat /\ k \in Nat /\ i \notin B /\ B \cup {i} \in SUBSET C
      <4>1. i \in Nat /\ k \in Nat /\ i \notin B
        OBVIOUS
      <4>2. \A x \in B : x \in ids /\ x \in Nat /\ x < i
        OBVIOUS
      <4>3. \A x \in B : x < k
        BY <1>4, <4>1, <4>2
      <4>4. B \cup {i} \subseteq C
        BY <1>4, <4>2, <4>3
      <4> QED BY <4>1, <4>4
    <3>2. Rank(ids, i) = Cardinality(B)
      BY DEF Rank
    <3>3. Rank(ids, k) = Cardinality(C)
      BY DEF Rank
    <3> QED BY <3>1, <3>2, <3>3
  <2>2. IsFiniteSet(B) /\ Cardinality(B) \in Nat /\ IsFiniteSet(C) /\ Cardinality(C) \in Nat
    BY <1>2, <2>1
  <2> HIDE DEF B, C
  <2>3. Cardinality(B \cup {i}) = Cardinality(B) + 1
    BY <2>1, <2>2, FS_AddElement
  <2>4. Cardinality(B \cup {i}) <= Cardinality(C)
    BY <2>1, <2>2, FS_Subset
  <2> QED BY <2>1, <2>2, <2>3, <2>4
<1>5. ASSUME NEW i \in ids, NEW k \in ids, Rank(ids, i) = Rank(ids, k) PROVE i = k
  <2>1. i \in Nat /\ k \in Nat
    OBVIOUS
  <2> QED BY <1>4, <1>5, <2>1
<1> DEFINE T == 0..(m - 1)
           f == [i \in ids |-> Rank(ids, i)]
<1>6. f \in Injection(ids, T)
  BY <1>3, <1>5 DEF Injection, IsInjective
<1>7. IsFiniteSet(T) /\ Cardinality(T) = m
  <2> HIDE DEF m
  <2>1. IsFiniteSet(0..(m - 1)) /\ Cardinality(0..(m - 1)) = IF 0 > m - 1 THEN 0 ELSE m - 1 - 0 + 1
    BY <1>1, FS_Interval
  <2> QED BY <1>1, <2>1
<1>8. f \in Surjection(ids, T)
  <2> HIDE DEF f, T
  <2> QED BY <1>6, <1>7, FS_Injection
<1>9. ASSUME NEW n \in T PROVE \E i \in ids : Rank(ids, i) = n
  BY <1>8 DEF Surjection
<1> QED BY <1>1, <1>3, <1>5, <1>9

\* The rows of a table: one for each id that has one.
LEMMA RowsOfTable ==
  ASSUME NEW t \in Table, NEW c \in ContentsOf(t)
  PROVE  Distinct(t, Rows(c)) /\ IdsOf(Rows(c)) = Present(c)
<1> DEFINE ids == Present(c)
           m == Cardinality(ids)
           Nth(n) == CHOOSE i \in ids : Rank(ids, i) = n - 1
           rows == [n \in 1..m |-> [id |-> Nth(n), vals |-> c[Nth(n)]]]
<1>1. Rows(c) = rows
  BY DEF Rows, Present, Rank
<1>2. ids \subseteq RowIdsOf(t) /\ RowIdsOf(t) \subseteq Nat /\ IsFiniteSet(RowIdsOf(t))
      /\ \A i \in ids : c[i] \in ValuesOf(t)
  BY ContentAssumption DEF Present, ContentsOf
<1>3. IsFiniteSet(ids)
  BY <1>2, FS_Subset
<1> HIDE DEF ids
<1>4. /\ m \in Nat
      /\ \A i \in ids : Rank(ids, i) \in 0..(m - 1)
      /\ \A i, k \in ids : Rank(ids, i) = Rank(ids, k) => i = k
      /\ \A n \in 0..(m - 1) : \E i \in ids : Rank(ids, i) = n
  BY <1>2, <1>3, Ranks
<1> HIDE DEF m
<1>5. ASSUME NEW n \in 1..m PROVE Nth(n) \in ids /\ Rank(ids, Nth(n)) = n - 1
  <2>1. n - 1 \in 0..(m - 1)
    BY <1>4
  <2>2. \E i \in ids : Rank(ids, i) = n - 1
    BY <1>4, <2>1
  <2> QED BY <2>2
<1> HIDE DEF Nth
<1>6. ASSUME NEW n \in 1..m PROVE rows[n] \in RowOf(t) /\ rows[n].id = Nth(n)
  <2>1. rows[n] = [id |-> Nth(n), vals |-> c[Nth(n)]]
    OBVIOUS
  <2>2. Nth(n) \in RowIdsOf(t) /\ c[Nth(n)] \in ValuesOf(t)
    BY <1>2, <1>5
  <2> QED BY <2>1, <2>2 DEF RowOf
<1>7. DOMAIN rows = 1..m /\ rows = [n \in 1..m |-> rows[n]]
  OBVIOUS
<1> HIDE DEF rows
<1>8. rows \in Seq(RowOf(t))
  <2>1. rows \in [1..m -> RowOf(t)]
    BY <1>6, <1>7
  <2> QED BY <1>4, <2>1
<1>9. ASSUME NEW n \in 1..m, NEW k \in 1..m, rows[n].id = rows[k].id PROVE n = k
  <2>1. Nth(n) = Nth(k)
    BY <1>6, <1>9
  <2>2. n - 1 = k - 1
    BY <1>5, <2>1
  <2> QED BY <2>2
<1>10. ASSUME NEW i \in ids PROVE \E n \in 1..m : rows[n].id = i
  <2> DEFINE n == Rank(ids, i) + 1
  <2>1. n \in 1..m /\ n - 1 = Rank(ids, i)
    BY <1>4
  <2> HIDE DEF n
  <2>2. Nth(n) = i
    BY <1>4, <1>5, <2>1
  <2> QED BY <1>6, <2>1, <2>2
<1>11. IdsOf(rows) = ids
  BY <1>5, <1>6, <1>7, <1>10 DEF IdsOf
<1> QED BY <1>1, <1>7, <1>8, <1>9, <1>11 DEF Distinct, ids

\* The filter keeps some of the rows.
KeptOf(t, rows, places, n, kept) ==
  /\ Distinct(t, kept)
  /\ \A p \in DOMAIN kept : \E i \in 1..n : i \in places /\ kept[p] = rows[i]
  /\ \A i \in 1..n : i \in places => \E p \in DOMAIN kept : kept[p] = rows[i]

LEMMA KeptOneMore ==
  ASSUME NEW t \in Table, NEW rows, Distinct(t, rows), NEW places, NEW n \in 1..Len(rows),
         NEW kept, KeptOf(t, rows, places, n - 1, kept)
  PROVE  KeptOf(t, rows, places, n, IF n \in places THEN Append(kept, rows[n]) ELSE kept)
<1>1. rows \in Seq(RowOf(t)) /\ kept \in Seq(RowOf(t)) /\ n \in DOMAIN rows
  BY DEF Distinct, KeptOf
<1>2. n \in Nat /\ \A i \in 1..n : i = n \/ i \in 1..(n - 1)
  BY <1>1
<1>3. \A i \in 1..(n - 1) : i \in 1..n /\ i \in DOMAIN rows /\ i # n
  BY <1>1
<1>4. CASE n \notin places
  <2>1. \A i \in 1..n : i \in places => i \in 1..(n - 1)
    BY <1>2, <1>4
  <2>2. KeptOf(t, rows, places, n, kept)
    BY <1>3, <2>1 DEF KeptOf
  <2> QED BY <1>4, <2>2
<1>5. CASE n \in places
  <2> DEFINE L == Len(kept)
             more == Append(kept, rows[n])
  <2>1. L \in Nat /\ DOMAIN kept = 1..L /\ rows[n] \in RowOf(t)
    BY <1>1
  <2>2. more \in Seq(RowOf(t)) /\ DOMAIN more = 1..(L + 1) /\ more[L + 1] = rows[n]
        /\ \A p \in 1..L : more[p] = kept[p]
    BY <1>1, <2>1
  <2> HIDE DEF L, more
  <2>3. \A p \in 1..(L + 1) : p = L + 1 \/ p \in 1..L
    BY <2>1
  <2>4. \A p \in 1..L : kept[p].id # rows[n].id
    <3> SUFFICES ASSUME NEW p \in 1..L, kept[p].id = rows[n].id PROVE FALSE
      OBVIOUS
    <3>1. PICK i \in 1..(n - 1) : kept[p] = rows[i]
      BY <2>1 DEF KeptOf
    <3> QED BY <1>1, <1>3, <3>1 DEF Distinct
  <2>5. Distinct(t, more)
    <3>1. ASSUME NEW p \in 1..(L + 1), NEW q \in 1..(L + 1), more[p].id = more[q].id PROVE p = q
      <4>1. CASE p \in 1..L /\ q \in 1..L
        <5>1. kept[p].id = kept[q].id
          BY <2>2, <3>1, <4>1
        <5> QED BY <2>1, <4>1, <5>1 DEF KeptOf, Distinct
      <4>2. CASE p = L + 1 /\ q \in 1..L
        <5>1. kept[q].id = rows[n].id
          BY <2>2, <3>1, <4>2
        <5> QED BY <2>4, <4>2, <5>1
      <4>3. CASE q = L + 1 /\ p \in 1..L
        <5>1. kept[p].id = rows[n].id
          BY <2>2, <3>1, <4>3
        <5> QED BY <2>4, <4>3, <5>1
      <4> QED BY <2>3, <4>1, <4>2, <4>3
    <3> QED BY <2>2, <3>1 DEF Distinct
  <2>6. ASSUME NEW p \in DOMAIN more PROVE \E i \in 1..n : i \in places /\ more[p] = rows[i]
    <3>1. CASE p = L + 1
      BY <1>2, <1>5, <2>2, <3>1
    <3>2. CASE p \in 1..L
      BY <1>3, <2>1, <2>2, <3>2 DEF KeptOf
    <3> QED BY <2>2, <2>3, <3>1, <3>2
  <2>7. ASSUME NEW i \in 1..n, i \in places PROVE \E p \in DOMAIN more : more[p] = rows[i]
    <3>1. CASE i = n
      <4>1. L + 1 \in DOMAIN more
        BY <2>1, <2>2
      <4> QED BY <2>2, <3>1, <4>1
    <3>2. CASE i \in 1..(n - 1)
      <4>1. PICK p \in 1..L : kept[p] = rows[i]
        BY <2>1, <2>7, <3>2 DEF KeptOf
      <4>2. p \in DOMAIN more /\ more[p] = rows[i]
        BY <2>1, <2>2, <4>1
      <4> QED BY <4>2
    <3> QED BY <1>2, <3>1, <3>2
  <2>8. KeptOf(t, rows, places, n, more)
    BY <2>5, <2>6, <2>7 DEF KeptOf
  <2> QED BY <1>5, <2>8 DEF more
<1> QED BY <1>4, <1>5

LEMMA KeptAll ==
  ASSUME NEW t \in Table, NEW rows, Distinct(t, rows), NEW places
  PROVE  KeptOf(t, rows, places, Len(rows), Kept(rows, places))
<1> DEFINE N == Len(rows)
<1>1. N \in Nat
  BY DEF Distinct
<1>2. PICK f : /\ f[0] = <<>>
               /\ \A n \in 1..N : f[n] = IF n \in places THEN Append(f[n - 1], rows[n]) ELSE f[n - 1]
               /\ Kept(rows, places) = f[N]
  <2>1. Len(rows) \in Nat
    BY <1>1
  <2> QED BY <2>1, KeptRuns
<1> DEFINE P == {n \in 0..N : KeptOf(t, rows, places, n, f[n])}
<1>3. 0 \in P
  <2>1. KeptOf(t, rows, places, 0, <<>>)
    <3>1. <<>> \in Seq(RowOf(t)) /\ DOMAIN <<>> = {} /\ 1..0 = {}
      OBVIOUS
    <3> QED BY <3>1 DEF KeptOf, Distinct
  <2> QED BY <1>1, <1>2, <2>1
<1>4. ASSUME NEW n \in 1..N, n - 1 \in P PROVE n \in P
  <2>1. KeptOf(t, rows, places, n - 1, f[n - 1]) /\ n \in 0..N
    BY <1>1, <1>4
  <2>2. KeptOf(t, rows, places, n, IF n \in places THEN Append(f[n - 1], rows[n]) ELSE f[n - 1])
    BY <2>1, KeptOneMore
  <2>3. KeptOf(t, rows, places, n, f[n])
    BY <1>2, <2>2
  <2> QED BY <2>1, <2>3
<1> HIDE DEF P
<1>5. N \in P
  <2> HIDE DEF N
  <2>1. 0..N \subseteq P
    BY <1>1, <1>3, <1>4, StepByStep
  <2> QED BY <1>1, <2>1
<1> QED BY <1>2, <1>5 DEF P

\* The left input of the query: the rows that pass the filter.
LEMMA LeftInputRows ==
  ASSUME NEW t \in Table, NEW c \in ContentsOf(t)
  PROVE  Distinct(t, LeftInput(Rows(c))) /\ IdsOf(LeftInput(Rows(c))) = Present(Passing(c))
<1> DEFINE rows == Rows(c)
           places == {i \in DOMAIN rows : Passes(rows[i])}
           kept == Kept(rows, places)
<1>1. Distinct(t, rows) /\ IdsOf(rows) = Present(c)
  BY RowsOfTable
<1>2. LeftInput(rows) = kept
  BY DEF LeftInput
<1>3. rows \in Seq(RowOf(t)) /\ DOMAIN rows = 1..Len(rows)
  BY <1>1 DEF Distinct
<1>4. \A i \in DOMAIN rows : rows[i] \in RowOf(t) /\ rows[i] = [id |-> rows[i].id, vals |-> c[rows[i].id]]
  <2>1. \A i \in DOMAIN rows : rows[i] \in RowOf(t)
    BY <1>3
  <2>2. ASSUME NEW i \in DOMAIN rows PROVE rows[i] = [id |-> rows[i].id, vals |-> c[rows[i].id]]
    <3>1. \E x : rows[i] = [id |-> x, vals |-> c[x]]
      BY DEF Rows
    <3> QED BY <3>1
  <2> QED BY <2>1, <2>2
<1>5. \A i \in DOMAIN rows : i \in places <=> Passes(rows[i])
  OBVIOUS
<1> HIDE DEF places
<1>6. KeptOf(t, rows, places, Len(rows), kept)
  BY <1>1, KeptAll
<1> HIDE DEF kept, rows
<1>7. ASSUME NEW p \in DOMAIN kept PROVE kept[p].id \in Present(Passing(c))
  <2>1. PICK i \in DOMAIN rows : i \in places /\ kept[p] = rows[i]
    BY <1>3, <1>6 DEF KeptOf
  <2>2. rows[i].id \in Present(c) /\ Passes([id |-> rows[i].id, vals |-> c[rows[i].id]])
    BY <1>1, <1>4, <1>5, <2>1 DEF IdsOf
  <2> QED BY <2>1, <2>2 DEF Present, Passing
<1>8. ASSUME NEW x \in Present(Passing(c)) PROVE \E p \in DOMAIN kept : kept[p].id = x
  <2>1. x \in Present(c) /\ Passes([id |-> x, vals |-> c[x]])
    BY DEF Present, Passing
  <2>2. PICK i \in DOMAIN rows : rows[i].id = x
    BY <1>1, <2>1 DEF IdsOf
  <2>3. i \in places
    BY <1>4, <1>5, <2>1, <2>2
  <2> QED BY <1>3, <1>6, <2>2, <2>3 DEF KeptOf
<1>9. IdsOf(kept) = Present(Passing(c))
  BY <1>7, <1>8 DEF IdsOf
<1> QED BY <1>2, <1>6, <1>9 DEF KeptOf, rows

\* Filled is the run of its insertions.
LEMMA FilledRuns ==
  ASSUME NEW s, NEW rows, Len(rows) \in Nat
  PROVE  \E f : /\ f[0] = EmptySide
                /\ \A n \in 1..Len(rows) : f[n] = InsertRow(f[n - 1], rows[n], rows[n].vals[KeyColumn(s)], 0)
                /\ Filled(s, rows) = f[Len(rows)]
<1> DEFINE N == Len(rows)
           Start == EmptySide
           Step(n, x) == InsertRow(x, rows[n], rows[n].vals[KeyColumn(s)], 0)
           Run(f, k) == f = [n \in 0..k |-> IF n = 0 THEN Start ELSE Step(n, f[n - 1])]
           P == {k \in 0..N : \E f : Run(f, k)}
<1>0. Filled(s, rows) = (CHOOSE f : Run(f, N))[N]
  BY DEF Filled
<1> HIDE DEF N, Start, Step
<1>1. N \in Nat
  BY DEF N
<1>2. 0 \in P
  <2>1. Run([n \in 0..0 |-> Start], 0) /\ 0 \in 0..N
    BY <1>1
  <2> QED BY <2>1
<1>3. ASSUME NEW k \in 1..N, k - 1 \in P PROVE k \in P
  <2>1. PICK f : Run(f, k - 1)
    BY <1>3
  <2> DEFINE h == [n \in 0..k |-> IF n = k THEN Step(k, f[k - 1]) ELSE f[n]]
  <2>2. ASSUME NEW n \in 0..k PROVE h[n] = IF n = 0 THEN Start ELSE Step(n, h[n - 1])
    <3>1. CASE n = 0
      BY <2>1, <3>1
    <3>2. CASE n # 0 /\ n # k
      <4>1. h[n] = f[n] /\ h[n - 1] = f[n - 1] /\ n \in 0..(k - 1)
        BY <3>2
      <4> QED BY <2>1, <3>2, <4>1
    <3>3. CASE n = k
      <4>1. h[k] = Step(k, f[k - 1]) /\ h[k - 1] = f[k - 1]
        OBVIOUS
      <4> QED BY <3>3, <4>1
    <3> QED BY <3>1, <3>2, <3>3
  <2>3. h = [n \in 0..k |-> h[n]]
    OBVIOUS
  <2> HIDE DEF h
  <2>4. Run(h, k)
    BY <2>2, <2>3
  <2> QED BY <2>4
<1> HIDE DEF P
<1>4. N \in P
  BY <1>1, <1>2, <1>3, StepByStep
<1>5. PICK f : f = (CHOOSE e : Run(e, N)) /\ Run(f, N)
  BY <1>4 DEF P
<1>6. f[0] = Start /\ \A n \in 1..N : f[n] = Step(n, f[n - 1])
  <2>1. \A n \in 0..N : f[n] = IF n = 0 THEN Start ELSE Step(n, f[n - 1])
    <3>1. Run(f, N)
      BY <1>5
    <3> QED BY <3>1
  <2>2. 0 \in 0..N /\ \A n \in 1..N : n \in 0..N /\ n # 0
    BY <1>1
  <2> QED BY <2>1, <2>2
<1>7. Filled(s, rows) = f[N]
  BY <1>0, <1>5
<1> QED BY <1>6, <1>7 DEF N, Start, Step

\* Every row is put into the side.
LEMMA FilledOK ==
  ASSUME plan \in Plans, NEW s \in Side, NEW t \in Table, NEW rows, Distinct(t, rows)
  PROVE  SideOK(Filled(s, rows)) /\ RowsOf(Filled(s, rows)) = IdsOf(rows)
<1> DEFINE N == Len(rows)
           Put(i) == {rows[k].id : k \in 1..i}
<1>1. rows \in Seq(RowOf(t)) /\ N \in Nat /\ DOMAIN rows = 1..N
  BY DEF Distinct
<1>2. PICK f : /\ f[0] = EmptySide
               /\ \A i \in 1..N : f[i] = InsertRow(f[i - 1], rows[i], rows[i].vals[KeyColumn(s)], 0)
               /\ Filled(s, rows) = f[N]
  <2>1. Len(rows) \in Nat
    BY <1>1
  <2> QED BY <2>1, FilledRuns
<1>3. \A i \in 1..N : rows[i] \in RowOf(t)
  BY <1>1
<1> HIDE DEF N
<1> DEFINE P == {i \in 0..N : SideOK(f[i]) /\ RowsOf(f[i]) = Put(i)}
<1>4. 0 \in P
  <2>1. RowsOf(EmptySide) = {} /\ Put(0) = {}
    BY DEF RowsOf, EmptySide
  <2> QED BY <1>1, <1>2, <2>1, EmptyIsOK
<1>5. ASSUME NEW i \in 1..N, i - 1 \in P PROVE i \in P
  <2> DEFINE key == rows[i].vals[KeyColumn(s)]
  <2>1. SideOK(f[i - 1]) /\ RowsOf(f[i - 1]) = Put(i - 1) /\ i \in 0..N
    BY <1>1, <1>5
  <2>2. rows[i] \in Row /\ key \in Key
    BY <1>3, RowsHaveKeys
  <2>3. rows[i].id \notin Put(i - 1)
    <3> SUFFICES ASSUME NEW k \in 1..(i - 1), rows[k].id = rows[i].id PROVE FALSE
      OBVIOUS
    <3>1. k \in DOMAIN rows /\ i \in DOMAIN rows /\ k # i
      BY <1>1
    <3> QED BY <3>1 DEF Distinct
  <2>4. Put(i) = Put(i - 1) \cup {rows[i].id}
    <3>1. 1..i = (1..(i - 1)) \cup {i}
      BY <1>1
    <3> QED BY <3>1
  <2> HIDE DEF Put, key
  <2>5. Added(f[i - 1], InsertRow(f[i - 1], rows[i], key, 0), rows[i], key, 0)
    BY <2>1, <2>2, <2>3, InsertRowOK DEF RowsOf
  <2>6. f[i] = InsertRow(f[i - 1], rows[i], key, 0)
    BY <1>2 DEF key
  <2>7. SideOK(f[i]) /\ RowsOf(f[i]) = Put(i)
    BY <2>1, <2>4, <2>5, <2>6 DEF Added, RowsOf
  <2> QED BY <2>1, <2>7
<1> HIDE DEF P
<1>6. N \in P
  <2>1. 0..N \subseteq P
    BY <1>1, <1>4, <1>5, StepByStep
  <2> QED BY <1>1, <2>1
<1>7. Put(N) = IdsOf(rows)
  BY <1>1 DEF IdsOf
<1> QED BY <1>2, <1>6, <1>7 DEF P

\* S is the side with the match counts taken from the buckets across.
Recount(side, S, other) ==
  /\ SideOK(S)
  /\ S.slotOf = side.slotOf /\ S.buckets = side.buckets /\ Used(S) = Used(side)
  /\ \A i \in Used(side) : /\ S.slots[i].key = side.slots[i].key
                           /\ S.slots[i].matches = Len(Bucket(other, side.slots[i].key))

LEMMA CountedOK ==
  ASSUME NEW side, SideOK(side), NEW other, SideOK(other)
  PROVE  Recount(side, Counted(side, other), other)
<1> DEFINE S == Counted(side, other)
           Count(i) == Len(Bucket(other, side.slots[i].key))
           slots == [i \in DOMAIN side.slots |-> [side.slots[i] EXCEPT !.matches = Count(i)]]
<1>1. side \in SideType /\ FreeExact(side) /\ Indexed(side) /\ Bucketed(side)
  BY DEF SideOK
<1>2. side.slots \in Slots /\ side.free \in Seq(Nat) /\ side.buckets \in Buckets /\ side.slotOf \in RowIndexes
      /\ side = [slots |-> side.slots, free |-> side.free, buckets |-> side.buckets, slotOf |-> side.slotOf]
  BY <1>1 DEF SideType
<1>3. S = [side EXCEPT !.slots = slots]
  BY DEF Counted
<1>4. ASSUME NEW i \in Used(side)
      PROVE  /\ slots[i] \in Slot /\ slots[i].row = side.slots[i].row /\ slots[i].key = side.slots[i].key
             /\ slots[i].pos = side.slots[i].pos /\ slots[i].matches = Count(i)
  <2>1. side.slots[i] \in Slot /\ i \in DOMAIN side.slots
    BY <1>1, UsedSlots DEF Used
  <2>2. Count(i) \in Nat
    <3>1. Bucket(other, side.slots[i].key) \in Seq(Nat)
      BY BucketIsSeq DEF SideOK
    <3> QED BY <3>1
  <2>3. slots[i] = [side.slots[i] EXCEPT !.matches = Count(i)]
    BY <2>1
  <2> HIDE DEF Count, slots
  <2> QED BY <2>1, <2>2, <2>3 DEF Slot
<1>5. ASSUME NEW i \in DOMAIN side.slots \ Used(side) PROVE slots[i] = NoSlot
  <2>1. side.slots[i] = NoSlot
    BY DEF Used
  <2>2. slots[i] = [NoSlot EXCEPT !.matches = Count(i)]
    BY <2>1
  <2>3. \A e : [<<>> EXCEPT !.matches = e] = <<>>
    OBVIOUS
  <2> QED BY <2>2, <2>3 DEF NoSlot
<1>6. DOMAIN slots = DOMAIN side.slots
  OBVIOUS
<1>7. slots \in Slots
  <2> DEFINE T == Slot \cup {NoSlot}
  <2>1. side.slots \in Seq(T)
    BY <1>2 DEF Slots
  <2>2. Len(side.slots) \in Nat /\ DOMAIN side.slots = 1..Len(side.slots)
    BY <2>1
  <2>3. \A i \in DOMAIN side.slots : slots[i] \in T
    BY <1>4, <1>5
  <2>4. slots = [i \in DOMAIN side.slots |-> slots[i]]
    OBVIOUS
  <2> HIDE DEF slots, T
  <2>5. slots \in [1..Len(side.slots) -> T]
    BY <2>2, <2>3, <2>4
  <2>6. slots \in Seq(T)
    BY <2>2, <2>5
  <2> QED BY <2>6 DEF Slots, T
<1> HIDE DEF slots, S
<1>8. S = [slots |-> slots, free |-> side.free, buckets |-> side.buckets, slotOf |-> side.slotOf]
  BY <1>2, <1>3
<1>9. S.slots = slots /\ S.free = side.free /\ S.buckets = side.buckets /\ S.slotOf = side.slotOf
  BY <1>8
<1>10. S \in SideType
  <2>1. S.slots \in Slots /\ S.free \in Seq(Nat) /\ S.buckets \in Buckets /\ S.slotOf \in RowIndexes
    BY <1>2, <1>7, <1>9
  <2>2. S = [slots |-> S.slots, free |-> S.free, buckets |-> S.buckets, slotOf |-> S.slotOf]
    BY <1>8, <1>9
  <2> QED BY <2>1, <2>2, SideMade
<1>11. Used(S) = Used(side)
  <2>1. \A i \in Used(side) : slots[i] # NoSlot
    BY <1>4, SlotIsRow
  <2> QED BY <1>5, <1>6, <1>9, <2>1 DEF Used
<1>12. SideOK(S)
  <2>1. SameShape(side, S)
    BY <1>4, <1>6, <1>9, <1>10, <1>11 DEF SameShape
  <2> QED BY <2>1, SameShapeOK
<1>13. Recount(side, S, other)
  BY <1>4, <1>9, <1>11, <1>12 DEF Recount
<1> QED BY <1>13 DEF S

-----------------------------------------------------------------------------
(* The inductive invariant.                                                 *)

\* The join as a batch finds it.
Start == [left |-> sides.left, right |-> sides.right, out |-> <<>>]

\* The sides hold the rows that the tables now have, and that pass the filter on the left.
SidesHold ==
  Joins => /\ RowsOf(sides.left) = Present(Passing(tables[plan.left]))
           /\ RowsOf(sides.right) = Present(tables[plan.right])

IInv ==
  /\ plan \in Plans
  /\ tables = [t \in Table |-> tables[t]] /\ \A t \in Table : tables[t] \in ContentsOf(t)
  /\ JoinOK(Start)
  /\ SidesHold
  /\ announced = DOMAIN groups \ silent

LEMMA JoinMade ==
  ASSUME NEW j, IsJoin(j), SideOK(j.left), SideOK(j.right),
         CountsOK(j.left, j.right), CountsOK(j.right, j.left)
  PROVE  JoinOK(j)
<1>1. ASSUME NEW s \in Side PROVE SideOK(j[s]) /\ CountsOK(j[s], j[Other(s)])
  <2>1. CASE s = "left"
    BY <2>1 DEF Other
  <2>2. CASE s = "right"
    BY <2>2 DEF Other
  <2> QED BY <2>1, <2>2 DEF Side
<1> QED BY <1>1 DEF JoinOK, IsJoin

LEMMA StartIsJoin ==
  Start.left = sides.left /\ Start.right = sides.right /\ Start.out = <<>> /\ IsJoin(Start)
<1>1. Start.left = sides.left /\ Start.right = sides.right /\ Start.out = <<>>
  BY DEF Start
<1>2. <<>> \in Seq(Out)
  OBVIOUS
<1> QED BY <1>1, <1>2 DEF IsJoin, Start

LEMMA InitIInv == Init => IInv
<1> SUFFICES ASSUME Init PROVE IInv
  OBVIOUS
<1>1. plan \in Plans /\ tables \in Contents /\ sides = BootstrapSides(tables)
  BY DEF Init
<1>2. tables = [t \in Table |-> tables[t]] /\ \A t \in Table : tables[t] \in ContentsOf(t)
  BY <1>1 DEF Contents
<1>3. announced = DOMAIN groups \ silent
  BY DEF Init
<1>4. plan.left \in Table /\ (Joins => plan.right \in Table)
  BY <1>1, PlanAssumption DEF Joins
<1>5. CASE Joins
  <2> DEFINE left == LeftInput(Rows(tables[plan.left]))
             right == Rows(tables[plan.right])
             L == Filled("left", left)
             R == Filled("right", right)
             A == Counted(L, R)
             B == Counted(R, L)
  <2>1. sides = [left |-> A, right |-> B]
    BY <1>1, <1>5 DEF BootstrapSides
  <2>2. Distinct(plan.left, left) /\ IdsOf(left) = Present(Passing(tables[plan.left]))
    BY <1>2, <1>4, LeftInputRows
  <2>3. Distinct(plan.right, right) /\ IdsOf(right) = Present(tables[plan.right])
    BY <1>2, <1>4, <1>5, RowsOfTable
  <2> HIDE DEF left, right
  <2>4. SideOK(L) /\ RowsOf(L) = IdsOf(left)
    BY <1>1, <1>4, <2>2, FilledOK DEF Side
  <2>5. SideOK(R) /\ RowsOf(R) = IdsOf(right)
    BY <1>1, <1>4, <1>5, <2>3, FilledOK DEF Side
  <2> HIDE DEF L, R
  <2>6. Recount(L, A, R) /\ Recount(R, B, L)
    BY <2>4, <2>5, CountedOK
  <2> HIDE DEF A, B
  <2>7. sides.left = A /\ sides.right = B
    BY <2>1
  <2>8. \A k : Bucket(A, k) = Bucket(L, k) /\ Bucket(B, k) = Bucket(R, k)
    BY <2>6 DEF Recount, Bucket
  <2>9. CountsOK(A, B) /\ CountsOK(B, A)
    BY <2>6, <2>8 DEF Recount, CountsOK
  <2>10. SideOK(A) /\ SideOK(B) /\ RowsOf(A) = RowsOf(L) /\ RowsOf(B) = RowsOf(R)
    BY <2>6 DEF Recount, RowsOf
  <2>11. JoinOK(Start)
    BY <2>7, <2>9, <2>10, StartIsJoin, JoinMade
  <2>12. SidesHold
    BY <2>2, <2>3, <2>4, <2>5, <2>7, <2>10 DEF SidesHold
  <2> QED BY <1>1, <1>2, <1>3, <2>11, <2>12 DEF IInv
<1>6. CASE ~Joins
  <2>1. sides.left = EmptySide /\ sides.right = EmptySide
    BY <1>1, <1>6 DEF BootstrapSides
  <2>2. Used(EmptySide) = {}
    BY DEF Used, EmptySide
  <2>3. CountsOK(EmptySide, EmptySide)
    BY <2>2 DEF CountsOK
  <2>4. JoinOK(Start)
    BY <2>1, <2>3, StartIsJoin, EmptyIsOK, JoinMade
  <2> QED BY <1>1, <1>2, <1>3, <1>6, <2>4 DEF IInv, SidesHold
<1> QED BY <1>5, <1>6

\* The deltas that the two sources are given, for a batch of table t.
LeftOf(t, ds) == IF t = plan.left THEN LeftDeltas(ds) ELSE <<>>
RightOf(t, ds) == IF t = plan.right THEN ds ELSE <<>>

\* The rows of the sources before and after are related by these deltas.
LEMMA SourcesLawful ==
  ASSUME IInv, NEW t \in Table, NEW ds, NEW c, c \in ContentsOf(t), Lawful(t, tables[t], ds, c),
         NEW after, after = [tables EXCEPT ![t] = c]
  PROVE  /\ \A u \in Table : after[u] \in ContentsOf(u)
         /\ Lawful(plan.left, Passing(tables[plan.left]), LeftOf(t, ds), Passing(after[plan.left]))
         /\ Joins => Lawful(plan.right, tables[plan.right], RightOf(t, ds), after[plan.right])
<1>1. plan.left \in Table /\ (Joins => plan.right \in Table)
  BY PlanAssumption DEF IInv, Joins
<1>2. \A u \in Table : tables[u] \in ContentsOf(u) /\ after[u] = IF u = t THEN c ELSE tables[u]
  BY DEF IInv
<1>3. \A u \in Table : after[u] \in ContentsOf(u)
  BY <1>2
<1>4. Lawful(plan.left, Passing(tables[plan.left]), LeftOf(t, ds), Passing(after[plan.left]))
  <2>1. CASE t = plan.left
    <3>1. Lawful(t, Passing(tables[t]), LeftDeltas(ds), Passing(c))
      BY LeftDeltasLawful
    <3> QED BY <1>2, <2>1, <3>1 DEF LeftOf
  <2>2. CASE t # plan.left
    <3>1. Passing(tables[plan.left]) \in ContentsOf(plan.left) /\ after[plan.left] = tables[plan.left]
      BY <1>1, <1>2, <2>2, PassingTyped
    <3>2. Lawful(plan.left, Passing(tables[plan.left]), <<>>, Passing(tables[plan.left]))
      BY <1>1, <3>1, LawfulNone
    <3> QED BY <2>2, <3>1, <3>2 DEF LeftOf
  <2> QED BY <2>1, <2>2
<1>5. ASSUME Joins PROVE Lawful(plan.right, tables[plan.right], RightOf(t, ds), after[plan.right])
  <2>1. CASE t = plan.right
    BY <1>2, <2>1 DEF RightOf
  <2>2. CASE t # plan.right
    <3>1. Lawful(plan.right, tables[plan.right], <<>>, tables[plan.right])
      BY <1>1, <1>2, <1>5, LawfulNone
    <3>2. after[plan.right] = tables[plan.right]
      BY <1>1, <1>2, <1>5, <2>2
    <3> QED BY <2>2, <3>1, <3>2 DEF RightOf
  <2> QED BY <2>1, <2>2
<1> QED BY <1>3, <1>4, <1>5

\* What a batch leads to: exact sides, with the rows of the tables after it.
BatchOK(p, after) ==
  /\ JoinOK([left |-> p.sides.left, right |-> p.sides.right, out |-> <<>>])
  /\ Joins => /\ RowsOf(p.sides.left) = Present(Passing(after[plan.left]))
              /\ RowsOf(p.sides.right) = Present(after[plan.right])
  /\ GroupsOK(p.group)

LEMMA PropagatedOK ==
  ASSUME IInv, NEW t \in Table, NEW ds, NEW c, c \in ContentsOf(t), Lawful(t, tables[t], ds, c),
         NEW after, after = [tables EXCEPT ![t] = c]
  PROVE  BatchOK(Propagated(t, ds), after)
<1> DEFINE left == LeftOf(t, ds)
           right == RightOf(t, ds)
           J1 == Applied(Start, "left", left)
           J2 == Applied(J1, "right", right)
           joined == IF Joins THEN J2 ELSE [Start EXCEPT !.out = left]
           g == [groups |-> groups, announced |-> announced, out |-> <<>>]
           group == IF Aggregates THEN Aggregated(g, joined.out) ELSE [g EXCEPT !.out = joined.out]
           p == Propagated(t, ds)
<1>1. p = [sides |-> [left |-> joined.left, right |-> joined.right], group |-> group]
  BY DEF Propagated, LeftOf, RightOf, Start
<1>2. /\ Lawful(plan.left, Passing(tables[plan.left]), left, Passing(after[plan.left]))
      /\ Joins => Lawful(plan.right, tables[plan.right], right, after[plan.right])
  BY SourcesLawful
<1>3. plan \in Plans /\ plan.left \in Table /\ (Joins => plan.right \in Table) /\ JoinOK(Start)
  BY PlanAssumption DEF IInv, Joins
<1>4. g.groups = groups /\ g.announced = announced /\ GroupsOK(g)
  BY DEF IInv, GroupsOK
<1> HIDE DEF g, left, right, J1, J2, p
<1>5. \A D : joined.out \in Seq(D) => GroupsOK(group)
  <2>1. CASE Aggregates
    <3> HIDE DEF joined
    <3> QED BY <1>4, <2>1, AggregatedOK
  <2>2. CASE ~Aggregates
    <3> HIDE DEF joined
    <3>1. g = [groups |-> groups, announced |-> announced, out |-> <<>>]
      BY DEF g
    <3>2. group = [groups |-> groups, announced |-> announced, out |-> joined.out]
      BY <2>2, <3>1
    <3> HIDE DEF group
    <3> QED BY <1>4, <3>2 DEF GroupsOK
  <2> QED BY <2>1, <2>2
<1>6. CASE Joins
  <2>1. Start["left"] = sides.left /\ Start["right"] = sides.right /\ "left" \in Side /\ "right" \in Side
        /\ Other("left") = "right" /\ Other("right") = "left"
    BY StartIsJoin DEF Side, Other
  <2>2. RowsOf(Start["left"]) = Present(Passing(tables[plan.left]))
        /\ RowsOf(Start["right"]) = Present(tables[plan.right])
    BY <1>6, <2>1 DEF IInv, SidesHold
  <2>3. Stepped(Start, J1, "left", Present(Passing(after[plan.left])))
    BY <1>2, <1>3, <2>1, <2>2, AppliedOK DEF J1
  <2>4. JoinOK(J1) /\ RowsOf(J1["left"]) = Present(Passing(after[plan.left]))
        /\ RowsOf(J1["right"]) = Present(tables[plan.right])
    BY <2>1, <2>2, <2>3 DEF Stepped
  <2>5. Stepped(J1, J2, "right", Present(after[plan.right]))
    BY <1>2, <1>3, <1>6, <2>1, <2>4, AppliedOK DEF J2
  <2>6. JoinOK(J2) /\ RowsOf(J2["right"]) = Present(after[plan.right])
        /\ RowsOf(J2["left"]) = Present(Passing(after[plan.left]))
    BY <2>1, <2>4, <2>5 DEF Stepped
  <2>7. joined = J2
    BY <1>6
  <2>8. J2.out \in Seq(Out)
    BY <2>6 DEF JoinOK
  <2>9. GroupsOK(group)
    BY <1>5, <2>7, <2>8
  <2>10. p.sides.left = J2.left /\ p.sides.right = J2.right /\ p.group = group
    BY <1>1, <2>7
  <2> DEFINE E == [left |-> J2.left, right |-> J2.right, out |-> <<>>]
  <2>11. JoinOK(E)
    <3>1. <<>> \in Seq(Out)
      OBVIOUS
    <3>2. IsJoin(E)
      BY <3>1 DEF IsJoin
    <3>3. SideOK(J2.left) /\ SideOK(J2.right) /\ CountsOK(J2.left, J2.right) /\ CountsOK(J2.right, J2.left)
      BY <2>1, <2>6 DEF JoinOK
    <3>4. E.left = J2.left /\ E.right = J2.right
      OBVIOUS
    <3> HIDE DEF E
    <3> QED BY <3>2, <3>3, <3>4, JoinMade
  <2> HIDE DEF joined, group
  <2> QED BY <2>6, <2>9, <2>10, <2>11 DEF BatchOK, p
<1>7. CASE ~Joins
  <2>1. left \in Seq(DeltaOf(plan.left))
    BY <1>2 DEF Lawful
  <2>2. joined = [left |-> sides.left, right |-> sides.right, out |-> left]
    BY <1>7 DEF Start
  <2>3. joined.left = sides.left /\ joined.right = sides.right /\ joined.out = left
    BY <2>2
  <2>4. GroupsOK(group)
    BY <1>5, <2>1, <2>3
  <2> HIDE DEF joined, group
  <2>5. p.sides.left = sides.left /\ p.sides.right = sides.right /\ p.group = group
    BY <1>1, <2>3
  <2>6. JoinOK([left |-> sides.left, right |-> sides.right, out |-> <<>>])
    BY <1>3 DEF Start
  <2> QED BY <1>7, <2>4, <2>5, <2>6 DEF BatchOK, p
<1> QED BY <1>6, <1>7

LEMMA NextIInv == IInv /\ [Next]_vars => IInv'
<1> SUFFICES ASSUME IInv, [Next]_vars PROVE IInv'
  OBVIOUS
<1>1. CASE UNCHANGED vars
  BY <1>1 DEF vars, IInv, SidesHold, Start, Joins, Passing, Passes
<1>2. ASSUME NEW t \in Table, NEW writes \in Batches(t), TableChange(t, writes) PROVE IInv'
  <2> DEFINE w == Written(tables[t], writes)
             p == Propagated(t, w.deltas)
             after == [tables EXCEPT ![t] = w.content]
  <2>1. plan' = plan /\ tables' = after
        /\ IF DependsOn(t) THEN sides' = p.sides /\ groups' = p.group.groups /\ announced' = p.group.announced
                                  /\ silent' = silent \ p.group.announced
           ELSE UNCHANGED <<sides, groups, announced, silent>>
    BY <1>2 DEF TableChange
  <2>2. plan \in Plans /\ plan.left \in Table /\ (Joins => plan.right \in Table)
        /\ tables = [u \in Table |-> tables[u]] /\ \A u \in Table : tables[u] \in ContentsOf(u)
    BY PlanAssumption DEF IInv, Joins
  <2>3. WriteOK(t, tables[t], w)
    BY <2>2, WrittenLawful
  <2>4. w.content \in ContentsOf(t) /\ Lawful(t, tables[t], w.deltas, w.content)
    BY <2>3 DEF WriteOK
  <2> HIDE DEF w
  <2>5. tables' = [u \in Table |-> tables'[u]] /\ \A u \in Table : tables'[u] \in ContentsOf(u)
    <3>1. \A u \in Table : after[u] \in ContentsOf(u)
      BY <2>4, SourcesLawful
    <3>2. after = [u \in Table |-> after[u]]
      BY <2>2
    <3> QED BY <2>1, <3>1, <3>2
  <2>6. CASE DependsOn(t)
    <3>1. BatchOK(p, after)
      BY <2>4, PropagatedOK
    <3> HIDE DEF p, after
    <3>2. announced' = DOMAIN groups' \ silent'
      BY <2>1, <2>6, <3>1 DEF BatchOK, GroupsOK
    <3>3. JoinOK(Start)'
      BY <2>1, <2>6, <3>1 DEF BatchOK, Start
    <3>4. SidesHold'
      BY <2>1, <2>6, <3>1 DEF BatchOK, SidesHold, Joins, Passing, Passes
    <3> QED BY <2>1, <2>2, <2>5, <3>2, <3>3, <3>4 DEF IInv
  <2>7. CASE ~DependsOn(t)
    <3>1. t # plan.left /\ (Joins => t # plan.right)
      BY <2>7 DEF DependsOn
    <3>2. after[plan.left] = tables[plan.left] /\ (Joins => after[plan.right] = tables[plan.right])
      BY <2>2, <3>1
    <3> HIDE DEF after
    <3>3. announced' = DOMAIN groups' \ silent' /\ JoinOK(Start)'
      BY <2>1, <2>7 DEF IInv, Start
    <3>4. SidesHold'
      BY <2>1, <2>7, <3>2 DEF IInv, SidesHold, Joins, Passing, Passes
    <3> QED BY <2>1, <2>2, <2>5, <3>3, <3>4 DEF IInv
  <2> QED BY <2>6, <2>7
<1>3. CASE Next
  BY <1>2, <1>3 DEF Next
<1> QED BY <1>1, <1>3

-----------------------------------------------------------------------------
(* What follows from it.                                                    *)

LEMMA ToSetIs == \A f : ToSet(f) = {f[i] : i \in DOMAIN f}
BY DEF ToSet

LEMMA FreeCounted ==
  ASSUME NEW side, SideOK(side)
  PROVE  /\ ToSet(side.free) = DOMAIN side.slots \ Used(side)
         /\ Cardinality(ToSet(side.free)) = Len(side.free)
<1> DEFINE n == Len(side.free)
           S == ToSet(side.free)
<1>1. side.free \in Seq(Nat) /\ FreeExact(side)
  BY DEF SideOK, SideType
<1>2. n \in Nat /\ DOMAIN side.free = 1..n /\ side.free = [i \in 1..n |-> side.free[i]]
  BY <1>1
<1>3. S = {side.free[i] : i \in DOMAIN side.free}
  BY ToSetIs
<1> HIDE DEF n, S
<1>4. S = DOMAIN side.slots \ Used(side)
  BY <1>1, <1>3 DEF FreeExact
<1>5. side.free \in [1..n -> S] /\ \A x \in S : \E i \in 1..n : side.free[i] = x
  BY <1>2, <1>3
<1>6. \A p, q \in 1..n : side.free[p] = side.free[q] => p = q
  BY <1>1, <1>2 DEF FreeExact
<1>7. side.free \in Bijection(1..n, S)
  BY <1>2, <1>5, <1>6 DEF Bijection, Injection, Surjection, IsInjective
<1>8. Cardinality(S) = n
  BY <1>2, <1>7, FS_CountingElements DEF ExistsBijection
<1> QED BY <1>4, <1>8 DEF n, S

LEMMA SidesOfState ==
  ASSUME IInv, NEW s \in Side
  PROVE  SideOK(sides[s]) /\ SideOK(sides[Other(s)]) /\ CountsOK(sides[s], sides[Other(s)])
<1>1. Start["left"] = sides["left"] /\ Start["right"] = sides["right"]
  BY DEF Start
<1>2. Other(s) \in Side /\ Start[s] = sides[s] /\ Start[Other(s)] = sides[Other(s)]
  BY <1>1 DEF Side, Other
<1>3. SideOK(Start[s]) /\ SideOK(Start[Other(s)]) /\ CountsOK(Start[s], Start[Other(s)])
  BY <1>2 DEF IInv, JoinOK
<1> QED BY <1>2, <1>3

LEMMA IInvTypeOK == IInv => TypeOK
<1> SUFFICES ASSUME IInv PROVE TypeOK
  OBVIOUS
<1>1. ASSUME NEW s \in Side
      PROVE  /\ ToSet(sides[s].free) = DOMAIN sides[s].slots \ Used(sides[s])
             /\ Cardinality(ToSet(sides[s].free)) = Len(sides[s].free)
             /\ DOMAIN sides[s].slotOf = {sides[s].slots[i].row.id : i \in Used(sides[s])}
             /\ \A i \in Used(sides[s]) : sides[s].slotOf[sides[s].slots[i].row.id] = i
  <2> DEFINE side == sides[s]
  <2>1. SideOK(side)
    BY SidesOfState
  <2> HIDE DEF side
  <2>2. ToSet(side.free) = DOMAIN side.slots \ Used(side) /\ Cardinality(ToSet(side.free)) = Len(side.free)
    BY <2>1, FreeCounted
  <2>3. Indexed(side)
    BY <2>1 DEF SideOK
  <2>4. DOMAIN side.slotOf = {side.slots[i].row.id : i \in Used(side)}
    BY <2>3 DEF Indexed
  <2>5. \A i \in Used(side) : side.slotOf[side.slots[i].row.id] = i
    BY <2>3 DEF Indexed
  <2> QED BY <2>2, <2>4, <2>5 DEF side
<1> QED BY <1>1 DEF IInv, TypeOK, Used

LEMMA IInvBuckets == IInv => BucketsExact
<1> SUFFICES ASSUME IInv PROVE BucketsExact
  OBVIOUS
<1>1. ASSUME NEW s \in Side
      PROVE  /\ DOMAIN sides[s].buckets = {sides[s].slots[i].key : i \in Used(sides[s])}
             /\ \A key \in DOMAIN sides[s].buckets :
                  /\ ToSet(sides[s].buckets[key]) = {i \in Used(sides[s]) : sides[s].slots[i].key = key}
                  /\ \A p \in DOMAIN sides[s].buckets[key] :
                       sides[s].slots[sides[s].buckets[key][p]].pos = p
  <2> DEFINE side == sides[s]
  <2>1. SideOK(side)
    BY SidesOfState
  <2> HIDE DEF side
  <2>2. Bucketed(side) /\ side \in SideType
    BY <2>1 DEF SideOK
  <2>3. ASSUME NEW key \in DOMAIN side.buckets
        PROVE  key \in {side.slots[i].key : i \in Used(side)}
    <3> DEFINE b == side.buckets[key]
    <3>1. b # <<>> /\ \A p \in DOMAIN b : b[p] \in Used(side) /\ side.slots[b[p]].key = key
      BY <2>2 DEF Bucketed
    <3>2. b \in Seq(Nat)
      BY <2>2, BucketIsSeq
    <3> HIDE DEF b
    <3>3. 1 \in DOMAIN b
      BY <3>1, <3>2
    <3> QED BY <3>1, <3>3
  <2>4. DOMAIN side.buckets = {side.slots[i].key : i \in Used(side)}
    BY <2>2, <2>3 DEF Bucketed
  <2>5. ASSUME NEW key \in DOMAIN side.buckets
        PROVE  /\ ToSet(side.buckets[key]) = {i \in Used(side) : side.slots[i].key = key}
               /\ \A p \in DOMAIN side.buckets[key] : side.slots[side.buckets[key][p]].pos = p
    <3> DEFINE b == side.buckets[key]
    <3>1. \A p \in DOMAIN b : b[p] \in Used(side) /\ side.slots[b[p]].key = key /\ side.slots[b[p]].pos = p
      BY <2>2 DEF Bucketed
    <3>2. \A i \in Used(side) : side.slots[i].key = key => side.slots[i].pos \in DOMAIN b /\ b[side.slots[i].pos] = i
      BY <2>2 DEF Bucketed
    <3> HIDE DEF b
    <3>3. ToSet(b) = {i \in Used(side) : side.slots[i].key = key}
      BY <3>1, <3>2, ToSetIs
    <3> QED BY <3>1, <3>3 DEF b
  <2> QED BY <2>4, <2>5 DEF side
<1> QED BY <1>1 DEF BucketsExact, Used

LEMMA IInvCounts == IInv => MatchCountsExact
<1> SUFFICES ASSUME IInv, NEW s \in Side, NEW i \in DOMAIN sides[s].slots, sides[s].slots[i] # NoSlot
             PROVE  sides[s].slots[i].matches = Len(Bucket(sides[Other(s)], sides[s].slots[i].key))
  BY DEF MatchCountsExact
<1>1. CountsOK(sides[s], sides[Other(s)])
  BY SidesOfState
<1>2. i \in Used(sides[s])
  BY DEF Used
<1> QED BY <1>1, <1>2 DEF CountsOK

LEMMA IInvAlways == Spec => []IInv
<1>1. Init => IInv
  BY InitIInv
<1>2. IInv /\ [Next]_vars => IInv'
  BY NextIInv
<1> QED BY <1>1, <1>2, PTL DEF Spec

(* The state of every view has its shape after any batches: the free list   *)
(* has each free slot once, and the row index of a side (slot_by_row_id of  *)
(* JoinSideState) names each used slot by the id of its row and nothing     *)
(* else, so that no row is ever held in two slots.  last_row_ids has an     *)
(* output row for every group but those of the bootstrap for which nothing  *)
(* has been output since, and for no key without a group: only those can    *)
(* leave their old row behind.                                              *)
THEOREM ViewTypeCorrect == Spec => []TypeOK
BY IInvAlways, IInvTypeOK, PTL

(* Every bucket of a join side holds exactly the slots of its key, each of  *)
(* which knows its place: swap_remove tells the slot it moves, and the      *)
(* scan that would repair a wrong place never has anything to repair.       *)
THEOREM BucketsAlwaysExact == Spec => []BucketsExact
BY IInvAlways, IInvBuckets, PTL

(* match_count of every row is the number of rows of the other side with    *)
(* its key, for any batch of inserts, deletes and folded updates of either  *)
(* side, self-joins included: an outer join pads a row exactly when it has  *)
(* no match, and max(count - 1, 0) never hides a count that went wrong.     *)
THEOREM MatchCountsAlwaysExact == Spec => []MatchCountsExact
BY IInvAlways, IInvCounts, PTL

(* The left side of a join holds the rows of its table that pass the        *)
(* filter, the right side those of its table: the deltas of a batch, after  *)
(* the filter dropped some and deletions were folded with later insertions, *)
(* still insert only ids that are not there and delete only ids that are.   *)
THEOREM SidesAlwaysHoldTheTables == Spec => []SidesHold
<1>1. IInv => SidesHold
  BY DEF IInv
<1> QED BY <1>1, IInvAlways, PTL
=============================================================================
