--------------------------- MODULE RowStoreProofs ---------------------------
(***************************************************************************)
(* Proofs about RowStore, for any set of row ids, contents and indexes.    *)
(* The inductive invariant joins the three invariants of the module: the   *)
(* uniqueness checks of the code read the indexes, so they keep keys unique *)
(* only because the indexes are exact, and the indexes stay exact only     *)
(* because an accepted key really is free.                                 *)
(***************************************************************************)
EXTENDS RowStore, TLAPS

RowsOK == DOMAIN rows \subseteq RowId /\ rows \in [DOMAIN rows -> Content]
IndexOK == index \in [IndexName -> SUBSET (Key \X RowId)]

IInv == RowsOK /\ IndexOK /\ IndexesExact /\ KeysStayUnique

-----------------------------------------------------------------------------
(* Lemmas about the schema and the helpers. *)

LEMMA NameFacts ==
  /\ \A j \in DOMAIN Sec : Sec[j] \in Columns
  /\ Constrained \subseteq Columns /\ Columns \subseteq IndexName
BY IndexAssumption DEF Columns, IndexName, Constrained

LEMMA ColumnKey ==
  ASSUME NEW ix \in Columns, NEW c \in Content
  PROVE  \E k : Keys[ix][c] = {k}
BY IndexAssumption

(* The key of a row is a key of the schema. *)
LEMMA KeyFacts ==
  ASSUME NEW ix \in IndexName, NEW c \in Content
  PROVE  Keys[ix][c] \subseteq Key
BY DEF Key

(* What IndexesExact says of one entry. *)
LEMMA Membership ==
  ASSUME IInv, NEW ix \in IndexName, NEW k, NEW id
  PROVE  <<k, id>> \in index[ix] <=> id \in DOMAIN rows /\ k \in Keys[ix][rows[id]]
<1>1. ASSUME <<k, id>> \in index[ix] PROVE id \in DOMAIN rows /\ k \in Keys[ix][rows[id]]
  BY <1>1 DEF IInv, IndexesExact
<1>2. ASSUME id \in DOMAIN rows, k \in Keys[ix][rows[id]] PROVE <<k, id>> \in index[ix]
  <2>1. <<k, id>> \in Entries(ix, id, rows[id])
    BY <1>2 DEF Entries
  <2> QED BY <2>1, <1>2 DEF IInv, IndexesExact
<1> QED BY <1>1, <1>2

(* contains_index_key, on exact indexes, asks whether a stored row has the key. *)
LEMMA HoldsColumn ==
  ASSUME IInv, NEW ix \in Columns, NEW c \in Content
  PROVE  Holds(ix, c) <=> \E o \in DOMAIN rows : SameKey(ix, rows[o], c)
<1>1. PICK k : Keys[ix][c] = {k}
  BY ColumnKey
<1>2. ix \in IndexName
  BY NameFacts
<1>3. ASSUME Holds(ix, c) PROVE \E o \in DOMAIN rows : SameKey(ix, rows[o], c)
  <2>1. PICK e \in index[ix] : e[1] = k
    BY <1>1, <1>3 DEF Holds
  <2>2. e[2] \in DOMAIN rows /\ k \in Keys[ix][rows[e[2]]] /\ rows[e[2]] \in Content
    BY <2>1, <1>2 DEF IInv, IndexesExact, RowsOK
  <2>3. Keys[ix][rows[e[2]]] = {k}
    BY <2>2, ColumnKey
  <2> QED BY <2>2, <2>3, <1>1 DEF SameKey
<1>4. ASSUME NEW o \in DOMAIN rows, SameKey(ix, rows[o], c) PROVE Holds(ix, c)
  <2>1. <<k, o>> \in index[ix]
    BY <1>1, <1>2, <1>4, Membership DEF SameKey
  <2> QED BY <2>1, <1>1 DEF Holds
<1> QED BY <1>3, <1>4

(* A set of entries is exact when it holds the right pairs and nothing else. *)
LEMMA ExactNext ==
  ASSUME NEW ix \in IndexName,
         DOMAIN rows' \subseteq RowId, rows' \in [DOMAIN rows' -> Content],
         NEW I, index'[ix] = I,
         \A e \in I : \E k, id : e = <<k, id>>,
         \A k, id : <<k, id>> \in I <=> id \in DOMAIN rows' /\ k \in Keys[ix][rows'[id]]
  PROVE  /\ index'[ix] \subseteq Key \X RowId
         /\ \A e \in index'[ix] : e[2] \in DOMAIN rows' /\ e[1] \in Keys[ix][rows'[e[2]]]
         /\ \A id \in DOMAIN rows' : Entries(ix, id, rows'[id]) \subseteq index'[ix]
<1>1. ASSUME NEW e \in I
      PROVE  e \in Key \X RowId /\ e[2] \in DOMAIN rows' /\ e[1] \in Keys[ix][rows'[e[2]]]
  <2>1. PICK k, id : e = <<k, id>>
    BY <1>1
  <2>2. id \in DOMAIN rows' /\ k \in Keys[ix][rows'[id]]
    BY <1>1, <2>1
  <2>3. k \in Key
    BY <2>2, KeyFacts
  <2> QED BY <2>1, <2>2, <2>3
<1>2. ASSUME NEW id \in DOMAIN rows', NEW e \in Entries(ix, id, rows'[id]) PROVE e \in I
  BY <1>2 DEF Entries
<1> QED BY <1>1, <1>2

LEMMA PairsOnly ==
  ASSUME IInv, NEW ix \in IndexName, NEW e \in index[ix]
  PROVE  \E k, id : e = <<k, id>>
BY DEF IInv, IndexOK

-----------------------------------------------------------------------------
LEMMA InitInv == Init => IInv
BY DEF Init, IInv, RowsOK, IndexOK, IndexesExact, KeysStayUnique

LEMMA RefuseInv ==
  ASSUME IInv, NEW why, Refuse(why)
  PROVE  IInv'
BY DEF Refuse, IInv, RowsOK, IndexOK, IndexesExact, KeysStayUnique, Entries, SameKey

(* rollback_insert leaves every index as it was before the failed insert,   *)
(* whichever of them had been filled: entries carry the id of the new row,  *)
(* and no entry of an exact index had that id.                              *)
LEMMA RollbackRestores ==
  ASSUME IInv, NEW id, id \notin DOMAIN rows, NEW c, NEW filled
  PROVE  RolledBack(filled, id, c) = index
<1>1. ASSUME NEW ix \in IndexName PROVE RolledBack(filled, id, c)[ix] = index[ix]
  <2>1. index[ix] \cap Entries(ix, id, c) = {}
    BY Membership DEF Entries
  <2> QED BY <2>1 DEF RolledBack
<1>2. index = [ix \in IndexName |-> index[ix]]
  BY DEF IInv, IndexOK
<1> QED BY <1>1, <1>2 DEF RolledBack

LEMMA InsertAccepted ==
  ASSUME IInv, NEW id \in RowId, NEW c \in Content, id \notin DOMAIN rows,
         \A ix \in Constrained : ~Holds(ix, c),
         index' = InsertInto(id, c), rows' = Put(rows, id, c)
  PROVE  IInv'
<1>1. RowsOK'
  BY DEF Put, IInv, RowsOK
<1>2. ASSUME NEW ix \in IndexName
      PROVE  /\ index'[ix] \subseteq Key \X RowId
             /\ \A e \in index'[ix] : e[2] \in DOMAIN rows' /\ e[1] \in Keys[ix][rows'[e[2]]]
             /\ \A x \in DOMAIN rows' : Entries(ix, x, rows'[x]) \subseteq index'[ix]
  <2> DEFINE I == index[ix] \cup Entries(ix, id, c)
  <2>1. index'[ix] = I
    BY DEF InsertInto
  <2>2. \A e \in I : \E k, x : e = <<k, x>>
    BY PairsOnly DEF Entries
  <2>3. \A k, x : <<k, x>> \in I <=> x \in DOMAIN rows' /\ k \in Keys[ix][rows'[x]]
    <3> SUFFICES ASSUME NEW k, NEW x
                 PROVE  <<k, x>> \in I <=> x \in DOMAIN rows' /\ k \in Keys[ix][rows'[x]]
      OBVIOUS
    <3>1. <<k, x>> \in Entries(ix, id, c) <=> x = id /\ k \in Keys[ix][c]
      BY DEF Entries
    <3>2. <<k, x>> \in index[ix] <=> x \in DOMAIN rows /\ k \in Keys[ix][rows[x]]
      BY Membership
    <3> QED BY <3>1, <3>2 DEF Put
  <2> HIDE DEF I
  <2> QED BY <1>1, <2>1, <2>2, <2>3, ExactNext DEF RowsOK
<1>3. KeysStayUnique'
  <2> SUFFICES ASSUME NEW ix \in Constrained, NEW x \in DOMAIN rows', NEW y \in DOMAIN rows',
                      SameKey(ix, rows'[x], rows'[y])
               PROVE  x = y
    BY DEF KeysStayUnique, SameKey
  <2>1. \A o \in DOMAIN rows : ~SameKey(ix, rows[o], c)
    BY HoldsColumn, NameFacts
  <2> QED BY <2>1 DEF Put, SameKey, IInv, KeysStayUnique
<1>4. IndexOK'
  BY <1>2 DEF InsertInto, IndexOK
<1> QED BY <1>1, <1>2, <1>3, <1>4 DEF IInv, IndexesExact

LEMMA InsertInv ==
  ASSUME IInv, NEW id \in RowId, NEW c \in Content, Insert(id, c)
  PROVE  IInv'
<1>1. ASSUME NEW why, Refuse(why) PROVE IInv'
  BY <1>1, RefuseInv
<1>2. ASSUME NEW j, id \notin DOMAIN rows, index' = RolledBack(FilledBefore(j), id, c), UNCHANGED rows
      PROVE  IInv'
  <2>1. index' = index
    BY <1>2, RollbackRestores
  <2> QED BY <2>1, <1>2 DEF IInv, RowsOK, IndexOK, IndexesExact, KeysStayUnique, Entries, SameKey
<1> QED BY <1>1, <1>2, InsertAccepted DEF Insert

-----------------------------------------------------------------------------
(* An update that passed the checks: no other row has a constrained key of  *)
(* the new content, so no add is refused and every index stays exact.       *)
LEMMA NoOtherRow ==
  ASSUME IInv, NEW id \in DOMAIN rows, NEW c \in Content, NEW ix \in Constrained,
         ~Blocks(ix, rows[id], c)
  PROVE  \A o \in DOMAIN rows \ {id} : ~SameKey(ix, rows[o], c)
<1> SUFFICES ASSUME NEW o \in DOMAIN rows \ {id}, SameKey(ix, rows[o], c) PROVE FALSE
  OBVIOUS
<1>1. Holds(ix, c)
  BY HoldsColumn, NameFacts
<1>2. SameKey(ix, rows[id], c)
  BY <1>1 DEF Blocks
<1> QED BY <1>2 DEF SameKey, IInv, KeysStayUnique

LEMMA UpdateAccepted ==
  ASSUME IInv, NEW id \in DOMAIN rows, NEW c \in Content,
         \A ix \in Constrained : ~Blocks(ix, rows[id], c),
         index' = Reindex(id, rows[id], c), rows' = Put(rows, id, c)
  PROVE  IInv'
<1>1. RowsOK'
  BY DEF Put, IInv, RowsOK
<1>2. ASSUME NEW ix \in IndexName
      PROVE  /\ index'[ix] \subseteq Key \X RowId
             /\ \A e \in index'[ix] : e[2] \in DOMAIN rows' /\ e[1] \in Keys[ix][rows'[e[2]]]
             /\ \A x \in DOMAIN rows' : Entries(ix, x, rows'[x]) \subseteq index'[ix]
  <2> DEFINE left == index[ix] \ Entries(ix, id, rows[id])
             I == IF SameKey(ix, rows[id], c) THEN index[ix] ELSE left \cup Entries(ix, id, c)
  <2>1. ix \in Constrained /\ ~SameKey(ix, rows[id], c) =>
          ~\E e \in left : e[1] \in Keys[ix][c]
    BY DEF Blocks, Holds
  <2>2. index'[ix] = I
    BY <2>1 DEF Reindex
  <2>3. \A e \in I : \E k, x : e = <<k, x>>
    BY PairsOnly DEF Entries
  <2>4. \A k, x : <<k, x>> \in I <=> x \in DOMAIN rows' /\ k \in Keys[ix][rows'[x]]
    <3> SUFFICES ASSUME NEW k, NEW x
                 PROVE  <<k, x>> \in I <=> x \in DOMAIN rows' /\ k \in Keys[ix][rows'[x]]
      OBVIOUS
    <3>1. <<k, x>> \in Entries(ix, id, c) <=> x = id /\ k \in Keys[ix][c]
      BY DEF Entries
    <3>2. <<k, x>> \in Entries(ix, id, rows[id]) <=> x = id /\ k \in Keys[ix][rows[id]]
      BY DEF Entries
    <3>3. <<k, x>> \in index[ix] <=> x \in DOMAIN rows /\ k \in Keys[ix][rows[x]]
      BY Membership
    <3>4. DOMAIN rows' = DOMAIN rows /\ rows'[id] = c /\ (x \in DOMAIN rows /\ x # id => rows'[x] = rows[x])
      BY DEF Put
    <3> QED BY <3>1, <3>2, <3>3, <3>4 DEF SameKey
  <2> HIDE DEF I
  <2> QED BY <1>1, <2>2, <2>3, <2>4, ExactNext DEF RowsOK
<1>3. KeysStayUnique'
  <2> SUFFICES ASSUME NEW ix \in Constrained, NEW x \in DOMAIN rows', NEW y \in DOMAIN rows',
                      SameKey(ix, rows'[x], rows'[y])
               PROVE  x = y
    BY DEF KeysStayUnique, SameKey
  <2>1. \A o \in DOMAIN rows \ {id} : ~SameKey(ix, rows[o], c)
    BY NoOtherRow
  <2> QED BY <2>1 DEF Put, SameKey, IInv, KeysStayUnique
<1>4. IndexOK'
  BY <1>2 DEF Reindex, IndexOK
<1> QED BY <1>1, <1>2, <1>3, <1>4 DEF IInv, IndexesExact

LEMMA UpdateInv ==
  ASSUME IInv, NEW id, NEW c \in Content, Update(id, c)
  PROVE  IInv'
<1>1. ASSUME NEW why, Refuse(why) PROVE IInv'
  BY <1>1, RefuseInv
<1> QED BY <1>1, UpdateAccepted DEF Update

-----------------------------------------------------------------------------
LEMMA RemoveRowsInv ==
  ASSUME IInv, NEW ids \in SUBSET DOMAIN rows, RemoveRows(ids)
  PROVE  IInv'
<1>1. rows' = Drop(rows, ids) /\ RowsOK'
  BY DEF RemoveRows, Drop, IInv, RowsOK
<1>2. ASSUME NEW ix \in IndexName
      PROVE  /\ index'[ix] \subseteq Key \X RowId
             /\ \A e \in index'[ix] : e[2] \in DOMAIN rows' /\ e[1] \in Keys[ix][rows'[e[2]]]
             /\ \A x \in DOMAIN rows' : Entries(ix, x, rows'[x]) \subseteq index'[ix]
  <2> DEFINE I == index[ix] \ UNION {Entries(ix, x, rows[x]) : x \in ids}
  <2>1. index'[ix] = I
    BY DEF RemoveRows
  <2>2. \A e \in I : \E k, x : e = <<k, x>>
    BY PairsOnly
  <2>3. \A k, x : <<k, x>> \in I <=> x \in DOMAIN rows' /\ k \in Keys[ix][rows'[x]]
    <3> SUFFICES ASSUME NEW k, NEW x
                 PROVE  <<k, x>> \in I <=> x \in DOMAIN rows' /\ k \in Keys[ix][rows'[x]]
      OBVIOUS
    <3>1. <<k, x>> \in index[ix] <=> x \in DOMAIN rows /\ k \in Keys[ix][rows[x]]
      BY Membership
    <3>2. <<k, x>> \in UNION {Entries(ix, y, rows[y]) : y \in ids} <=> x \in ids /\ k \in Keys[ix][rows[x]]
      BY DEF Entries
    <3> QED BY <1>1, <3>1, <3>2 DEF Drop
  <2> HIDE DEF I
  <2> QED BY <1>1, <2>1, <2>2, <2>3, ExactNext DEF RowsOK
<1>3. KeysStayUnique'
  BY <1>1 DEF Drop, SameKey, IInv, KeysStayUnique
<1>4. IndexOK'
  BY <1>2 DEF RemoveRows, IndexOK
<1> QED BY <1>1, <1>2, <1>3, <1>4 DEF IInv, IndexesExact

-----------------------------------------------------------------------------
(* Any prefix of a batch whose rows are all good can go in. *)
LEMMA LoadInv ==
  ASSUME IInv, NEW batch, NEW n \in Nat,
         \A m \in 1..n : batch[m] \in BatchRow /\ Good(batch, m),
         Load(batch, n, IndexName)
  PROVE  IInv'
<1> DEFINE id(j) == batch[j].id
           c(j) == batch[j].c
           ids == {id(j) : j \in 1..n}
<1>1. \A j \in 1..n : id(j) \in RowId /\ c(j) \in Content /\ id(j) \notin DOMAIN rows
  BY DEF BatchRow, Good, IdTaken
<1>2. \A i, j \in 1..n : id(i) = id(j) => i = j
  <2>1. ASSUME NEW i \in 1..n, NEW j \in 1..n, id(i) = id(j), i < j PROVE FALSE
    <3>1. i \in 1..(j - 1)
      BY <2>1
    <3>2. ~IdTaken(batch, j)
      BY DEF Good
    <3> QED BY <2>1, <3>1, <3>2 DEF IdTaken
  <2> QED BY <2>1
<1>3. rows' = [x \in DOMAIN rows \cup ids |->
                 IF x \in DOMAIN rows THEN rows[x] ELSE c(CHOOSE j \in 1..n : id(j) = x)]
  BY DEF Load
<1>4. \A j \in 1..n : id(j) \in DOMAIN rows' /\ rows'[id(j)] = c(j)
  <2> SUFFICES ASSUME NEW j \in 1..n PROVE id(j) \in DOMAIN rows' /\ rows'[id(j)] = c(j)
    OBVIOUS
  <2>1. (CHOOSE i \in 1..n : id(i) = id(j)) = j
    BY <1>2
  <2>2. id(j) \in ids /\ id(j) \notin DOMAIN rows
    BY <1>1
  <2> QED BY <2>1, <2>2, <1>3
<1>5. /\ DOMAIN rows' = DOMAIN rows \cup ids
      /\ \A x \in DOMAIN rows : rows'[x] = rows[x]
  BY <1>3
<1>6. RowsOK'
  <2>1. \A x \in DOMAIN rows' : x \in RowId /\ rows'[x] \in Content
    BY <1>1, <1>4, <1>5 DEF IInv, RowsOK
  <2>2. rows' = [x \in DOMAIN rows' |-> rows'[x]]
    BY <1>3
  <2> QED BY <2>1, <2>2 DEF RowsOK
<1>7. ASSUME NEW ix \in IndexName
      PROVE  /\ index'[ix] \subseteq Key \X RowId
             /\ \A e \in index'[ix] : e[2] \in DOMAIN rows' /\ e[1] \in Keys[ix][rows'[e[2]]]
             /\ \A x \in DOMAIN rows' : Entries(ix, x, rows'[x]) \subseteq index'[ix]
  <2> DEFINE new == UNION {Entries(ix, batch[j].id, batch[j].c) : j \in 1..n}
             I == index[ix] \cup new
  <2>1. index'[ix] = I
    BY DEF Load
  <2>2. \A e \in I : \E k, x : e = <<k, x>>
    BY PairsOnly DEF Entries
  <2>3. \A k, x : <<k, x>> \in I <=> x \in DOMAIN rows' /\ k \in Keys[ix][rows'[x]]
    <3> SUFFICES ASSUME NEW k, NEW x
                 PROVE  <<k, x>> \in I <=> x \in DOMAIN rows' /\ k \in Keys[ix][rows'[x]]
      OBVIOUS
    <3>1. <<k, x>> \in index[ix] <=> x \in DOMAIN rows /\ k \in Keys[ix][rows[x]]
      BY Membership
    <3>2. <<k, x>> \in new <=> \E j \in 1..n : x = id(j) /\ k \in Keys[ix][c(j)]
      BY DEF Entries
    <3>3. (\E j \in 1..n : x = id(j) /\ k \in Keys[ix][c(j)])
            <=> x \in ids /\ k \in Keys[ix][rows'[x]]
      BY <1>4
    <3>4. x \in ids => x \notin DOMAIN rows
      BY <1>1
    <3> HIDE DEF new, ids, id, c
    <3> QED BY <3>1, <3>2, <3>3, <3>4, <1>5
  <2> HIDE DEF I
  <2> QED BY <1>6, <2>1, <2>2, <2>3, ExactNext DEF RowsOK
<1>8. KeysStayUnique'
  <2> SUFFICES ASSUME NEW ix \in Constrained, NEW x \in DOMAIN rows', NEW y \in DOMAIN rows',
                      SameKey(ix, rows'[x], rows'[y])
               PROVE  x = y
    BY DEF KeysStayUnique, SameKey
  <2>1. \A j \in 1..n, o \in DOMAIN rows : ~SameKey(ix, rows[o], c(j))
    <3> SUFFICES ASSUME NEW j \in 1..n PROVE ~Holds(ix, c(j))
      BY <1>1, HoldsColumn, NameFacts
    <3> QED BY DEF Good, Taken
  <2>2. \A i, j \in 1..n : i < j => ~SameKey(ix, c(i), c(j))
    <3> SUFFICES ASSUME NEW i \in 1..n, NEW j \in 1..n, i < j PROVE ~SameKey(ix, c(i), c(j))
      OBVIOUS
    <3>1. i \in 1..(j - 1) /\ ~Repeats(batch, j, ix)
      BY DEF Good, Taken
    <3> QED BY <3>1 DEF Repeats
  <2>3. \A i, j \in 1..n : SameKey(ix, c(i), c(j)) => i = j
    BY <2>2 DEF SameKey
  <2>4. CASE x \in DOMAIN rows /\ y \in DOMAIN rows
    BY <2>4, <1>5 DEF IInv, KeysStayUnique
  <2>5. CASE x \in DOMAIN rows /\ y \in ids
    BY <2>5, <2>1, <1>4, <1>5
  <2>6. CASE x \in ids /\ y \in DOMAIN rows
    BY <2>6, <2>1, <1>4, <1>5 DEF SameKey
  <2>7. CASE x \in ids /\ y \in ids
    BY <2>7, <2>3, <1>4
  <2> QED BY <2>4, <2>5, <2>6, <2>7, <1>5
<1>9. IndexOK'
  BY <1>7 DEF Load, IndexOK
<1> QED BY <1>6, <1>7, <1>8, <1>9 DEF IInv, IndexesExact

LEMMA EmptyHoldsNothing ==
  ASSUME IInv, DOMAIN rows = {}, NEW ix \in Constrained, NEW c
  PROVE  ~Holds(ix, c)
BY NameFacts DEF Holds, IInv, IndexesExact

LEMMA BatchFacts ==
  ASSUME NEW batch \in Batches
  PROVE  /\ Len(batch) \in Nat /\ DOMAIN batch = 1..Len(batch)
         /\ \A m \in 1..Len(batch) : batch[m] \in BatchRow
<1>1. PICK n \in 1..MaxBatch : batch \in [1..n -> BatchRow]
  BY DEF Batches
<1>2. n \in Nat /\ Len(batch) = n
  BY <1>1, MaxBatchAssumption
<1> QED BY <1>1, <1>2

(* The comparisons that look at the batch only suffice when the store is empty. *)
LEMMA EmptyStoreGood ==
  ASSUME IInv, NEW batch, NEW n \in Nat, DOMAIN rows = {},
         \A i \in 1..n : \A j \in 1..(i - 1) : batch[j].id # batch[i].id,
         \A i \in 1..n, ix \in Constrained : ~Repeats(batch, i, ix)
  PROVE  \A i \in 1..n : Good(batch, i)
BY EmptyHoldsNothing DEF Good, IdTaken, Taken

LEMMA FastPathGood ==
  ASSUME IInv, NEW batch \in Batches, FastPath(batch)
  PROVE  \A n \in 1..Len(batch) : Good(batch, n)
BY EmptyStoreGood, BatchFacts DEF FastPath

LEMMA AscendingDistinct ==
  ASSUME NEW batch \in Batches, StrictlyInIdOrder(batch)
  PROVE  \A i \in 1..Len(batch) : \A j \in 1..(i - 1) : batch[j].id # batch[i].id
<1> SUFFICES ASSUME NEW i \in 1..Len(batch), NEW j \in 1..(i - 1) PROVE batch[j].id # batch[i].id
  OBVIOUS
<1>1. j \in 1..Len(batch) /\ j < i
  BY BatchFacts
<1>2. batch[j] \in BatchRow /\ batch[i] \in BatchRow
  BY <1>1, BatchFacts
<1>3. batch[j].id \in Nat /\ batch[i].id \in Nat
  BY <1>2, RowIdAssumption DEF BatchRow
<1>4. batch[j].id < batch[i].id
  BY <1>1 DEF StrictlyInIdOrder
<1> QED BY <1>3, <1>4

LEMMA BulkLoadGood ==
  ASSUME IInv, NEW batch \in Batches, DOMAIN rows = {}, StrictlyInIdOrder(batch),
         NEW m \in 0..Len(batch),
         \A n \in 1..m, ix \in Constrained : ~Repeats(batch, n, ix)
  PROVE  \A n \in 1..m : Good(batch, n)
<1>1. m \in Nat /\ \A n \in 1..m : n \in 1..Len(batch)
  BY BatchFacts
<1>2. \A i \in 1..m : \A j \in 1..(i - 1) : batch[j].id # batch[i].id
  BY <1>1, AscendingDistinct
<1> QED BY <1>1, <1>2, EmptyStoreGood

LEMMA InsertBatchInv ==
  ASSUME IInv, NEW batch \in Batches, InsertBatch(batch)
  PROVE  IInv'
<1>1. Columns \cup Gin = IndexName /\ Columns \cup GinFlushed = IndexName
  BY DEF IndexName, GinFlushed
<1>2. CASE FastPath(batch) /\ Load(batch, Len(batch), IndexName)
  BY <1>2, FastPathGood, LoadInv, BatchFacts
<1>3. CASE Mergeable(batch) /\ Load(batch, Len(batch), IndexName)
  BY <1>3, LoadInv, BatchFacts DEF Mergeable
<1>4. CASE /\ \A n \in 1..Len(batch) : Good(batch, n)
           /\ Load(batch, Len(batch), IndexName)
  BY <1>4, LoadInv, BatchFacts
<1>5. ASSUME NEW n \in 1..Len(batch), \A m \in 1..(n - 1) : Good(batch, m),
             Load(batch, n - 1, IndexName)
      PROVE  IInv'
  <2>1. n - 1 \in Nat /\ \A m \in 1..(n - 1) : batch[m] \in BatchRow
    BY BatchFacts
  <2> QED BY <2>1, <1>5, LoadInv
<1>6. FastPath(batch) \/ Mergeable(batch) \/ InsertOneByOne(batch)
  BY DEF InsertBatch
<1>7. CASE InsertOneByOne(batch)
  BY <1>1, <1>4, <1>5, <1>7 DEF InsertOneByOne
<1>8. CASE (FastPath(batch) \/ Mergeable(batch)) /\ Load(batch, Len(batch), IndexName)
  BY <1>2, <1>3, <1>8
<1> QED BY <1>7, <1>8 DEF InsertBatch

LEMMA BulkLoadInv ==
  ASSUME IInv, NEW batch \in Batches, BulkLoad(batch)
  PROVE  IInv'
<1>1. ASSUME NEW why, Refuse(why) PROVE IInv'
  BY <1>1, RefuseInv
<1>2. CASE /\ DOMAIN rows = {} /\ StrictlyInIdOrder(batch)
           /\ \A n \in 1..Len(batch), ix \in Constrained : ~Repeats(batch, n, ix)
           /\ Load(batch, Len(batch), IndexName)
  <2>1. \A n \in 1..Len(batch) : Good(batch, n)
    BY <1>2, BulkLoadGood, BatchFacts
  <2> QED BY <2>1, <1>2, LoadInv, BatchFacts
<1> QED BY <1>1, <1>2 DEF BulkLoad

LEMMA NextInv == IInv /\ [Next]_vars => IInv'
<1> SUFFICES ASSUME IInv, [Next]_vars PROVE IInv'
  OBVIOUS
<1>1. ASSUME NEW id \in RowId, NEW c \in Content, Insert(id, c) PROVE IInv'
  BY <1>1, InsertInv
<1>2. ASSUME NEW id, NEW c \in Content, Update(id, c) PROVE IInv'
  BY <1>2, UpdateInv
<1>3. ASSUME NEW id \in RowId, NEW c \in Content, InsertOrReplace(id, c) PROVE IInv'
  BY <1>1, <1>2, <1>3 DEF InsertOrReplace
<1>4. ASSUME NEW id \in RowId, Delete(id) PROVE IInv'
  BY <1>4, RemoveRowsInv, RefuseInv DEF Delete
<1>5. ASSUME NEW ids \in SUBSET RowId, DeleteBatch(ids) PROVE IInv'
  BY <1>5, RemoveRowsInv DEF DeleteBatch
<1>6. ASSUME NEW batch \in Batches, InsertBatch(batch) \/ BulkLoad(batch) PROVE IInv'
  BY <1>6, InsertBatchInv, BulkLoadInv
<1>7. CASE Clear
  BY <1>7 DEF Clear, IInv, RowsOK, IndexOK, IndexesExact, KeysStayUnique
<1>8. CASE UNCHANGED vars
  BY <1>8 DEF vars, IInv, RowsOK, IndexOK, IndexesExact, KeysStayUnique, Entries, SameKey
<1> QED BY <1>1, <1>2, <1>3, <1>4, <1>5, <1>6, <1>7, <1>8 DEF Next

-----------------------------------------------------------------------------
(* In every reachable state each index lists exactly the stored rows under  *)
(* their keys, whatever inserts failed, updates moved keys or batches came  *)
(* in on any of the three paths of insert_batch.                            *)
THEOREM IndexesAlwaysExact == Spec => []IndexesExact
<1>1. IInv => IndexesExact
  BY DEF IInv
<1> QED BY InitInv, NextInv, <1>1, PTL DEF Spec

(* No reachable state has two rows with the same primary key or the same    *)
(* key in a unique index.                                                   *)
THEOREM KeysAlwaysUnique == Spec => []KeysStayUnique
<1>1. IInv => KeysStayUnique
  BY DEF IInv
<1> QED BY InitInv, NextInv, <1>1, PTL DEF Spec

-----------------------------------------------------------------------------
(* RowStore implements Table.  What the indexes answer is translated into   *)
(* what the rows say; then each write does and reports what Table says.     *)

LEMMA HoldsIsClash ==
  ASSUME IInv, NEW id, id \notin DOMAIN rows, NEW c \in Content, NEW ix \in Columns
  PROVE  T!Clash(rows, ix, id, c) <=> Holds(ix, c)
BY HoldsColumn DEF T!Clash, SameKey

LEMMA BlocksIsClash ==
  ASSUME IInv, NEW id \in DOMAIN rows, NEW c \in Content, NEW ix \in Constrained
  PROVE  T!Clash(rows, ix, id, c) <=> Blocks(ix, rows[id], c)
<1>1. Holds(ix, c) <=> \E o \in DOMAIN rows : SameKey(ix, rows[o], c)
  BY HoldsColumn, NameFacts
<1>2. ASSUME NEW o \in DOMAIN rows \ {id}, SameKey(ix, rows[o], c) PROVE ~SameKey(ix, rows[id], c)
  BY <1>2 DEF SameKey, IInv, KeysStayUnique
<1> QED BY <1>1, <1>2 DEF T!Clash, Blocks, SameKey

LEMMA PkReported ==
  ASSUME NEW R, NEW id, NEW c, NEW p \in Pk, T!Clash(R, p, id, c)
  PROVE  T!Violated(R, id, c) = p /\ ~T!Fits(R, id, c)
BY IndexAssumption DEF T!Violated, T!Fits, T!Constrained

LEMMA FirstBadReported ==
  ASSUME NEW R, NEW id, NEW c, NEW bad, DOMAIN bad = DOMAIN Sec,
         \A i \in DOMAIN Sec : bad[i] <=> Sec[i] \in Unique /\ T!Clash(R, Sec[i], id, c),
         NEW j, FirstBad(bad, j), \A p \in Pk : ~T!Clash(R, p, id, c)
  PROVE  T!Violated(R, id, c) = Sec[j] /\ ~T!Fits(R, id, c)
<1> DEFINE Least(i) == /\ Sec[i] \in Unique /\ T!Clash(R, Sec[i], id, c)
                       /\ \A h \in 1..(i - 1) : ~(Sec[h] \in Unique /\ T!Clash(R, Sec[h], id, c))
<1>1. DOMAIN Sec = 1..Len(Sec) /\ Len(Sec) \in Nat
  BY IndexAssumption
<1>2. j \in DOMAIN Sec /\ Least(j)
  BY <1>1 DEF FirstBad
<1>3. \A i \in DOMAIN Sec : Least(i) => i = j
  BY <1>1, <1>2
<1>4. (CHOOSE i \in DOMAIN Sec : Least(i)) = j
  BY <1>2, <1>3
<1>5. T!Violated(R, id, c) = Sec[CHOOSE i \in DOMAIN Sec : Least(i)]
  BY DEF T!Violated
<1> QED BY <1>2, <1>4, <1>5 DEF T!Fits, T!Constrained

LEMMA InsertStep ==
  ASSUME IInv, NEW id \in RowId, NEW c \in Content, Insert(id, c)
  PROVE  T!Insert(id, c)
<1>1. CASE id \in DOMAIN rows /\ Refuse("id_exists")
  BY <1>1 DEF Refuse, T!Insert, T!Verdict
<1> SUFFICES ASSUME id \notin DOMAIN rows PROVE T!Insert(id, c)
  BY <1>1 DEF Insert
<1>2. \A ix \in Columns : T!Clash(rows, ix, id, c) <=> Holds(ix, c)
  BY HoldsIsClash
<1>3. Pk \subseteq Columns /\ Unique \subseteq Columns /\ \A j \in DOMAIN Sec : Sec[j] \in Columns
  BY NameFacts DEF Constrained
<1>4. ASSUME NEW p \in Pk, Holds(p, c), Refuse(p) PROVE T!Insert(id, c)
  <2>1. T!Violated(rows, id, c) = p /\ ~T!Fits(rows, id, c)
    BY <1>2, <1>3, <1>4, PkReported
  <2> QED BY <2>1, <1>4 DEF Refuse, T!Insert, T!Verdict
<1>5. ASSUME \A p \in Pk : ~Holds(p, c), NEW j \in DOMAIN Sec, FirstBad(Refuses(c), j),
             result' = Sec[j], UNCHANGED rows
      PROVE  T!Insert(id, c)
  <2> DEFINE bad == Refuses(c)
  <2>1. /\ DOMAIN bad = DOMAIN Sec
        /\ \A i \in DOMAIN Sec : bad[i] <=> Sec[i] \in Unique /\ T!Clash(rows, Sec[i], id, c)
    BY <1>2, <1>3 DEF Refuses
  <2>2. FirstBad(bad, j) /\ \A p \in Pk : ~T!Clash(rows, p, id, c)
    BY <1>2, <1>3, <1>5
  <2> HIDE DEF bad
  <2>3. T!Violated(rows, id, c) = Sec[j] /\ ~T!Fits(rows, id, c)
    BY <2>1, <2>2, FirstBadReported
  <2> QED BY <2>3, <1>5 DEF T!Insert, T!Verdict
<1>6. ASSUME \A ix \in Constrained : ~Holds(ix, c), rows' = Put(rows, id, c), result' = "ok"
      PROVE  T!Insert(id, c)
  <2>1. T!Fits(rows, id, c)
    BY <1>2, <1>6, NameFacts DEF T!Fits, T!Constrained, Constrained
  <2> QED BY <2>1, <1>6 DEF T!Insert, T!Verdict, T!With, Put
<1> QED BY <1>4, <1>5, <1>6 DEF Insert

LEMMA UpdateStep ==
  ASSUME IInv, NEW id, NEW c \in Content, Update(id, c)
  PROVE  T!Update(id, c)
<1>1. CASE id \notin DOMAIN rows
  BY <1>1 DEF Update, Refuse, T!Update
<1> SUFFICES ASSUME id \in DOMAIN rows PROVE T!Update(id, c)
  BY <1>1
<1>2. \A ix \in Constrained : T!Clash(rows, ix, id, c) <=> Blocks(ix, rows[id], c)
  BY BlocksIsClash
<1>3. ASSUME NEW p \in Pk, Blocks(p, rows[id], c), Refuse(p) PROVE T!Update(id, c)
  <2>1. T!Violated(rows, id, c) = p /\ ~T!Fits(rows, id, c)
    BY <1>2, <1>3, PkReported DEF Constrained
  <2> QED BY <2>1, <1>3 DEF Refuse, T!Update
<1>4. ASSUME \A p \in Pk : ~Blocks(p, rows[id], c), NEW j \in DOMAIN Sec,
             FirstBad(Blocking(rows[id], c), j), Refuse(Sec[j])
      PROVE  T!Update(id, c)
  <2> DEFINE bad == Blocking(rows[id], c)
  <2>1. /\ DOMAIN bad = DOMAIN Sec
        /\ \A i \in DOMAIN Sec : bad[i] <=> Sec[i] \in Unique /\ T!Clash(rows, Sec[i], id, c)
    BY <1>2 DEF Blocking, Constrained
  <2>2. FirstBad(bad, j) /\ \A p \in Pk : ~T!Clash(rows, p, id, c)
    BY <1>2, <1>4 DEF Constrained
  <2> HIDE DEF bad
  <2>3. T!Violated(rows, id, c) = Sec[j] /\ ~T!Fits(rows, id, c)
    BY <2>1, <2>2, FirstBadReported
  <2> QED BY <2>3, <1>4 DEF Refuse, T!Update
<1>5. ASSUME \A ix \in Constrained : ~Blocks(ix, rows[id], c), rows' = Put(rows, id, c), result' = "ok"
      PROVE  T!Update(id, c)
  <2>1. T!Fits(rows, id, c)
    BY <1>2, <1>5 DEF T!Fits, T!Constrained, Constrained
  <2> QED BY <2>1, <1>5 DEF T!Update, T!With, Put
<1> QED BY <1>3, <1>4, <1>5 DEF Update

LEMMA ReplaceStep ==
  ASSUME IInv, NEW id \in RowId, NEW c \in Content, InsertOrReplace(id, c)
  PROVE  T!InsertOrReplace(id, c)
<1>1. ASSUME NEW p \in Pk, NEW e \in index[p], e[1] \in Keys[p][c], Update(e[2], c)
      PROVE  T!InsertOrReplace(id, c)
  <2>1. p \in Columns /\ p \in IndexName
    BY NameFacts DEF Constrained
  <2>2. e[2] \in DOMAIN rows /\ e[1] \in Keys[p][rows[e[2]]] /\ rows[e[2]] \in Content
    BY <2>1 DEF IInv, IndexesExact, RowsOK
  <2>3. Keys[p][rows[e[2]]] = Keys[p][c]
    BY <2>1, <2>2, <1>1, ColumnKey
  <2>4. T!Update(e[2], c)
    BY <1>1, UpdateStep
  <2> QED BY <2>2, <2>3, <2>4 DEF T!InsertOrReplace
<1>2. ASSUME \A p \in Pk : ~Holds(p, c), Insert(id, c)
      PROVE  T!InsertOrReplace(id, c)
  <2>1. \A p \in Pk, o \in DOMAIN rows : ~SameKey(p, rows[o], c)
    BY <1>2, HoldsColumn, NameFacts DEF Constrained
  <2>2. T!Insert(id, c)
    BY <1>2, InsertStep
  <2> QED BY <2>1, <2>2 DEF T!InsertOrReplace, T!Clash, SameKey
<1> QED BY <1>1, <1>2 DEF InsertOrReplace

(* After n - 1 good rows of a batch, row n clashes with the rows then       *)
(* stored exactly when the indexes of before, or an earlier row, have its key. *)
LEMMA AfterFacts ==
  ASSUME IInv, NEW batch \in Batches, NEW n \in 1..Len(batch),
         \A m \in 1..(n - 1) : Good(batch, m)
  PROVE  /\ batch[n].id \in DOMAIN T!After(rows, batch, n - 1) <=> IdTaken(batch, n)
         /\ \A ix \in Constrained :
              ~IdTaken(batch, n) =>
                (T!Clash(T!After(rows, batch, n - 1), ix, batch[n].id, batch[n].c) <=> Taken(batch, n, ix))
<1> DEFINE R == T!After(rows, batch, n - 1)
           id(j) == batch[j].id
           c(j) == batch[j].c
<1>1. \A m \in 1..n : m \in 1..Len(batch) /\ id(m) \in RowId /\ c(m) \in Content
  BY BatchFacts DEF BatchRow
<1>2. \A j \in 1..(n - 1) : id(j) \notin DOMAIN rows
  BY DEF Good, IdTaken
<1>3. \A i, j \in 1..(n - 1) : id(i) = id(j) => i = j
  <2>1. ASSUME NEW i \in 1..(n - 1), NEW j \in 1..(n - 1), id(i) = id(j), i < j PROVE FALSE
    <3>1. i \in 1..(j - 1)
      BY <2>1
    <3>2. ~IdTaken(batch, j)
      BY DEF Good
    <3> QED BY <2>1, <3>1, <3>2 DEF IdTaken
  <2> QED BY <2>1
<1>4. DOMAIN R = DOMAIN rows \cup {id(j) : j \in 1..(n - 1)}
  BY DEF T!After
<1>5. \A x \in DOMAIN rows : R[x] = rows[x]
  BY DEF T!After
<1>6. \A j \in 1..(n - 1) : id(j) \in DOMAIN R /\ R[id(j)] = c(j)
  <2> SUFFICES ASSUME NEW j \in 1..(n - 1) PROVE id(j) \in DOMAIN R /\ R[id(j)] = c(j)
    OBVIOUS
  <2>1. (CHOOSE i \in 1..(n - 1) : id(i) = id(j)) = j
    BY <1>3
  <2>2. id(j) \in DOMAIN R /\ id(j) \notin DOMAIN rows
    BY <1>2, <1>4
  <2> QED BY <2>1, <2>2 DEF T!After
<1>7. id(n) \in DOMAIN R <=> IdTaken(batch, n)
  BY <1>4 DEF IdTaken
<1>8. ASSUME NEW ix \in Constrained, ~IdTaken(batch, n)
      PROVE  T!Clash(R, ix, id(n), c(n)) <=> Taken(batch, n, ix)
  <2>1. Holds(ix, c(n)) <=> \E o \in DOMAIN rows : SameKey(ix, rows[o], c(n))
    BY <1>1, HoldsColumn, NameFacts
  <2>2. T!Clash(R, ix, id(n), c(n)) <=> \E o \in DOMAIN R : SameKey(ix, R[o], c(n))
    BY <1>7, <1>8 DEF T!Clash, SameKey
  <2>3. (\E o \in DOMAIN R : SameKey(ix, R[o], c(n)))
          <=> \/ \E o \in DOMAIN rows : SameKey(ix, rows[o], c(n))
              \/ \E j \in 1..(n - 1) : SameKey(ix, c(j), c(n))
    <3> HIDE DEF R, id, c
    <3> QED BY <1>4, <1>5, <1>6
  <2> QED BY <2>1, <2>2, <2>3 DEF Taken, Repeats
<1> QED BY <1>7, <1>8

LEMMA GoodIsTaken ==
  ASSUME IInv, NEW batch \in Batches, NEW n \in 0..Len(batch), \A m \in 1..n : Good(batch, m)
  PROVE  T!Taken(rows, batch, n)
<1> SUFFICES ASSUME NEW j \in 1..n
             PROVE  /\ batch[j].id \notin DOMAIN T!After(rows, batch, j - 1)
                    /\ T!Fits(T!After(rows, batch, j - 1), batch[j].id, batch[j].c)
  BY DEF T!Taken
<1>1. j \in 1..Len(batch) /\ (\A m \in 1..(j - 1) : Good(batch, m)) /\ Good(batch, j)
  BY BatchFacts
<1>2. ~IdTaken(batch, j) /\ \A ix \in Constrained : ~Taken(batch, j, ix)
  BY <1>1 DEF Good
<1> QED BY <1>1, <1>2, AfterFacts DEF T!Fits, T!Constrained, Constrained

(* The first row that is not good is the one a row-by-row insert would      *)
(* refuse, for the reason that is reported.                                 *)
LEMMA RejectedRow ==
  ASSUME IInv, NEW batch \in Batches, NEW n \in 1..Len(batch),
         \A m \in 1..(n - 1) : Good(batch, m), NEW why, Rejects(batch, n, why)
  PROVE  /\ ~T!Taken(rows, batch, n)
         /\ why = T!Verdict(T!After(rows, batch, n - 1), batch[n].id, batch[n].c)
<1> DEFINE R == T!After(rows, batch, n - 1)
           id == batch[n].id
           c == batch[n].c
<1>1. id \in DOMAIN R <=> IdTaken(batch, n)
  BY AfterFacts
<1>2. ~IdTaken(batch, n) => \A ix \in Constrained : T!Clash(R, ix, id, c) <=> Taken(batch, n, ix)
  BY AfterFacts
<1>3. n \in 1..n
  BY BatchFacts
<1>4. T!Taken(rows, batch, n) => id \notin DOMAIN R /\ T!Fits(R, id, c)
  BY <1>3 DEF T!Taken
<1> HIDE DEF R, id, c
<1>5. CASE IdTaken(batch, n) /\ why = "id_exists"
  BY <1>1, <1>4, <1>5 DEF T!Verdict, R, id, c
<1>6. ASSUME ~IdTaken(batch, n), NEW p \in Pk, Taken(batch, n, p), why = p
      PROVE  ~T!Fits(R, id, c) /\ why = T!Verdict(R, id, c)
  <2>1. T!Violated(R, id, c) = p /\ ~T!Fits(R, id, c)
    BY <1>2, <1>6, PkReported DEF Constrained
  <2> QED BY <2>1, <1>1, <1>6 DEF T!Verdict
<1>7. ASSUME ~IdTaken(batch, n), \A p \in Pk : ~Taken(batch, n, p),
             NEW j \in DOMAIN Sec, FirstBad(TakenSec(batch, n), j), why = Sec[j]
      PROVE  ~T!Fits(R, id, c) /\ why = T!Verdict(R, id, c)
  <2> DEFINE bad == TakenSec(batch, n)
  <2>1. /\ DOMAIN bad = DOMAIN Sec
        /\ \A i \in DOMAIN Sec : bad[i] <=> Sec[i] \in Unique /\ T!Clash(R, Sec[i], id, c)
    BY <1>2, <1>7 DEF TakenSec, Constrained
  <2>2. FirstBad(bad, j) /\ \A p \in Pk : ~T!Clash(R, p, id, c)
    BY <1>2, <1>7 DEF Constrained
  <2> HIDE DEF bad
  <2>3. T!Violated(R, id, c) = Sec[j] /\ ~T!Fits(R, id, c)
    BY <2>1, <2>2, FirstBadReported
  <2> QED BY <2>3, <1>1, <1>7 DEF T!Verdict
<1>8. CASE ~IdTaken(batch, n)
  BY <1>4, <1>6, <1>7, <1>8 DEF Rejects, R, id, c
<1> QED BY <1>5, <1>8 DEF Rejects

LEMMA LoadIsAfter ==
  ASSUME NEW batch, NEW n, NEW ixs, Load(batch, n, ixs)
  PROVE  rows' = T!After(rows, batch, n)
BY DEF Load, T!After

LEMMA InsertBatchStep ==
  ASSUME IInv, NEW batch \in Batches, InsertBatch(batch)
  PROVE  T!InsertBatch(batch)
<1>1. Len(batch) \in 0..Len(batch) /\ \A n \in 1..Len(batch) : n - 1 \in 0..Len(batch) /\ (n - 1) + 1 = n /\ n - 1 # Len(batch)
  BY BatchFacts
<1>2. ASSUME \A n \in 1..Len(batch) : Good(batch, n), NEW ixs, Load(batch, Len(batch), ixs), result' = "ok"
      PROVE  T!InsertBatch(batch)
  BY <1>1, <1>2, GoodIsTaken, LoadIsAfter DEF T!InsertBatch
<1>3. ASSUME NEW n \in 1..Len(batch), \A m \in 1..(n - 1) : Good(batch, m),
             NEW ixs, Load(batch, n - 1, ixs), Rejects(batch, n, result')
      PROVE  T!InsertBatch(batch)
  <2>1. T!Taken(rows, batch, n - 1) /\ rows' = T!After(rows, batch, n - 1)
    BY <1>1, <1>3, GoodIsTaken, LoadIsAfter
  <2>2. ~T!Taken(rows, batch, n) /\ result' = T!Verdict(T!After(rows, batch, n - 1), batch[n].id, batch[n].c)
    BY <1>3, RejectedRow
  <2> QED BY <2>1, <2>2, <1>1 DEF T!InsertBatch
<1>4. CASE InsertOneByOne(batch)
  BY <1>2, <1>3, <1>4 DEF InsertOneByOne
<1>5. CASE (FastPath(batch) \/ Mergeable(batch)) /\ Load(batch, Len(batch), IndexName) /\ result' = "ok"
  BY <1>2, <1>5, FastPathGood DEF Mergeable
<1> QED BY <1>4, <1>5 DEF InsertBatch

LEMMA BulkLoadStep ==
  ASSUME IInv, NEW batch \in Batches, BulkLoad(batch)
  PROVE  T!BulkLoad(batch)
<1>0. StrictlyInIdOrder(batch) <=> T!Ascending(batch)
  BY DEF StrictlyInIdOrder, T!Ascending
<1>1. CASE DOMAIN rows # {} /\ Refuse("not_empty")
  BY <1>1 DEF Refuse, T!BulkLoad
<1>2. CASE DOMAIN rows = {} /\ ~StrictlyInIdOrder(batch) /\ Refuse("unsorted")
  BY <1>0, <1>2 DEF Refuse, T!BulkLoad
<1>3. CASE /\ DOMAIN rows = {} /\ StrictlyInIdOrder(batch)
           /\ \A n \in 1..Len(batch), ix \in Constrained : ~Repeats(batch, n, ix)
           /\ Load(batch, Len(batch), IndexName)
           /\ result' = "ok"
  <2>1. Len(batch) \in 0..Len(batch)
    BY BatchFacts
  <2>2. \A n \in 1..Len(batch) : Good(batch, n)
    BY <1>3, <2>1, BulkLoadGood
  <2>3. T!Taken(rows, batch, Len(batch)) /\ rows' = T!After(rows, batch, Len(batch))
    BY <2>1, <2>2, <1>3, GoodIsTaken, LoadIsAfter
  <2> QED BY <2>3, <1>0, <1>3 DEF T!BulkLoad
<1>4. ASSUME DOMAIN rows = {}, StrictlyInIdOrder(batch), NEW n \in 1..Len(batch),
             \A m \in 1..(n - 1), ix \in Constrained : ~Repeats(batch, m, ix),
             NEW why, Refuse(why),
             \/ \E p \in Pk : Repeats(batch, n, p) /\ why = p
             \/ /\ \A p \in Pk : ~Repeats(batch, n, p)
                /\ \E j \in DOMAIN Sec :
                     /\ FirstBad([i \in DOMAIN Sec |-> Sec[i] \in Unique /\ Repeats(batch, n, Sec[i])], j)
                     /\ why = Sec[j]
      PROVE  T!BulkLoad(batch)
  <2>1. n - 1 \in 0..Len(batch) /\ n - 1 \in 0..(Len(batch) - 1) /\ (n - 1) + 1 = n
    BY BatchFacts
  <2>2. \A m \in 1..(n - 1) : Good(batch, m)
    BY <1>4, <2>1, BulkLoadGood
  <2>3. ~IdTaken(batch, n)
    BY <1>4, AscendingDistinct DEF IdTaken
  <2>4. \A ix \in Constrained : Taken(batch, n, ix) <=> Repeats(batch, n, ix)
    BY <1>4, EmptyHoldsNothing DEF Taken
  <2>5. TakenSec(batch, n) = [i \in DOMAIN Sec |-> Sec[i] \in Unique /\ Repeats(batch, n, Sec[i])]
    BY <2>4 DEF TakenSec, Constrained
  <2>6. Rejects(batch, n, why)
    BY <2>3, <2>4, <2>5, <1>4 DEF Rejects, Constrained
  <2>7. /\ ~T!Taken(rows, batch, n) /\ T!Taken(rows, batch, n - 1)
        /\ why = T!Verdict(T!After(rows, batch, n - 1), batch[n].id, batch[n].c)
    BY <2>1, <2>2, <2>6, GoodIsTaken, RejectedRow
  <2> QED BY <2>1, <2>7, <1>0, <1>4 DEF Refuse, T!BulkLoad
<1>5. CASE ~(DOMAIN rows = {} /\ StrictlyInIdOrder(batch))
  BY <1>1, <1>2, <1>5 DEF BulkLoad
<1>6. CASE DOMAIN rows = {} /\ StrictlyInIdOrder(batch)
  <2>1. CASE /\ \A n \in 1..Len(batch), ix \in Constrained : ~Repeats(batch, n, ix)
             /\ Load(batch, Len(batch), IndexName) /\ result' = "ok"
    BY <1>3, <1>6, <2>1
  <2>2. ASSUME NEW n \in 1..Len(batch),
               \A m \in 1..(n - 1), ix \in Constrained : ~Repeats(batch, m, ix),
               \/ \E p \in Pk : Repeats(batch, n, p) /\ Refuse(p)
               \/ /\ \A p \in Pk : ~Repeats(batch, n, p)
                  /\ \E j \in DOMAIN Sec :
                       /\ FirstBad([i \in DOMAIN Sec |-> Sec[i] \in Unique /\ Repeats(batch, n, Sec[i])], j)
                       /\ Refuse(Sec[j])
        PROVE  T!BulkLoad(batch)
    <3>1. ASSUME NEW p \in Pk, Repeats(batch, n, p), Refuse(p) PROVE T!BulkLoad(batch)
      BY <3>1, <2>2, <1>4, <1>6
    <3> DEFINE bad == [i \in DOMAIN Sec |-> Sec[i] \in Unique /\ Repeats(batch, n, Sec[i])]
    <3>2. ASSUME \A p \in Pk : ~Repeats(batch, n, p), NEW j \in DOMAIN Sec, FirstBad(bad, j), Refuse(Sec[j])
          PROVE  T!BulkLoad(batch)
      BY <3>2, <2>2, <1>4, <1>6
    <3> QED BY <2>2, <3>1, <3>2
  <2> QED BY <1>6, <2>1, <2>2 DEF BulkLoad
<1> QED BY <1>5, <1>6

LEMMA NextStep == IInv /\ [Next]_vars => [T!Next]_(T!vars)
<1> SUFFICES ASSUME IInv, Next PROVE T!Next
  BY DEF vars, T!vars
<1>1. ASSUME NEW id \in RowId, NEW c \in Content, Insert(id, c) \/ Update(id, c) \/ InsertOrReplace(id, c)
      PROVE  T!Next
  BY <1>1, InsertStep, UpdateStep, ReplaceStep DEF T!Next
<1>2. ASSUME NEW id \in RowId, Delete(id) PROVE T!Next
  <2>1. T!Delete(id)
    BY <1>2 DEF Delete, Refuse, RemoveRows, Drop, T!Delete, T!Without, IInv, RowsOK
  <2> QED BY <2>1 DEF T!Next
<1>3. ASSUME NEW ids \in SUBSET RowId, DeleteBatch(ids) PROVE T!Next
  <2>1. T!DeleteBatch(ids)
    BY <1>3 DEF DeleteBatch, RemoveRows, Drop, T!DeleteBatch, T!Without
  <2> QED BY <2>1 DEF T!Next
<1>4. ASSUME NEW batch \in Batches, InsertBatch(batch) \/ BulkLoad(batch) PROVE T!Next
  <2>1. batch \in T!Batches
    BY DEF T!Batches, T!BatchRow, Batches, BatchRow
  <2> QED BY <2>1, <1>4, InsertBatchStep, BulkLoadStep DEF T!Next
<1>5. CASE Clear
  BY <1>5 DEF Clear, T!Clear, T!Next
<1> QED BY <1>1, <1>2, <1>3, <1>4, <1>5 DEF Next

(* The store implements the plain table: every operation accepts, refuses   *)
(* and reports exactly what a table without indexes would, and the three    *)
(* paths of insert_batch all come to inserting the rows one at a time.      *)
THEOREM StoreImplementsTable == Spec => ImplementsTable
<1>1. Init => T!Init
  BY DEF Init, T!Init
<1> QED BY InitInv, NextInv, NextStep, <1>1, PTL DEF Spec, ImplementsTable, T!Spec

-----------------------------------------------------------------------------
(* What an operation returns. *)

Outcome == Constrained \cup {"ok", "id_exists", "not_found", "not_empty", "unsorted"}


(* Every operation returns one of the outcomes, and names a constrained     *)
(* index when a constraint is what it reports.                              *)
LEMMA OutcomeNext ==
  ASSUME result \in Outcome, [Next]_vars
  PROVE  result' \in Outcome
<1>1. \A p \in Pk : p \in Constrained
  BY DEF Constrained
<1>2. ASSUME NEW id, NEW c, Insert(id, c) PROVE result' \in Outcome
  <2>1. \A j : FirstBad(Refuses(c), j) => Sec[j] \in Constrained
    BY DEF FirstBad, Refuses, Constrained
  <2> QED BY <1>1, <1>2, <2>1 DEF Insert, Refuse, Outcome
<1>3. ASSUME NEW id, NEW c, Update(id, c) PROVE result' \in Outcome
  <2>1. \A j : FirstBad(Blocking(rows[id], c), j) => Sec[j] \in Constrained
    BY DEF FirstBad, Blocking, Constrained
  <2> QED BY <1>1, <1>3, <2>1 DEF Update, Refuse, Outcome
<1>4. ASSUME NEW id, NEW c, InsertOrReplace(id, c) PROVE result' \in Outcome
  BY <1>2, <1>3, <1>4 DEF InsertOrReplace
<1>5. ASSUME NEW ids, RemoveRows(ids) PROVE result' \in Outcome
  BY <1>5 DEF RemoveRows, Outcome
<1>6. ASSUME NEW id, Delete(id) PROVE result' \in Outcome
  BY <1>5, <1>6 DEF Delete, Refuse, Outcome
<1>7. ASSUME NEW batch, InsertBatch(batch) PROVE result' \in Outcome
  <2>1. \A n, j : FirstBad(TakenSec(batch, n), j) => Sec[j] \in Constrained
    BY DEF FirstBad, TakenSec, Constrained
  <2>2. ASSUME NEW n, Rejects(batch, n, result') PROVE result' \in Outcome
    BY <1>1, <2>1, <2>2 DEF Rejects, Outcome
  <2> QED BY <1>7, <2>2 DEF InsertBatch, InsertOneByOne, Outcome
<1>8. ASSUME NEW batch, BulkLoad(batch) PROVE result' \in Outcome
  <2>1. \A n, j : FirstBad([i \in DOMAIN Sec |-> Sec[i] \in Unique /\ Repeats(batch, n, Sec[i])], j)
                    => Sec[j] \in Constrained
    BY DEF FirstBad, Constrained
  <2> QED BY <1>1, <1>8, <2>1 DEF BulkLoad, Refuse, Outcome
<1>9. CASE Clear
  BY <1>9 DEF Clear, Outcome
<1>10. CASE UNCHANGED vars
  BY <1>10 DEF vars
<1> QED BY <1>2, <1>3, <1>4, <1>5, <1>6, <1>7, <1>8, <1>9, <1>10 DEF Next, DeleteBatch

(* Type correctness: the indexes hold only keys of the schema and ids of    *)
(* rows, and a refused write reports a primary or unique index, never one   *)
(* that constrains nothing.                                                 *)
THEOREM TypeCorrect == Spec => []TypeOK
<1> DEFINE Inv == IInv /\ result \in Outcome
<1>1. Init => Inv
  BY InitInv DEF Init, Outcome
<1>2. Inv /\ [Next]_vars => Inv'
  BY NextInv, OutcomeNext
<1>3. Inv => TypeOK
  BY DEF IInv, RowsOK, IndexOK, TypeOK, Outcome
<1> HIDE DEF Inv
<1> QED BY <1>1, <1>2, <1>3, PTL DEF Spec
=============================================================================
