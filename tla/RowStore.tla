------------------------------ MODULE RowStore ------------------------------
(***************************************************************************)
(* One table's RowStore (crates/storage/src/row_store.rs): the rows, the   *)
(* primary-key index, the secondary indexes and the GIN indexes.  Writes   *)
(* are accepted or refused by looking at the indexes alone, so an index    *)
(* that has drifted from the rows makes later writes go wrong.             *)
(*                                                                         *)
(*   rows   the row map (RowSlots models how it is laid out)               *)
(*   index  primary_index, secondary_indices and gin_indices: for each     *)
(*          name the set of pairs <<key, row id>> it holds                 *)
(*                                                                         *)
(* Table says what the store promises; TableSchema explains the constants. *)
(* A method runs to completion on one thread, so it is one action; its     *)
(* intermediate states appear where a failure inside it has to be undone.  *)
(***************************************************************************)
EXTENDS TableSchema

VARIABLES rows, index, result

vars == <<rows, index, result>>

T == INSTANCE Table

TypeOK ==
  /\ DOMAIN rows \subseteq RowId /\ rows \in [DOMAIN rows -> Content]
  /\ index \in [IndexName -> SUBSET (Key \X RowId)]
  /\ result \in Constrained \cup {"ok", "id_exists", "not_found", "not_empty", "unsorted"}

Init ==
  /\ rows = [x \in {} |-> x]
  /\ index = [ix \in IndexName |-> {}]
  /\ result = "ok"

-----------------------------------------------------------------------------
\* The entries of one row in one index.
Entries(ix, id, c) == {<<k, id>> : k \in Keys[ix][c]}

\* contains_index_key for the key of c.
Holds(ix, c) == \E e \in index[ix] : e[1] \in Keys[ix][c]

SameKey(ix, c, d) == Keys[ix][c] = Keys[ix][d]

Put(R, id, c) == [x \in DOMAIN R \cup {id} |-> IF x = id THEN c ELSE R[x]]
Drop(R, ids) == [x \in DOMAIN R \ ids |-> R[x]]

Refuse(why) == result' = why /\ UNCHANGED <<rows, index>>

\* j is the first secondary index, in name order, for which bad[j] holds.
FirstBad(bad, j) == j \in DOMAIN bad /\ bad[j] /\ \A i \in 1..(j - 1) : ~bad[i]

-----------------------------------------------------------------------------
(* insert: the primary key is checked; the secondary indexes are filled one *)
(* by one, and the first unique one that already has the key stops it.      *)
Refuses(c) == [j \in DOMAIN Sec |-> Sec[j] \in Unique /\ Holds(Sec[j], c)]

\* rollback_insert removes the row from every index, filled or not.
\* Mutant: takes the row out of the primary-key index only.
RolledBackPk(filled, id, c) ==
  [ix \in IndexName |->
     (index[ix] \cup (IF ix \in filled THEN Entries(ix, id, c) ELSE {}))
       \ (IF ix \in Pk THEN Entries(ix, id, c) ELSE {})]

RolledBack(filled, id, c) ==
  [ix \in IndexName |->
     (index[ix] \cup (IF ix \in filled THEN Entries(ix, id, c) ELSE {})) \ Entries(ix, id, c)]

FilledBefore(j) == Pk \cup {Sec[i] : i \in 1..(j - 1)}

InsertInto(id, c) == [ix \in IndexName |-> index[ix] \cup Entries(ix, id, c)]

Insert(id, c) ==
  \/ id \in DOMAIN rows /\ Refuse("id_exists")
  \/ id \notin DOMAIN rows /\ \E p \in Pk : Holds(p, c) /\ Refuse(p)
  \/ /\ id \notin DOMAIN rows /\ \A p \in Pk : ~Holds(p, c)
     /\ \E j \in DOMAIN Sec :
          /\ FirstBad(Refuses(c), j)
          /\ index' = RolledBack(FilledBefore(j), id, c)
          /\ result' = Sec[j]
     /\ UNCHANGED rows
  \/ /\ id \notin DOMAIN rows /\ \A ix \in Constrained : ~Holds(ix, c)
     /\ index' = InsertInto(id, c)
     /\ rows' = Put(rows, id, c)
     /\ result' = "ok"

-----------------------------------------------------------------------------
(* update: every constraint is checked before anything changes, and only   *)
(* when the key changes.  Then, index by index, the old entries go and the *)
(* new ones come; an add that a unique index refuses is ignored.           *)
\* Mutant: checks the constraint when the key stays.
BlocksSame(ix, old, new) == SameKey(ix, old, new) /\ Holds(ix, new)

Blocks(ix, old, new) == ~SameKey(ix, old, new) /\ Holds(ix, new)

Blocking(old, new) == [j \in DOMAIN Sec |-> Sec[j] \in Unique /\ Blocks(Sec[j], old, new)]

Reindex(id, old, new) ==
  [ix \in IndexName |->
     LET left == index[ix] \ Entries(ix, id, old)
         refused == ix \in Constrained /\ \E e \in left : e[1] \in Keys[ix][new]
     IN  IF SameKey(ix, old, new) THEN index[ix]
         ELSE IF refused THEN left ELSE left \cup Entries(ix, id, new)]

Update(id, c) ==
  \/ id \notin DOMAIN rows /\ Refuse("not_found")
  \/ /\ id \in DOMAIN rows
     /\ \E p \in Pk : Blocks(p, rows[id], c) /\ Refuse(p)
  \/ /\ id \in DOMAIN rows /\ \A p \in Pk : ~Blocks(p, rows[id], c)
     /\ \E j \in DOMAIN Sec : FirstBad(Blocking(rows[id], c), j) /\ Refuse(Sec[j])
  \/ /\ id \in DOMAIN rows /\ \A ix \in Constrained : ~Blocks(ix, rows[id], c)
     /\ index' = Reindex(id, rows[id], c)
     /\ rows' = Put(rows, id, c)
     /\ result' = "ok"

-----------------------------------------------------------------------------
(* delete and delete_batch: the rows leave the row map first, then their   *)
(* entries leave each index.  Unknown ids of a batch are skipped.          *)
RemoveRows(ids) ==
  /\ index' = [ix \in IndexName |->
                 index[ix] \ UNION {Entries(ix, id, rows[id]) : id \in ids}]
  /\ rows' = Drop(rows, ids)
  /\ result' = "ok"

Delete(id) ==
  \/ id \notin DOMAIN rows /\ Refuse("not_found")
  \/ id \in DOMAIN rows /\ RemoveRows({id})

DeleteBatch(ids) == RemoveRows(ids \cap DOMAIN rows)

(* insert_or_replace: find_row_id_by_pk asks the primary-key index. *)
InsertOrReplace(id, c) ==
  \/ \E p \in Pk : \E e \in index[p] : e[1] \in Keys[p][c] /\ Update(e[2], c)
  \/ (\A p \in Pk : ~Holds(p, c)) /\ Insert(id, c)

(* clear empties the row map and every index. *)
Clear ==
  /\ rows' = [x \in {} |-> x]
  /\ index' = [ix \in IndexName |-> {}]
  /\ result' = "ok"

-----------------------------------------------------------------------------
(* Batches.  Row n of a batch is compared with the indexes as they were     *)
(* before the batch and with the rows before it in the batch.               *)
Repeats(batch, n, ix) ==
  \E j \in 1..(n - 1) : SameKey(ix, batch[j].c, batch[n].c)

Taken(batch, n, ix) == Holds(ix, batch[n].c) \/ Repeats(batch, n, ix)

IdTaken(batch, n) ==
  batch[n].id \in DOMAIN rows \/ \E j \in 1..(n - 1) : batch[j].id = batch[n].id

Good(batch, n) == ~IdTaken(batch, n) /\ \A ix \in Constrained : ~Taken(batch, n, ix)

\* Mutant: does not skip the indexes that are not unique.
TakenAnySec(batch, n) == [j \in DOMAIN Sec |-> Taken(batch, n, Sec[j])]

TakenSec(batch, n) == [j \in DOMAIN Sec |-> Sec[j] \in Unique /\ Taken(batch, n, Sec[j])]

\* What is returned for row n, the first one that cannot go in.
Rejects(batch, n, why) ==
  \/ IdTaken(batch, n) /\ why = "id_exists"
  \/ ~IdTaken(batch, n) /\ \E p \in Pk : Taken(batch, n, p) /\ why = p
  \/ /\ ~IdTaken(batch, n) /\ \A p \in Pk : ~Taken(batch, n, p)
     /\ \E j \in DOMAIN Sec : FirstBad(TakenSec(batch, n), j) /\ why = Sec[j]

\* The first n rows of the batch go into the row map and into the indexes ixs.
Load(batch, n, ixs) ==
  /\ rows' = [x \in DOMAIN rows \cup {batch[j].id : j \in 1..n} |->
                IF x \in DOMAIN rows THEN rows[x]
                ELSE batch[CHOOSE j \in 1..n : batch[j].id = x].c]
  /\ index' = [ix \in IndexName |->
                 IF ix \in ixs
                   THEN index[ix] \cup UNION {Entries(ix, batch[j].id, batch[j].c) : j \in 1..n}
                   ELSE index[ix]]

\* The code compares neighbours, which comes to the same by transitivity.
InIdOrder(batch) == \A i, j \in 1..Len(batch) : i < j => batch[i].id <= batch[j].id
StrictlyInIdOrder(batch) == \A i, j \in 1..Len(batch) : i < j => batch[i].id < batch[j].id

\* can_use_bulk_insert_fast_path compares the rows of the batch with each other only.
\* Mutant: without the test for an empty store.
FastPathAnywhere(batch) ==
  /\ InIdOrder(batch)
  /\ \A n \in 1..Len(batch) :
       /\ \A j \in 1..(n - 1) : batch[j].id # batch[n].id
       /\ \A ix \in Constrained : ~Repeats(batch, n, ix)

FastPath(batch) ==
  /\ DOMAIN rows = {}
  /\ InIdOrder(batch)
  /\ \A n \in 1..Len(batch) :
       /\ \A j \in 1..(n - 1) : batch[j].id # batch[n].id
       /\ \A ix \in Constrained : ~Repeats(batch, n, ix)

\* prepare_batch_insert_merge: the whole batch is compared before any write.
Mergeable(batch) == InIdOrder(batch) /\ \A n \in 1..Len(batch) : Good(batch, n)

\* The row-by-row path: GIN entries are collected on the way and flushed at
\* every exit, with the rows that went in before the one that was refused.
GinFlushed == Gin

InsertOneByOne(batch) ==
  \/ /\ \A n \in 1..Len(batch) : Good(batch, n)
     /\ Load(batch, Len(batch), Columns \cup Gin)
     /\ result' = "ok"
  \/ \E n \in 1..Len(batch) :
       /\ \A m \in 1..(n - 1) : Good(batch, m)
       /\ ~Good(batch, n)
       /\ Load(batch, n - 1, Columns \cup GinFlushed)
       /\ Rejects(batch, n, result')

InsertBatch(batch) ==
  \/ /\ FastPath(batch) \/ Mergeable(batch)
     /\ Load(batch, Len(batch), IndexName)
     /\ result' = "ok"
  \/ ~FastPath(batch) /\ ~Mergeable(batch) /\ InsertOneByOne(batch)

BulkLoad(batch) ==
  \/ DOMAIN rows # {} /\ Refuse("not_empty")
  \/ DOMAIN rows = {} /\ ~StrictlyInIdOrder(batch) /\ Refuse("unsorted")
  \/ /\ DOMAIN rows = {} /\ StrictlyInIdOrder(batch)
     /\ \A n \in 1..Len(batch), ix \in Constrained : ~Repeats(batch, n, ix)
     /\ Load(batch, Len(batch), IndexName)
     /\ result' = "ok"
  \/ /\ DOMAIN rows = {} /\ StrictlyInIdOrder(batch)
     /\ \E n \in 1..Len(batch) :
          /\ \A m \in 1..(n - 1), ix \in Constrained : ~Repeats(batch, m, ix)
          /\ \/ \E p \in Pk : Repeats(batch, n, p) /\ Refuse(p)
             \/ /\ \A p \in Pk : ~Repeats(batch, n, p)
                /\ \E j \in DOMAIN Sec :
                     /\ FirstBad([i \in DOMAIN Sec |-> Sec[i] \in Unique /\ Repeats(batch, n, Sec[i])], j)
                     /\ Refuse(Sec[j])

-----------------------------------------------------------------------------
Next ==
  \/ \E id \in RowId, c \in Content : Insert(id, c) \/ Update(id, c) \/ InsertOrReplace(id, c)
  \/ \E id \in RowId : Delete(id)
  \/ \E ids \in SUBSET RowId : DeleteBatch(ids)
  \/ \E batch \in Batches : InsertBatch(batch) \/ BulkLoad(batch)
  \/ Clear

Spec == Init /\ [][Next]_vars

-----------------------------------------------------------------------------
(* Every index lists exactly the stored rows, each under its own keys: no   *)
(* entry is left behind by a refused insert, an update or a removal, and no *)
(* row is missing from an index, on whichever path it came in.              *)
IndexesExact ==
  \A ix \in IndexName :
    /\ \A e \in index[ix] : e[2] \in DOMAIN rows /\ e[1] \in Keys[ix][rows[e[2]]]
    /\ \A id \in DOMAIN rows : Entries(ix, id, rows[id]) \subseteq index[ix]

(* No two stored rows have the same primary key, or the same key in a       *)
(* unique index, although the code decides this from the indexes only.      *)
KeysStayUnique ==
  \A ix \in Constrained : \A x, y \in DOMAIN rows : SameKey(ix, rows[x], rows[y]) => x = y

(* The store behaves as the plain table: the same writes are accepted, with *)
(* the same effect, and a refused one reports the same reason; the three    *)
(* paths of a batch insert are indistinguishable from row-by-row inserts.   *)
ImplementsTable == T!Spec
=============================================================================
