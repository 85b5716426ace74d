------------------------------- MODULE Table -------------------------------
(***************************************************************************)
(* What a table promises its callers, without any index: rows addressed by *)
(* an id, at most one of them for each value of the primary key and of     *)
(* every unique index.  Whether a write is refused is decided by looking   *)
(* at all rows, and a batch behaves as its rows inserted one at a time,    *)
(* stopping at the first that is refused ("the visible semantics remain    *)
(* aligned with sequential inserts", row_store.rs insert_batch).           *)
(* RowStore implements this specification.                                 *)
(***************************************************************************)
EXTENDS TableSchema

VARIABLES rows,     \* the stored rows: a function from ids to contents
          result    \* what the last operation returned

vars == <<rows, result>>

Init == rows = [x \in {} |-> x] /\ result = "ok"

-----------------------------------------------------------------------------
\* Another row of R than id has the key of content c in index ix.
Clash(R, ix, id, c) == \E other \in DOMAIN R \ {id} : Keys[ix][R[other]] = Keys[ix][c]

\* The violated constraint that is reported: the primary key, or the first index.
Violated(R, id, c) ==
  IF \E p \in Pk : Clash(R, p, id, c)
    THEN CHOOSE p \in Pk : TRUE
    ELSE Sec[CHOOSE j \in DOMAIN Sec :
               /\ Sec[j] \in Unique /\ Clash(R, Sec[j], id, c)
               /\ \A i \in 1..(j - 1) : ~(Sec[i] \in Unique /\ Clash(R, Sec[i], id, c))]

Fits(R, id, c) == \A ix \in Constrained : ~Clash(R, ix, id, c)

Verdict(R, id, c) ==
  IF id \in DOMAIN R THEN "id_exists" ELSE IF Fits(R, id, c) THEN "ok" ELSE Violated(R, id, c)

With(R, id, c) == [x \in DOMAIN R \cup {id} |-> IF x = id THEN c ELSE R[x]]

-----------------------------------------------------------------------------
Insert(id, c) ==
  /\ result' = Verdict(rows, id, c)
  /\ rows' = IF id \notin DOMAIN rows /\ Fits(rows, id, c) THEN With(rows, id, c) ELSE rows

Update(id, c) ==
  \/ id \notin DOMAIN rows /\ result' = "not_found" /\ UNCHANGED rows
  \/ /\ id \in DOMAIN rows /\ ~Fits(rows, id, c)
     /\ result' = Violated(rows, id, c)
     /\ UNCHANGED rows
  \/ /\ id \in DOMAIN rows /\ Fits(rows, id, c)
     /\ result' = "ok"
     /\ rows' = With(rows, id, c)

Without(R, ids) == [x \in DOMAIN R \ ids |-> R[x]]

Delete(id) ==
  /\ result' = IF id \in DOMAIN rows THEN "ok" ELSE "not_found"
  /\ rows' = Without(rows, {id})

DeleteBatch(ids) == result' = "ok" /\ rows' = Without(rows, ids)

InsertOrReplace(id, c) ==
  \/ \E o \in DOMAIN rows : (\E p \in Pk : Keys[p][rows[o]] = Keys[p][c]) /\ Update(o, c)
  \/ (\A p \in Pk : ~Clash(rows, p, id, c) /\ (id \in DOMAIN rows => Keys[p][rows[id]] # Keys[p][c]))
     /\ Insert(id, c)

\* The rows after the first n rows of a batch; an id appears once among them.
After(R, batch, n) ==
  [x \in DOMAIN R \cup {batch[j].id : j \in 1..n} |->
     IF x \in DOMAIN R THEN R[x] ELSE batch[CHOOSE j \in 1..n : batch[j].id = x].c]

Taken(R, batch, n) ==
  \A j \in 1..n : /\ batch[j].id \notin DOMAIN After(R, batch, j - 1)
                  /\ Fits(After(R, batch, j - 1), batch[j].id, batch[j].c)

InsertBatch(batch) ==
  \E n \in 0..Len(batch) :
    /\ Taken(rows, batch, n)
    /\ rows' = After(rows, batch, n)
    /\ IF n = Len(batch)
         THEN result' = "ok"
         ELSE /\ ~Taken(rows, batch, n + 1)
              /\ result' = Verdict(After(rows, batch, n), batch[n + 1].id, batch[n + 1].c)

\* All rows or none, and only into an empty table, in the order of their ids.
Ascending(batch) == \A i, j \in 1..Len(batch) : i < j => batch[i].id < batch[j].id

BulkLoad(batch) ==
  \/ DOMAIN rows # {} /\ result' = "not_empty" /\ UNCHANGED rows
  \/ DOMAIN rows = {} /\ ~Ascending(batch) /\ result' = "unsorted" /\ UNCHANGED rows
  \/ /\ DOMAIN rows = {} /\ Ascending(batch)
     /\ Taken(rows, batch, Len(batch))
     /\ result' = "ok" /\ rows' = After(rows, batch, Len(batch))
  \/ /\ DOMAIN rows = {} /\ Ascending(batch)
     /\ \E n \in 0..(Len(batch) - 1) :
          /\ Taken(rows, batch, n) /\ ~Taken(rows, batch, n + 1)
          /\ result' = Verdict(After(rows, batch, n), batch[n + 1].id, batch[n + 1].c)
     /\ UNCHANGED rows

Clear == result' = "ok" /\ rows' = [x \in {} |-> x]

Next ==
  \/ \E id \in RowId, c \in Content : Insert(id, c) \/ Update(id, c) \/ InsertOrReplace(id, c)
  \/ \E id \in RowId : Delete(id)
  \/ \E ids \in SUBSET RowId : DeleteBatch(ids)
  \/ \E batch \in Batches : InsertBatch(batch) \/ BulkLoad(batch)
  \/ Clear

Spec == Init /\ [][Next]_vars
=============================================================================
