------------------------------ MODULE TxStore ------------------------------
(***************************************************************************)
(* Transactions over one table (crates/storage/src/transaction.rs and      *)
(* journal.rs).  A transaction writes straight into the store and records  *)
(* what it did; several transactions and direct writers share the store    *)
(* with nothing between them.  Rollback replays the journal backwards with *)
(* ordinary store writes and ignores their errors.                         *)
(*                                                                         *)
(*   rows, version   the table: contents and row versions by id            *)
(*   status          Transaction.state ("idle" before begin)               *)
(*   entries         Journal.entries                                       *)
(*   diff            Journal.table_diffs, for this table                   *)
(*   result          what the last call returned                           *)
(*                                                                         *)
(* The store is the abstract Table, which RowStore implements.  Two more   *)
(* variables record history for the properties only: begun[t] is the table *)
(* at begin, foreign[t] the ids that others have written since then; both  *)
(* are forgotten when the transaction ends.                                *)
(***************************************************************************)
EXTENDS TableSchema

CONSTANTS Tx,          \* transactions; each begins once
          MaxVersion,  \* the largest row version (u64::MAX in the code)
          MaxEntries,  \* bound: the longest journal
          Contested    \* bound: the ids written directly while a transaction is active

ASSUME VersionAssumption == MaxVersion \in Nat /\ MaxVersion >= 1
ASSUME MaxEntriesAssumption == MaxEntries \in Nat
ASSUME ContestedAssumption == Contested \subseteq RowId

VARIABLES rows, version, status, entries, diff, result, begun, foreign

vars == <<rows, version, status, entries, diff, result, begun, foreign>>

T == INSTANCE Table

Version == 0..MaxVersion
Row == [c : Content, v : Version]
Entry == [kind : {"insert", "update", "delete"}, id : RowId, c : Content, v : Version]

\* A function from some row ids to S.
PartlyTo(f, S) == DOMAIN f \subseteq RowId /\ f \in [DOMAIN f -> S]

TypeOK ==
  /\ PartlyTo(rows, Content)
  /\ version \in [DOMAIN rows -> Version]
  /\ status \in [Tx -> {"idle", "active", "committed", "rolledback"}]
  /\ entries \in [Tx -> Seq(Entry)]
  /\ DOMAIN diff = Tx /\ DOMAIN begun = Tx /\ foreign \in [Tx -> SUBSET RowId]
  /\ \A t \in Tx : /\ DOMAIN diff[t] = {"added", "modified", "deleted"}
                   /\ PartlyTo(diff[t].added, Row) /\ PartlyTo(diff[t].deleted, Row)
                   /\ PartlyTo(diff[t].modified, [old : Row, new : Row])
                   /\ PartlyTo(begun[t], Row)
  /\ result \in Constrained \cup {"ok", "id_exists", "not_found", "overflow"}

Nothing == [x \in {} |-> x]
NoDiff == [added |-> Nothing, modified |-> Nothing, deleted |-> Nothing]

Init ==
  /\ rows = Nothing /\ version = Nothing /\ result = "ok"
  /\ status = [t \in Tx |-> "idle"]
  /\ entries = [t \in Tx |-> <<>>]
  /\ diff = [t \in Tx |-> NoDiff]
  /\ begun = [t \in Tx |-> Nothing]
  /\ foreign = [t \in Tx |-> {}]

-----------------------------------------------------------------------------
Stored == [x \in DOMAIN rows |-> [c |-> rows[x], v |-> version[x]]]

Put(f, id, e) == [x \in DOMAIN f \cup {id} |-> IF x = id THEN e ELSE f[x]]
Drop(f, id) == [x \in DOMAIN f \ {id} |-> f[x]]

(* TableDiff: the net change per row.  An id is in at most one of the maps. *)
Add(d, id, r) ==
  IF id \in DOMAIN d.deleted
    THEN [d EXCEPT !.deleted = Drop(@, id),
                   !.modified = Put(@, id, [old |-> d.deleted[id], new |-> r])]
    ELSE [d EXCEPT !.added = Put(@, id, r)]

\* Mutant: the old row is that of the last update, not of the first.
ModifyLast(d, id, old, new) ==
  IF id \in DOMAIN d.added THEN [d EXCEPT !.added = Put(@, id, new)]
  ELSE [d EXCEPT !.modified = Put(@, id, [old |-> old, new |-> new])]

Modify(d, id, old, new) ==
  IF id \in DOMAIN d.added THEN [d EXCEPT !.added = Put(@, id, new)]
  ELSE IF id \in DOMAIN d.modified
    THEN [d EXCEPT !.modified = Put(@, id, [old |-> d.modified[id].old, new |-> new])]
  ELSE [d EXCEPT !.modified = Put(@, id, [old |-> old, new |-> new])]

Remove(d, id, r) ==
  IF id \in DOMAIN d.added THEN [d EXCEPT !.added = Drop(@, id)]
  ELSE IF id \in DOMAIN d.modified
    THEN [d EXCEPT !.modified = Drop(@, id), !.deleted = Put(@, id, d.modified[id].old)]
  ELSE [d EXCEPT !.deleted = Put(@, id, r)]

-----------------------------------------------------------------------------
(* The writes of the store.  A new row has version 1; an update increments *)
(* the version it read, wrapping around.                                   *)
InsertRow(id, c) ==
  /\ T!Insert(id, c)
  /\ version' = IF result' = "ok" THEN Put(version, id, 1) ELSE version

NextVersion(v) == (v + 1) % (MaxVersion + 1)

UpdateRow(id, c) ==
  /\ T!Update(id, c)
  /\ version' = IF result' = "ok" THEN Put(version, id, NextVersion(version[id])) ELSE version

DeleteRow(id) ==
  /\ T!Delete(id)
  /\ version' = Drop(version, id)

\* The ids whose row a step changes, as seen by the transactions of others.
Touched == {id \in DOMAIN rows \cup DOMAIN rows' :
              ~(id \in DOMAIN rows \cap DOMAIN rows' /\ rows'[id] = rows[id] /\ version'[id] = version[id])}

ForeignTo(others) ==
  foreign' = [t \in Tx |-> IF status'[t] # "active" THEN {}
                           ELSE IF t \in others THEN foreign[t] \cup Touched ELSE foreign[t]]

Active == {t \in Tx : status[t] = "active"}

-----------------------------------------------------------------------------
Begin(t) ==
  /\ status[t] = "idle"
  /\ status' = [status EXCEPT ![t] = "active"]
  /\ begun' = [begun EXCEPT ![t] = Stored]
  /\ UNCHANGED <<rows, version, entries, diff, result, foreign>>

\* A refused write leaves the journal alone.
Record(t, kind, id, c, v, d) ==
  IF result' = "ok"
    THEN /\ entries' = [entries EXCEPT ![t] = Append(@, [kind |-> kind, id |-> id, c |-> c, v |-> v])]
         /\ diff' = [diff EXCEPT ![t] = d]
    ELSE UNCHANGED <<entries, diff>>

CanWrite(t) == status[t] = "active" /\ Len(entries[t]) < MaxEntries

TxInsert(t, id, c) ==
  /\ CanWrite(t)
  /\ InsertRow(id, c)
  /\ Record(t, "insert", id, c, 1, Add(diff[t], id, [c |-> c, v |-> 1]))
  /\ UNCHANGED <<status, begun>>
  /\ ForeignTo(Active \ {t})

\* The journal keeps the old content and the new version of an updated row.
TxUpdate(t, id, c) ==
  /\ CanWrite(t) /\ id \in DOMAIN rows
  /\ UpdateRow(id, c)
  /\ Record(t, "update", id, rows[id], NextVersion(version[id]),
            Modify(diff[t], id, Stored[id], [c |-> c, v |-> NextVersion(version[id])]))
  /\ UNCHANGED <<status, begun>>
  /\ ForeignTo(Active \ {t})

TxDelete(t, id) ==
  /\ CanWrite(t) /\ id \in DOMAIN rows
  /\ DeleteRow(id)
  /\ Record(t, "delete", id, rows[id], version[id], Remove(diff[t], id, Stored[id]))
  /\ UNCHANGED <<status, begun>>
  /\ ForeignTo(Active \ {t})

\* A write to a row that is not there returns an error and changes nothing.
TxMiss(t, id) ==
  /\ CanWrite(t) /\ id \notin DOMAIN rows
  /\ result' = "not_found"
  /\ UNCHANGED <<rows, version, status, entries, diff, begun, foreign>>

Finish(t, s) ==
  /\ status' = [status EXCEPT ![t] = s]
  /\ entries' = [entries EXCEPT ![t] = <<>>]
  /\ diff' = [diff EXCEPT ![t] = NoDiff]
  /\ begun' = [begun EXCEPT ![t] = Nothing]
  /\ ForeignTo(Active \ {t})

Commit(t) ==
  /\ status[t] = "active"
  /\ UNCHANGED <<rows, version>>
  /\ Finish(t, "committed")
  /\ result' = "ok"

-----------------------------------------------------------------------------
(* Rollback.  Each entry is undone by a store write whose error is ignored; *)
(* only a version at its maximum stops the replay, with the newer entries   *)
(* undone and the older ones not.  The transaction is consumed either way.  *)
UndoInsert(s, e) == [s EXCEPT !.rows = Drop(@, e.id), !.version = Drop(@, e.id)]

\* Mutant: the version is not checked.
UndoUpdateUnchecked(s, e) ==
  IF e.id \in DOMAIN s.rows /\ T!Fits(s.rows, e.id, e.c)
    THEN [s EXCEPT !.rows = Put(@, e.id, e.c), !.version = Put(@, e.id, e.v + 1)]
    ELSE s

UndoUpdate(s, e) ==
  IF e.v = MaxVersion THEN [s EXCEPT !.overflow = TRUE]
  ELSE IF e.id \in DOMAIN s.rows /\ T!Fits(s.rows, e.id, e.c)
    THEN [s EXCEPT !.rows = Put(@, e.id, e.c), !.version = Put(@, e.id, e.v + 1)]
  ELSE s

\* Mutant: the constraints are checked against the table as it was before the replay.
UndoDeleteStale(s, e) ==
  IF e.id \notin DOMAIN s.rows /\ T!Fits(rows, e.id, e.c)
    THEN [s EXCEPT !.rows = Put(@, e.id, e.c), !.version = Put(@, e.id, e.v)]
    ELSE s

UndoDelete(s, e) ==
  IF e.id \notin DOMAIN s.rows /\ T!Fits(s.rows, e.id, e.c)
    THEN [s EXCEPT !.rows = Put(@, e.id, e.c), !.version = Put(@, e.id, e.v)]
    ELSE s

Undo(s, e) ==
  CASE s.overflow -> s
    [] ~s.overflow /\ e.kind = "insert" -> UndoInsert(s, e)
    [] ~s.overflow /\ e.kind = "update" -> UndoUpdate(s, e)
    [] ~s.overflow /\ e.kind = "delete" -> UndoDelete(s, e)

\* The table after the last entries of a journal es have been undone, down to entry n.
\* Mutant: oldest entry first.
UndoneForwards(es) ==
  LET f[k \in 0..Len(es)] ==
        IF k = 0 THEN [rows |-> rows, version |-> version, overflow |-> FALSE]
        ELSE Undo(f[k - 1], es[k])
  IN  f

UndoneTo(es) ==
  LET f[k \in 0..Len(es)] ==
        IF k = 0 THEN [rows |-> rows, version |-> version, overflow |-> FALSE]
        ELSE Undo(f[k - 1], es[Len(es) - k + 1])
  IN  f

RolledBack(t) == UndoneTo(entries[t])[Len(entries[t])]

Rollback(t) ==
  /\ status[t] = "active"
  /\ rows' = RolledBack(t).rows
  /\ version' = RolledBack(t).version
  /\ result' = IF RolledBack(t).overflow THEN "overflow" ELSE "ok"
  /\ Finish(t, "rolledback")

-----------------------------------------------------------------------------
\* A write outside any transaction.
DirectWrite ==
  /\ \E id \in (IF Active = {} THEN RowId ELSE Contested) :
       \/ \E c \in Content : InsertRow(id, c) \/ UpdateRow(id, c)
       \/ DeleteRow(id)
  /\ UNCHANGED <<status, entries, diff, begun>>
  /\ ForeignTo(Active)

Next ==
  \/ \E t \in Tx : Begin(t) \/ Commit(t) \/ Rollback(t)
  \/ \E t \in Tx, id \in RowId, c \in Content : TxInsert(t, id, c) \/ TxUpdate(t, id, c)
  \/ \E t \in Tx, id \in RowId : TxDelete(t, id) \/ TxMiss(t, id)
  \/ DirectWrite

Spec == Init /\ [][Next]_vars

-----------------------------------------------------------------------------
RollsBack(t) == status[t] = "active" /\ status'[t] = "rolledback" /\ result' = "ok"

Restored(t, id) ==
  /\ id \in DOMAIN rows' <=> id \in DOMAIN begun[t]
  /\ id \in DOMAIN rows' => rows'[id] = begun[t][id].c

(* A transaction that nobody else interfered with leaves no trace when it  *)
(* is rolled back: every row has the content it had at begin, whatever     *)
(* sequence of inserts, updates and deletes of whichever rows it made, and *)
(* none of the ignored errors happens.                                     *)
RollbackRestores ==
  [][\A t \in Tx : RollsBack(t) /\ foreign[t] = {} => \A id \in RowId : Restored(t, id)]_vars

(* When others did write, a row of the transaction alone can miss its      *)
(* restoration only if a row the others wrote has, or gets back during the *)
(* replay, a unique key that the replay needed for another row: nothing    *)
(* else makes the ignored errors happen.                                   *)
HeldBy(t, f) ==
  {rows[x] : x \in {f} \cap DOMAIN rows}
  \cup {entries[t][m].c : m \in {n \in 1..Len(entries[t]) : entries[t][n].id = f}}

Stolen(t) ==
  \E n \in 1..Len(entries[t]), f \in foreign[t] :
    /\ f # entries[t][n].id
    /\ \E d \in HeldBy(t, f), ix \in Constrained : Keys[ix][d] = Keys[ix][entries[t][n].c]

LostOnlyToStolenKeys ==
  [][\A t \in Tx : RollsBack(t) =>
       Stolen(t) \/ \A id \in RowId \ foreign[t] : Restored(t, id)]_vars

(* The diff of an undisturbed transaction is the exact difference between  *)
(* the table at begin and now, through chains such as delete then insert   *)
(* or insert then update then delete of one row: nothing in it that did    *)
(* not change, and old values from before the transaction.                 *)
DiffIsNet ==
  \A t \in Active : foreign[t] = {} =>
    LET d == diff[t]
    IN  /\ d.added = [x \in DOMAIN rows \ DOMAIN begun[t] |-> Stored[x]]
        /\ d.deleted = [x \in DOMAIN begun[t] \ DOMAIN rows |-> begun[t][x]]
        /\ \A x \in DOMAIN d.modified :
             /\ x \in DOMAIN rows \cap DOMAIN begun[t]
             /\ d.modified[x] = [old |-> begun[t][x], new |-> Stored[x]]
        /\ \A x \in (DOMAIN rows \cap DOMAIN begun[t]) \ DOMAIN d.modified : Stored[x] = begun[t][x]

(* journal.rs: rollback restores old values "but keep[s] version           *)
(* incrementing to maintain monotonicity": a row that the transaction only *)
(* updated gets a new version when the rollback changes its content.       *)
OnlyUpdated(t, id) == \A n \in 1..Len(entries[t]) : entries[t][n].id = id => entries[t][n].kind = "update"

VersionsKeepIncrementing ==
  [][\A t \in Tx : RollsBack(t) =>
       \A id \in DOMAIN rows \cap DOMAIN rows' :
         OnlyUpdated(t, id) /\ rows'[id] # rows[id] => version'[id] > version[id]]_vars
=============================================================================
