------------------------- MODULE LiveRuntimeProofs -------------------------
(***************************************************************************)
(* Proofs about LiveRuntime, for any rows, contents, queries, handles and  *)
(* bounds, and for every interleaving of clients and microtasks:           *)
(*                                                                         *)
(*   FlushAlwaysOnItsWay   a queued change always has a microtask coming   *)
(*   StaleRowsAlwaysDue    a row that an observe() query shows wrongly is  *)
(*                         due, or its change was never announced          *)
(*   LiveTypeCorrect       everything keeps to its type                    *)
(*   DeltasAlwaysComplete  the queued deltas lead a trace() query to what  *)
(*                         it should show                                  *)
(*   ClientsAlwaysAgree    clients have been told what queries hold        *)
(*                                                                         *)
(* None is inductive alone.  The first needs that the number of queued     *)
(* microtasks is a natural number; the second that the pending ids of a    *)
(* transaction are empty when none is open, since begin() forgets them;    *)
(* the last two that the queued deltas lead to what the query returned     *)
(* when the transaction began and the transaction's deltas lead on from    *)
(* there, and that this beginning is what the journal would restore.       *)
(***************************************************************************)
EXTENDS LiveRuntime, Iteration, FiniteSetTheorems, TLAPS

-----------------------------------------------------------------------------
(* The flush is on its way. *)
FlushInv == queued \in Nat /\ FlushOnItsWay

LEMMA FlushInit == Init => FlushInv
  BY DEF Init, FlushInv, FlushOnItsWay

(* After a flush nothing is queued, and what is not queued needs no microtask. *)
LEMMA FlushEmpties ==
  ASSUME NEW S, NEW ids, NEW ds, Flush(S, ids, ds), queued' \in Nat
  PROVE  FlushInv'
  BY DEF Flush, FlushInv, FlushOnItsWay

LEMMA AnnounceSchedules ==
  ASSUME NEW ids, NEW ds, FlushInv, Announce(ids, ds), ~crashed, queued' \in Nat
  PROVE  FlushInv'
  BY DEF Announce, FlushInv, FlushOnItsWay

LEMMA FlushStep == FlushInv /\ [Next]_vars => FlushInv'
<1> SUFFICES ASSUME FlushInv, [Next]_vars PROVE FlushInv'
  OBVIOUS
<1> queued \in Nat
  BY DEF FlushInv
<1>keep. ASSUME UNCHANGED registry, UNCHANGED crashed PROVE FlushInv'
  BY <1>keep DEF registry, FlushInv, FlushOnItsWay
<1>after. QueuedAfterFlush \in Nat
  BY DEF QueuedAfterFlush
<1>1. ASSUME NEW id \in RowId, NEW to \in Content \cup {Gone}, DirectWrite(id, to) PROVE FlushInv'
  <2>1. ~crashed /\ Announce({id}, DeltasOf(id, to))
    BY <1>1 DEF DirectWrite, DirectAllowed
  <2>2. queued' \in Nat
    BY <2>1 DEF Announce
  <2> QED BY <2>1, <2>2, AnnounceSchedules
<1>2. ASSUME NEW id \in RowId, NEW to \in Content \cup {Gone}, QuietWrite(id, to) \/ FailingWrite(id, to)
      PROVE FlushInv'
  BY <1>2, <1>keep DEF QuietWrite, FailingWrite
<1>3. ASSUME NEW id \in RowId, NEW to \in Content \cup {Gone}, NEW fails \in BOOLEAN, TxWrite(id, to, fails)
      PROVE FlushInv'
  BY <1>3, <1>keep DEF TxWrite
<1>4. ASSUME Clear \/ Begin PROVE FlushInv'
  BY <1>4, <1>keep DEF Clear, Begin
<1>5. ASSUME Commit PROVE FlushInv'
  <2>1. CASE HasPending
    BY <1>5, <1>after, <2>1, FlushEmpties DEF Commit
  <2>2. CASE ~HasPending
    BY <1>5, <1>keep, <2>2 DEF Commit
  <2> QED BY <2>1, <2>2
<1>6. ASSUME Rollback PROVE FlushInv'
  <2>1. CASE ~HasPending
    BY <1>6, <1>keep, <2>1 DEF Rollback
  <2>2. CASE HasPending /\ ~RollbackPanics
    BY <1>6, <1>after, <2>2, FlushEmpties DEF Rollback
  <2>3. CASE HasPending /\ RollbackPanics
    BY <1>6, <2>3 DEF Rollback, registry, FlushInv, FlushOnItsWay
  <2> QED BY <2>1, <2>2, <2>3
<1>7. ASSUME Microtask PROVE FlushInv'
  <2>1. queued' \in Nat /\ Flush(store, pendingIds, pendingDeltas)
    BY <1>7 DEF Microtask
  <2> QED BY <2>1, FlushEmpties
<1>8. ASSUME NEW v \in View, Open(v) \/ Subscribe(v) \/ Unsubscribe(v) PROVE FlushInv'
  BY <1>8, <1>keep DEF Open, Subscribe, Unsubscribe
<1>9. CASE UNCHANGED vars
  BY <1>9, <1>keep DEF vars, registry
<1> QED BY <1>1, <1>2, <1>3, <1>4, <1>5, <1>6, <1>7, <1>8, <1>9 DEF Next

(* A queued change is never forgotten: whatever commits, rollbacks and      *)
(* microtasks come in between, the flush is scheduled and a microtask is    *)
(* queued for it (schedule_flush and flush in live_runtime.rs).             *)
THEOREM FlushAlwaysOnItsWay == Spec => []FlushOnItsWay
<1>1. FlushInv => FlushOnItsWay
  BY DEF FlushInv
<1> QED BY <1>1, FlushInit, FlushStep, PTL DEF Spec

-----------------------------------------------------------------------------
(* Stale rows are due.  Seen(c) is what a query shows of a row with content c. *)
Seen(c) == IF c \in Match THEN c ELSE Gone

LEMMA QueryAt ==
  ASSUME NEW S, NEW id
  PROVE  At(Query(S), id) = Seen(At(S, id))
  BY MatchAssumption DEF At, Query, Seen

HandleFields == {"opened", "registered", "subscribed", "result", "client"}

Shape ==
  /\ view = [v \in View |-> view[v]]
  /\ \A v \in View : DOMAIN view[v] = HandleFields
  /\ DOMAIN tx = {"open", "ids", "deltas", "journal"}
  /\ ~tx.open => tx.ids = {}

Fresh(v, id) == At(view[v].result, id) = Seen(At(store, id))

Due == \A v \in Snapshot, id \in RowId : ~crashed /\ view[v].registered /\ ~Fresh(v, id) => id \in Unflushed

DueInv == Shape /\ Due

LEMMA DueIsStaleRowsAreDue == Due <=> StaleRowsAreDue
  BY QueryAt DEF Due, StaleRowsAreDue, Fresh

LEMMA DueInit == Init => DueInv
  BY DEF Init, DueInv, Shape, Due, Unused, NoTx, HandleFields, Snapshot, View

(* A write changes what is stored under its own id only. *)
LEMMA RowChangeElsewhere ==
  ASSUME NEW id, NEW to, RowChange(id, to), NEW x, x # id
  PROVE  At(store', x) = At(store, x)
  BY DEF RowChange, Become, Put, Drop, At

(* What a flush leaves of a handle: an observe() handle that stays registered *)
(* shows the rows it was told of as they are, and the others as before or     *)
(* as they are.                                                               *)
LEMMA FlushRefreshes ==
  ASSUME Shape, NEW S, NEW ids, NEW ds, Flush(S, ids, ds)
  PROVE  /\ view' = [v \in View |-> view'[v]]
         /\ \A v \in View : DOMAIN view'[v] = HandleFields
         /\ \A v \in Snapshot : view'[v].registered =>
              /\ view[v].registered
              /\ \A id \in RowId :
                   \/ At(view'[v].result, id) = Seen(At(S, id))
                   \/ id \notin ids /\ At(view'[v].result, id) = At(view[v].result, id)
<1>1. view' = [v \in View |-> Flushed(v, S, ids, ds)]
  BY DEF Flush
<1>2. ASSUME NEW v \in View PROVE DOMAIN Flushed(v, S, ids, ds) = HandleFields
  <2>1. DOMAIN view[v] = HandleFields
    BY DEF Shape
  <2>2. CASE ~Watched(v)
    BY <2>1, <2>2 DEF Flushed
  <2>3. CASE Watched(v) /\ v \in Traced
    BY <2>1, <2>3, HandleAssumption DEF Flushed, OnDeltas
  <2>4. CASE Watched(v) /\ v \in Patched
    BY <2>1, <2>4, HandleAssumption DEF Flushed, Refreshed
  <2>5. CASE Watched(v) /\ v \in Requeried
    BY <2>1, <2>5, HandleAssumption DEF Flushed, Refreshed
  <2> QED BY <2>2, <2>3, <2>4, <2>5 DEF View
<1>3. ASSUME NEW v \in Snapshot, view'[v].registered
      PROVE  /\ view[v].registered
             /\ \A id \in RowId :
                  \/ At(view'[v].result, id) = Seen(At(S, id))
                  \/ id \notin ids /\ At(view'[v].result, id) = At(view[v].result, id)
  <2> v \in View
    BY DEF Snapshot, View
  <2>1. DOMAIN view[v] = HandleFields /\ view'[v] = Flushed(v, S, ids, ds)
    BY <1>1 DEF Shape
  <2>2. Watched(v)
    <3> SUFFICES ASSUME ~Watched(v) PROVE FALSE
      OBVIOUS
    <3>1. Flushed(v, S, ids, ds) = [view[v] EXCEPT !.registered = FALSE]
      BY DEF Flushed
    <3> QED BY <1>3, <2>1, <3>1 DEF HandleFields
  <2>3. ASSUME NEW R, view'[v] = Refreshed(view[v], R) PROVE view'[v].result = R
    BY <2>1, <2>3 DEF Refreshed, HandleFields
  <2>4. CASE v \in Patched
    <3>1. view'[v].result = PatchedResult(view[v], S, ids)
      BY <2>1, <2>2, <2>3, <2>4, HandleAssumption DEF Flushed
    <3>2. ASSUME NEW id \in ids PROVE At(view'[v].result, id) = At(Query(S), id)
      BY <3>1, <3>2 DEF PatchedResult, At, Query
    <3>3. ASSUME NEW id, id \notin ids PROVE At(view'[v].result, id) = At(view[v].result, id)
      BY <3>1, <3>3 DEF PatchedResult, At
    <3> QED BY <2>2, <3>2, <3>3, QueryAt DEF Watched
  <2>5. CASE v \in Requeried
    <3>1. view'[v].result = IF ids = {} THEN view[v].result ELSE Query(S)
      BY <2>1, <2>2, <2>3, <2>5, HandleAssumption DEF Flushed
    <3> QED BY <2>2, <3>1, QueryAt DEF Watched
  <2> QED BY <2>4, <2>5 DEF Snapshot
<1>4. view' = [v \in View |-> view'[v]] /\ \A v \in View : DOMAIN view'[v] = HandleFields
  BY <1>1, <1>2
<1> QED BY <1>3, <1>4

(* After a flush with ids, only ids that were due for another reason are stale. *)
LEMMA FlushDue ==
  ASSUME Shape, Due, ~crashed, NEW ids, NEW ds, Flush(store', ids, ds),
         \A id \in RowId \ ids : id \in Unflushed => id \in Unflushed',
         \A id \in RowId \ ids : At(store', id) = At(store, id) \/ id \in Unflushed'
  PROVE  Due'
<1> SUFFICES ASSUME NEW v \in Snapshot, NEW id \in RowId, view'[v].registered,
                    At(view'[v].result, id) # Seen(At(store', id))
             PROVE  id \in Unflushed'
  BY DEF Due, Fresh, Snapshot
<1>1. view[v].registered /\ id \notin ids /\ At(view'[v].result, id) = At(view[v].result, id)
  BY FlushRefreshes
<1>2. CASE At(store', id) = At(store, id)
  BY <1>1, <1>2 DEF Due, Fresh
<1> QED BY <1>1, <1>2

(* A step that leaves the handles alone. *)
LEMMA QuietDue ==
  ASSUME Shape, Due, UNCHANGED view,
         ~crashed' => ~crashed,
         \A id \in RowId : At(store', id) = At(store, id) \/ id \in Unflushed',
         \A id \in RowId : id \in Unflushed => id \in Unflushed'
  PROVE  Due'
  BY DEF Due, Fresh

LEMMA DueStep == DueInv /\ [Next]_vars => DueInv'
<1> SUFFICES ASSUME DueInv, [Next]_vars PROVE DueInv'
  OBVIOUS
<1> Shape /\ Due
  BY DEF DueInv
<1> USE DEF DueInv
<1>1. ASSUME NEW id \in RowId, NEW to \in Content \cup {Gone}, DirectWrite(id, to) PROVE DueInv'
  <2>1. Shape'
    BY <1>1 DEF DirectWrite, Shape
  <2>2. UNCHANGED view /\ UNCHANGED crashed /\ RowChange(id, to)
    BY <1>1 DEF DirectWrite
  <2>3. Unflushed \cup {id} = Unflushed'
    BY <1>1 DEF DirectWrite, Announce, Unflushed
  <2> QED BY <2>1, <2>2, <2>3, RowChangeElsewhere, QuietDue
<1>2. ASSUME NEW id \in RowId, NEW to \in Content \cup {Gone}, QuietWrite(id, to) PROVE DueInv'
  <2>1. Shape'
    BY <1>2 DEF QuietWrite, Shape
  <2>2. \A v \in Snapshot : ~view'[v].registered
    BY <1>2 DEF QuietWrite, SomeRegistered, Snapshot, View
  <2> QED BY <2>1, <2>2 DEF Due, Snapshot
<1>3. ASSUME NEW id \in RowId, NEW to \in Content \cup {Gone}, FailingWrite(id, to) PROVE DueInv'
  <2>1. Shape'
    BY <1>3 DEF FailingWrite, Shape
  <2>2. UNCHANGED view /\ UNCHANGED crashed /\ RowChange(id, to)
    BY <1>3 DEF FailingWrite
  <2>3. Unflushed \cup {id} = Unflushed'
    BY <1>3 DEF FailingWrite, registry, Unflushed
  <2> QED BY <2>1, <2>2, <2>3, RowChangeElsewhere, QuietDue
<1>4. ASSUME Clear PROVE DueInv'
  <2>1. Shape'
    BY <1>4 DEF Clear, Shape
  <2>2. UNCHANGED view /\ UNCHANGED crashed
    BY <1>4 DEF Clear
  <2>3. Unflushed \cup DOMAIN store = Unflushed'
    BY <1>4 DEF Clear, registry, Unflushed
  <2>4. \A id \in RowId : At(store', id) = At(store, id) \/ id \in DOMAIN store
    BY <1>4 DEF Clear, Nothing, At
  <2> QED BY <2>1, <2>2, <2>3, <2>4, QuietDue
<1>5. ASSUME Begin PROVE DueInv'
  <2>1. Shape'
    BY <1>5 DEF Begin, Shape, NoTx
  <2>2. UNCHANGED <<view, crashed, store>>
    BY <1>5 DEF Begin
  <2>3. Unflushed = Unflushed'
    BY <1>5 DEF Begin, NoTx, registry, Unflushed, Shape
  <2> QED BY <2>1, <2>2, <2>3, QuietDue
<1>6. ASSUME NEW id \in RowId, NEW to \in Content \cup {Gone}, NEW fails \in BOOLEAN, TxWrite(id, to, fails)
      PROVE DueInv'
  <2>1. UNCHANGED view /\ UNCHANGED crashed /\ RowChange(id, to) /\ tx.open /\ UNCHANGED pendingIds
    BY <1>6 DEF TxWrite, registry
  <2>2. CASE fails
    <3>1. DOMAIN tx' = DOMAIN tx /\ tx'.open = tx.open /\ tx'.ids = tx.ids /\ lost' = lost \cup {id}
      BY <1>6, <2>2 DEF TxWrite, Shape
    <3>2. Shape' /\ Unflushed \cup {id} = Unflushed'
      BY <2>1, <3>1 DEF Shape, Unflushed
    <3> QED BY <2>1, <3>2, RowChangeElsewhere, QuietDue
  <2>3. CASE ~fails
    <3>1. /\ DOMAIN tx' = DOMAIN tx /\ tx'.open = tx.open
          /\ tx'.ids = tx.ids \cup {id} /\ lost' = lost
      BY <1>6, <2>3 DEF TxWrite, Shape
    <3>2. Shape' /\ Unflushed \cup {id} = Unflushed'
      BY <2>1, <3>1 DEF Shape, Unflushed
    <3> QED BY <2>1, <3>2, RowChangeElsewhere, QuietDue
  <2> QED BY <2>2, <2>3
<1>closed. ASSUME tx' = NoTx PROVE DOMAIN tx' = {"open", "ids", "deltas", "journal"} /\ tx'.ids = {}
  BY <1>closed DEF NoTx
<1>7. ASSUME Commit PROVE DueInv'
  <2>1. ~crashed /\ tx' = NoTx /\ lost' = lost \ tx.ids /\ store' = store
    BY <1>7 DEF Commit
  <2>2. CASE HasPending
    <3>1. Flush(store', pendingIds \cup tx.ids, pendingDeltas \o tx.deltas)
      BY <1>7, <2>1, <2>2 DEF Commit
    <3>2. Shape'
      BY <2>1, <3>1, <1>closed, FlushRefreshes DEF Shape
    <3>3. \A id \in RowId \ (pendingIds \cup tx.ids) : id \in Unflushed => id \in Unflushed'
      BY <2>1 DEF Unflushed
    <3> QED BY <2>1, <3>1, <3>2, <3>3, FlushDue
  <2>3. CASE ~HasPending
    <3>1. UNCHANGED <<pendingIds, view>> /\ tx.ids = {}
      BY <1>7, <2>3 DEF Commit, HasPending, registry
    <3>2. Shape' /\ \A id \in RowId : id \in Unflushed => id \in Unflushed'
      BY <2>1, <3>1, <1>closed DEF Shape, Unflushed
    <3>3. UNCHANGED crashed
      BY <1>7 DEF Commit
    <3> QED BY <2>1, <3>1, <3>2, <3>3, QuietDue
  <2> QED BY <2>2, <2>3
<1>8. ASSUME Rollback PROVE DueInv'
  <2>1. ~crashed /\ tx' = NoTx /\ lost' = (lost \ tx.ids) \cup Unannounced
    BY <1>8 DEF Rollback
  <2>2. \A id \in RowId : At(store', id) = At(store, id) \/ id \in tx.ids \/ id \in Unflushed'
    BY <2>1 DEF Unannounced, Unflushed
  <2>3. CASE ~HasPending
    <3>1. UNCHANGED <<pendingIds, view, crashed>> /\ tx.ids = {}
      BY <1>8, <2>3 DEF Rollback, HasPending, registry
    <3>2. Shape' /\ \A id \in RowId : id \in Unflushed => id \in Unflushed'
      BY <2>1, <3>1, <1>closed DEF Shape, Unflushed
    <3> QED BY <2>2, <3>1, <3>2, QuietDue
  <2>4. CASE HasPending /\ ~RollbackPanics
    <3>1. Flush(store', pendingIds \cup tx.ids, pendingDeltas)
      BY <1>8, <2>4 DEF Rollback
    <3>2. Shape'
      BY <2>1, <3>1, <1>closed, FlushRefreshes DEF Shape
    <3>3. \A id \in RowId \ (pendingIds \cup tx.ids) : id \in Unflushed => id \in Unflushed'
      BY <2>1 DEF Unflushed
    <3> QED BY <2>1, <2>2, <3>1, <3>2, <3>3, FlushDue
  <2>5. CASE HasPending /\ RollbackPanics
    <3>1. UNCHANGED view /\ crashed'
      BY <1>8, <2>5 DEF Rollback
    <3> QED BY <2>1, <3>1, <1>closed DEF Shape, Due
  <2> QED BY <1>8, <2>3, <2>4, <2>5
<1>9. ASSUME Microtask PROVE DueInv'
  <2>1. ~crashed /\ Flush(store', pendingIds, pendingDeltas) /\ UNCHANGED <<store, tx, lost>>
    BY <1>9 DEF Microtask
  <2>2. Shape'
    BY <2>1, FlushRefreshes DEF Shape
  <2>3. \A id \in RowId \ pendingIds : id \in Unflushed => id \in Unflushed'
    BY <2>1 DEF Unflushed
  <2> QED BY <2>1, <2>2, <2>3, FlushDue
<1>10. ASSUME NEW u \in View, Open(u) PROVE DueInv'
  <2>1. /\ UNCHANGED <<store, pendingIds, tx, crashed, lost>>
        /\ view' = [view EXCEPT ![u] = [Unused EXCEPT !.opened = TRUE, !.registered = TRUE, !.result = Query(store)]]
    BY <1>10 DEF Open, registry
  <2>2. DOMAIN view'[u] = HandleFields /\ view'[u].result = Query(store)
    BY <2>1 DEF Unused, HandleFields, Shape
  <2>3. \A v \in View \ {u} : view'[v] = view[v]
    BY <2>1 DEF Shape
  <2>4. view' = [v \in View |-> view'[v]]
    BY <2>1 DEF Shape
  <2>5. Shape'
    BY <2>1, <2>2, <2>3, <2>4 DEF Shape
  <2>6. \A id \in RowId : Fresh(u, id)'
    BY <2>1, <2>2, QueryAt DEF Fresh
  <2> QED BY <2>1, <2>3, <2>5, <2>6 DEF Due, Fresh, Unflushed, Snapshot, View
<1>11. ASSUME NEW u \in View, Subscribe(u) \/ Unsubscribe(u) PROVE DueInv'
  <2>1. UNCHANGED <<store, pendingIds, tx, crashed, lost>>
    BY <1>11 DEF Subscribe, Unsubscribe, registry
  <2>2. /\ view' = [v \in View |-> view'[v]]
        /\ \A v \in View : /\ DOMAIN view'[v] = HandleFields
                           /\ view'[v].registered = view[v].registered
                           /\ view'[v].result = view[v].result
    BY <1>11 DEF Subscribe, Unsubscribe, Shape, HandleFields
  <2> QED BY <2>1, <2>2 DEF Shape, Due, Fresh, Unflushed, Snapshot, View
<1>12. CASE UNCHANGED vars
  BY <1>12 DEF vars, Shape, Due, Fresh, Unflushed
<1> QED BY <1>1, <1>2, <1>3, <1>4, <1>5, <1>6, <1>7, <1>8, <1>9, <1>10, <1>11, <1>12 DEF Next

(* Whatever an observe() query that is still registered shows wrongly is a  *)
(* row that is queued for the flush, pending in the open transaction, or    *)
(* was changed without an announcement: on_table_change, the transaction's  *)
(* commit and rollback, and the flush lose no id between them.              *)
THEOREM StaleRowsAlwaysDue == Spec => []StaleRowsAreDue
<1>1. DueInv => StaleRowsAreDue
  BY DueIsStaleRowsAreDue DEF DueInv
<1> QED BY <1>1, DueInit, DueStep, PTL DEF Spec

-----------------------------------------------------------------------------
(* Rows and deltas. *)
Rows(C) == UNION {[D -> C] : D \in SUBSET RowId}

(* A set of rows is what TypeOK says of the store. *)
LEMMA RowsMeans ==
  ASSUME NEW C, NEW R
  PROVE  R \in Rows(C) <=> DOMAIN R \subseteq RowId /\ R \in [DOMAIN R -> C]
BY DEF Rows

(* Storing and removing rows. *)
LEMMA RowsWritten ==
  ASSUME NEW C, NEW R \in Rows(C), NEW id \in RowId, NEW c \in C, NEW ids
  PROVE  Put(R, id, c) \in Rows(C) /\ Drop(R, ids) \in Rows(C)
<1>1. DOMAIN R \subseteq RowId /\ R \in [DOMAIN R -> C]
  BY RowsMeans
<1>2. DOMAIN Put(R, id, c) \subseteq RowId /\ Put(R, id, c) \in [DOMAIN Put(R, id, c) -> C]
  BY <1>1 DEF Put
<1>3. DOMAIN Drop(R, ids) \subseteq RowId /\ Drop(R, ids) \in [DOMAIN Drop(R, ids) -> C]
  BY <1>1 DEF Drop
<1> QED BY <1>2, <1>3, RowsMeans

-----------------------------------------------------------------------------
(* Deltas of rows with contents in C. *)
DeltaOf(C) == [id : RowId, c : C, d : {1, -1}]

ApplyOne(R, e) == IF e.d = 1 THEN Put(R, e.id, e.c) ELSE Drop(R, {e.id})

ApplySteps(C, ds) == [n \in 1..Len(ds) |-> [T \in Rows(C) |-> ApplyOne(T, ds[n])]]

(* Applied is what its recursive definition describes: the rows after each *)
(* of the deltas.                                                          *)
LEMMA AppliedIterates ==
  ASSUME NEW C, NEW R \in Rows(C), NEW ds \in Seq(DeltaOf(C))
  PROVE  /\ Steps(ApplySteps(C, ds), Rows(C), Len(ds))
         /\ \E f : Iterates(f, ApplySteps(C, ds), Rows(C), Len(ds), R) /\ Applied(R, ds) = f[Len(ds)]
<1> DEFINE N == Len(ds)
           G == ApplySteps(C, ds)
           Step(f, n) == IF n = 0 THEN R
                         ELSE IF ds[n].d = 1 THEN Put(f[n - 1], ds[n].id, ds[n].c) ELSE Drop(f[n - 1], {ds[n].id})
           S(f) == f = [n \in 0..N |-> Step(f, n)]
           A == CHOOSE f : S(f)
<1>1. N \in Nat /\ \A n \in 1..N : ds[n] \in DeltaOf(C)
  OBVIOUS
<1>2. \A n \in 1..N, T \in Rows(C) : ApplyOne(T, ds[n]) \in Rows(C)
  BY <1>1, RowsWritten DEF ApplyOne, DeltaOf
<1>3. Steps(G, Rows(C), N)
  BY <1>2 DEF Steps, ApplySteps
<1>4. \A n \in 1..N, T \in Rows(C) : G[n][T] = ApplyOne(T, ds[n])
  BY DEF ApplySteps
<1>5. Applied(R, ds) = A[N]
  BY DEF Applied
<1>6. \A f : \A n \in 1..N : n \in 0..N /\ n - 1 \in 0..N /\ Step(f, n) = ApplyOne(f[n - 1], ds[n])
  BY <1>1 DEF ApplyOne
<1>7. \A f : 0 \in 0..N /\ Step(f, 0) = R
  BY <1>1
<1>8. \A n \in 0..N : n = 0 \/ n \in 1..N
  BY <1>1
<1> HIDE DEF G, N, Step
<1>9. PICK g : Iterates(g, G, Rows(C), N, R)
  BY <1>1, <1>3, IterationExists
<1>10. S(g)
  <2>1. ASSUME NEW n \in 0..N PROVE g[n] = Step(g, n)
    <3>1. CASE n = 0
      BY <1>7, <1>9, <3>1 DEF Iterates
    <3>2. CASE n \in 1..N
      <4>1. g[n - 1] \in Rows(C) /\ g[n] = G[n][g[n - 1]]
        BY <1>6, <1>9, <3>2 DEF Iterates
      <4>2. g[n] = ApplyOne(g[n - 1], ds[n])
        BY <1>4, <3>2, <4>1
      <4> QED BY <1>6, <3>2, <4>2
    <3> QED BY <1>8, <3>1, <3>2
  <2> QED BY <1>9, <2>1 DEF Iterates
<1>11. S(A)
  BY <1>10, Zenon
<1> HIDE DEF A
<1>12. A = [n \in 0..N |-> A[n]] /\ A[0] = R
  BY <1>7, <1>11
<1>13. ASSUME NEW n \in 1..N, A[n - 1] \in Rows(C) PROVE A[n] = G[n][A[n - 1]]
  <2>1. A[n] = Step(A, n)
    BY <1>6, <1>11
  <2>2. A[n] = ApplyOne(A[n - 1], ds[n])
    BY <1>6, <2>1
  <2> QED BY <1>4, <1>13, <2>2
<1>14. Iterates(A, G, Rows(C), N, R)
  BY <1>1, <1>3, <1>12, <1>13, IterationIs
<1> QED BY <1>3, <1>5, <1>14 DEF N, G

(* Applying deltas: what is left are rows, nothing to apply changes nothing, *)
(* and the last of several is applied to what the others leave.              *)
LEMMA AppliedTyped ==
  ASSUME NEW C, NEW R \in Rows(C), NEW ds \in Seq(DeltaOf(C))
  PROVE  Applied(R, ds) \in Rows(C)
<1>1. PICK f : Iterates(f, ApplySteps(C, ds), Rows(C), Len(ds), R) /\ Applied(R, ds) = f[Len(ds)]
  BY AppliedIterates
<1> QED BY <1>1 DEF Iterates

LEMMA AppliedNone ==
  ASSUME NEW C, NEW R \in Rows(C)
  PROVE  Applied(R, <<>>) = R
<1>1. <<>> \in Seq(DeltaOf(C)) /\ Len(<<>>) = 0
  OBVIOUS
<1>2. PICK f : Iterates(f, ApplySteps(C, <<>>), Rows(C), Len(<<>>), R) /\ Applied(R, <<>>) = f[Len(<<>>)]
  BY <1>1, AppliedIterates
<1> QED BY <1>1, <1>2 DEF Iterates

LEMMA AppliedOneMore ==
  ASSUME NEW C, NEW R \in Rows(C), NEW ds \in Seq(DeltaOf(C)), NEW e \in DeltaOf(C)
  PROVE  Applied(R, Append(ds, e)) = ApplyOne(Applied(R, ds), e)
<1> DEFINE es == Append(ds, e)
           N == Len(ds)
<1>1. /\ es \in Seq(DeltaOf(C)) /\ N \in Nat /\ Len(es) = N + 1 /\ es[N + 1] = e
      /\ \A n \in 1..N : es[n] = ds[n]
  OBVIOUS
<1> HIDE DEF es, N
<1>2. PICK f : Iterates(f, ApplySteps(C, ds), Rows(C), N, R) /\ Applied(R, ds) = f[N]
  BY AppliedIterates DEF N
<1>3. PICK h : Iterates(h, ApplySteps(C, es), Rows(C), Len(es), R) /\ Applied(R, es) = h[Len(es)]
  BY <1>1, AppliedIterates
<1>4. SameSteps(ApplySteps(C, ds), ApplySteps(C, es), Rows(C), N)
  BY <1>1 DEF SameSteps, ApplySteps, N
<1>5. Iterates(h, ApplySteps(C, es), Rows(C), N + 1, R) /\ N + 1 \in Nat /\ N <= N + 1
  BY <1>1, <1>3
<1>6. \A n \in 0..N : h[n] = f[n]
  BY <1>1, <1>2, <1>4, <1>5, IterationAgrees
<1>7. h[N] = f[N] /\ f[N] \in Rows(C)
  BY <1>1, <1>2, <1>6 DEF Iterates
<1>8. h[N + 1] = ApplySteps(C, es)[N + 1][h[N]]
  BY <1>1, <1>5 DEF Iterates
<1>9. ApplySteps(C, es)[N + 1][h[N]] = ApplyOne(h[N], e)
  BY <1>1, <1>7 DEF ApplySteps
<1> QED BY <1>1, <1>2, <1>3, <1>7, <1>8, <1>9 DEF es

(* Deltas of one batch after the other are applied one batch after the other. *)
LEMMA AppliedConcat ==
  ASSUME NEW C, NEW R \in Rows(C), NEW ds \in Seq(DeltaOf(C)), NEW es \in Seq(DeltaOf(C))
  PROVE  Applied(R, ds \o es) = Applied(Applied(R, ds), es)
<1> DEFINE D == DeltaOf(C)
           P == {s \in Seq(D) : Applied(R, ds \o s) = Applied(Applied(R, ds), s)}
<1>1. Applied(R, ds) \in Rows(C)
  BY AppliedTyped
<1>2. <<>> \in P
  <2>1. ds \o <<>> = ds /\ <<>> \in Seq(D)
    OBVIOUS
  <2>2. Applied(Applied(R, ds), <<>>) = Applied(R, ds)
    BY <1>1, AppliedNone
  <2> QED BY <2>1, <2>2
<1>3. ASSUME NEW s \in Seq(D), NEW e \in D, s \in P PROVE Append(s, e) \in P
  <2>1. ds \o Append(s, e) = Append(ds \o s, e) /\ ds \o s \in Seq(D) /\ Append(s, e) \in Seq(D)
    OBVIOUS
  <2>2. \A t \in Seq(D) : Applied(R, Append(t, e)) = ApplyOne(Applied(R, t), e)
    BY AppliedOneMore
  <2>3. Applied(Applied(R, ds), Append(s, e)) = ApplyOne(Applied(Applied(R, ds), s), e)
    BY <1>1, AppliedOneMore
  <2> QED BY <1>3, <2>1, <2>2, <2>3
<1> HIDE DEF P
<1>4. Seq(D) \subseteq P
  BY <1>2, <1>3, AppendByAppend
<1> QED BY <1>4 DEF P

-----------------------------------------------------------------------------
(* The filter. *)
SelectOne(q, e) == IF e.c \in Match THEN Append(q, e) ELSE q

Selection == Seq(DeltaOf(Match))
SelectSteps(ds) == [n \in 1..Len(ds) |-> [q \in Selection |-> SelectOne(q, ds[n])]]

(* Selected is what its recursive definition describes. *)
LEMMA SelectedIterates ==
  ASSUME NEW ds \in Seq(Delta)
  PROVE  /\ Steps(SelectSteps(ds), Selection, Len(ds))
         /\ \E f : Iterates(f, SelectSteps(ds), Selection, Len(ds), <<>>) /\ Selected(ds) = f[Len(ds)]
<1> DEFINE N == Len(ds)
           G == SelectSteps(ds)
           Step(f, n) == IF n = 0 THEN <<>>
                         ELSE IF ds[n].c \in Match THEN Append(f[n - 1], ds[n]) ELSE f[n - 1]
           S(f) == f = [n \in 0..N |-> Step(f, n)]
           A == CHOOSE f : S(f)
<1>1. N \in Nat /\ <<>> \in Selection /\ \A n \in 1..N : ds[n] \in Delta
  BY DEF Selection
<1>2. \A n \in 1..N, q \in Selection : SelectOne(q, ds[n]) \in Selection
  <2> TAKE n \in 1..N, q \in Selection
  <2>1. ds[n].c \in Match => ds[n] \in DeltaOf(Match)
    BY <1>1 DEF DeltaOf, Delta
  <2> QED BY <2>1 DEF SelectOne, Selection
<1>3. Steps(G, Selection, N)
  BY <1>2 DEF Steps, SelectSteps
<1>4. \A n \in 1..N, q \in Selection : G[n][q] = SelectOne(q, ds[n])
  BY DEF SelectSteps
<1>5. Selected(ds) = A[N]
  BY DEF Selected
<1>6. \A f : \A n \in 1..N : n \in 0..N /\ n - 1 \in 0..N /\ Step(f, n) = SelectOne(f[n - 1], ds[n])
  BY <1>1 DEF SelectOne
<1>7. \A f : 0 \in 0..N /\ Step(f, 0) = <<>>
  BY <1>1
<1>8. \A n \in 0..N : n = 0 \/ n \in 1..N
  BY <1>1
<1> HIDE DEF G, N, Step
<1>9. PICK g : Iterates(g, G, Selection, N, <<>>)
  BY <1>1, <1>3, IterationExists
<1>10. S(g)
  <2>1. ASSUME NEW n \in 0..N PROVE g[n] = Step(g, n)
    <3>1. CASE n = 0
      BY <1>7, <1>9, <3>1 DEF Iterates
    <3>2. CASE n \in 1..N
      <4>1. g[n - 1] \in Selection /\ g[n] = G[n][g[n - 1]]
        BY <1>6, <1>9, <3>2 DEF Iterates
      <4>2. g[n] = SelectOne(g[n - 1], ds[n])
        BY <1>4, <3>2, <4>1
      <4> QED BY <1>6, <3>2, <4>2
    <3> QED BY <1>8, <3>1, <3>2
  <2> QED BY <1>9, <2>1 DEF Iterates
<1>11. S(A)
  BY <1>10, Zenon
<1> HIDE DEF A
<1>12. A = [n \in 0..N |-> A[n]] /\ A[0] = <<>>
  BY <1>7, <1>11
<1>13. ASSUME NEW n \in 1..N, A[n - 1] \in Selection PROVE A[n] = G[n][A[n - 1]]
  <2>1. A[n] = Step(A, n)
    BY <1>6, <1>11
  <2>2. A[n] = SelectOne(A[n - 1], ds[n])
    BY <1>6, <2>1
  <2> QED BY <1>4, <1>13, <2>2
<1>14. Iterates(A, G, Selection, N, <<>>)
  BY <1>1, <1>3, <1>12, <1>13, IterationIs
<1> QED BY <1>3, <1>5, <1>14 DEF N, G

LEMMA SelectedTyped ==
  ASSUME NEW ds \in Seq(Delta)
  PROVE  Selected(ds) \in Seq(DeltaOf(Match))
<1>1. PICK f : Iterates(f, SelectSteps(ds), Selection, Len(ds), <<>>) /\ Selected(ds) = f[Len(ds)]
  BY SelectedIterates
<1> QED BY <1>1 DEF Iterates, Selection

LEMMA SelectedNone == Selected(<<>>) = <<>>
<1>1. <<>> \in Seq(Delta) /\ Len(<<>>) = 0
  OBVIOUS
<1>2. PICK f : Iterates(f, SelectSteps(<<>>), Selection, Len(<<>>), <<>>) /\ Selected(<<>>) = f[Len(<<>>)]
  BY <1>1, SelectedIterates
<1> QED BY <1>1, <1>2 DEF Iterates

LEMMA SelectedOneMore ==
  ASSUME NEW ds \in Seq(Delta), NEW e \in Delta
  PROVE  Selected(Append(ds, e)) = SelectOne(Selected(ds), e)
<1> DEFINE es == Append(ds, e)
           N == Len(ds)
<1>1. /\ es \in Seq(Delta) /\ N \in Nat /\ Len(es) = N + 1 /\ es[N + 1] = e
      /\ \A n \in 1..N : es[n] = ds[n]
  OBVIOUS
<1> HIDE DEF es, N
<1>2. PICK f : Iterates(f, SelectSteps(ds), Selection, N, <<>>) /\ Selected(ds) = f[N]
  BY SelectedIterates DEF N
<1>3. PICK h : Iterates(h, SelectSteps(es), Selection, Len(es), <<>>) /\ Selected(es) = h[Len(es)]
  BY <1>1, SelectedIterates
<1>4. SameSteps(SelectSteps(ds), SelectSteps(es), Selection, N)
  BY <1>1 DEF SameSteps, SelectSteps, N
<1>5. Iterates(h, SelectSteps(es), Selection, N + 1, <<>>) /\ N + 1 \in Nat /\ N <= N + 1
  BY <1>1, <1>3
<1>6. \A n \in 0..N : h[n] = f[n]
  BY <1>1, <1>2, <1>4, <1>5, IterationAgrees
<1>7. h[N] = f[N] /\ f[N] \in Selection
  BY <1>1, <1>2, <1>6 DEF Iterates
<1>8. h[N + 1] = SelectSteps(es)[N + 1][h[N]]
  BY <1>1, <1>5 DEF Iterates
<1>9. SelectSteps(es)[N + 1][h[N]] = SelectOne(h[N], e)
  BY <1>1, <1>7 DEF SelectSteps
<1> QED BY <1>1, <1>2, <1>3, <1>7, <1>8, <1>9 DEF es

LEMMA SelectedConcat ==
  ASSUME NEW ds \in Seq(Delta), NEW es \in Seq(Delta)
  PROVE  Selected(ds \o es) = Selected(ds) \o Selected(es)
<1> DEFINE M == DeltaOf(Match)
           P == {s \in Seq(Delta) : Selected(ds \o s) = Selected(ds) \o Selected(s)}
<1>1. Selected(ds) \in Seq(M)
  BY SelectedTyped
<1>2. <<>> \in P
  <2>1. ds \o <<>> = ds /\ Selected(ds) \o <<>> = Selected(ds) /\ <<>> \in Seq(Delta)
    BY <1>1
  <2> QED BY <2>1, SelectedNone
<1>3. ASSUME NEW s \in Seq(Delta), NEW e \in Delta, s \in P PROVE Append(s, e) \in P
  <2>1. ds \o Append(s, e) = Append(ds \o s, e) /\ ds \o s \in Seq(Delta) /\ Append(s, e) \in Seq(Delta)
    OBVIOUS
  <2>2. \A t \in Seq(Delta) : Selected(Append(t, e)) = SelectOne(Selected(t), e)
    BY SelectedOneMore
  <2>3. Selected(s) \in Seq(M) /\ Selected(ds \o s) = Selected(ds) \o Selected(s)
    BY <1>3, SelectedTyped
  <2>4. CASE e.c \in Match
    <3>1. e \in M
      BY <2>4 DEF Delta, DeltaOf
    <3>2. \A x, y \in Seq(M), z \in M : x \o Append(y, z) = Append(x \o y, z)
      OBVIOUS
    <3>3. Append(Selected(ds) \o Selected(s), e) = Selected(ds) \o Append(Selected(s), e)
      BY <1>1, <2>3, <3>1, <3>2, Zenon
    <3> QED BY <2>1, <2>2, <2>3, <2>4, <3>3 DEF SelectOne
  <2>5. CASE e.c \notin Match
    BY <2>1, <2>2, <2>3, <2>5 DEF SelectOne
  <2> QED BY <2>4, <2>5
<1> HIDE DEF P
<1>4. Seq(Delta) \subseteq P
  BY <1>2, <1>3, AppendByAppend
<1> QED BY <1>4 DEF P

-----------------------------------------------------------------------------
(* The journal, replayed from any rows. *)
Back(R, es) ==
  LET f[n \in 0..Len(es)] == IF n = 0 THEN R ELSE Undo(f[n - 1], es[Len(es) - n + 1])
  IN  f[Len(es)]

LEMMA RestoredIsBack == \A es : Restored(es) = Back(store, es)
BY DEF Restored, Back

UndoSteps(es) == [n \in 1..Len(es) |-> [T \in Rows(Content) |-> Undo(T, es[Len(es) - n + 1])]]

LEMMA UndoTyped ==
  ASSUME NEW R \in Rows(Content), NEW e \in Change
  PROVE  Undo(R, e) \in Rows(Content)
<1>1. e.id \in RowId /\ (e.old = Gone \/ e.old \in Content)
  BY DEF Change
<1>2. Drop(R, {e.id}) \in Rows(Content)
  <2>1. DOMAIN R \subseteq RowId /\ R \in [DOMAIN R -> Content]
    BY RowsMeans
  <2>2. /\ DOMAIN Drop(R, {e.id}) \subseteq RowId
        /\ Drop(R, {e.id}) \in [DOMAIN Drop(R, {e.id}) -> Content]
    BY <2>1 DEF Drop
  <2> QED BY <2>2, RowsMeans
<1>3. e.old # Gone => Put(R, e.id, e.old) \in Rows(Content)
  BY <1>1, RowsWritten
<1> QED BY <1>2, <1>3 DEF Undo

(* Back is what its recursive definition describes. *)
LEMMA BackIterates ==
  ASSUME NEW R \in Rows(Content), NEW es \in Seq(Change)
  PROVE  /\ Steps(UndoSteps(es), Rows(Content), Len(es))
         /\ \E f : Iterates(f, UndoSteps(es), Rows(Content), Len(es), R) /\ Back(R, es) = f[Len(es)]
<1> DEFINE N == Len(es)
           G == UndoSteps(es)
           Step(f, n) == IF n = 0 THEN R ELSE Undo(f[n - 1], es[N - n + 1])
           S(f) == f = [n \in 0..N |-> Step(f, n)]
           A == CHOOSE f : S(f)
<1>1. N \in Nat /\ \A n \in 1..N : es[N - n + 1] \in Change
  <2>1. N \in Nat /\ \A n \in 1..N : es[n] \in Change
    OBVIOUS
  <2>2. \A n \in 1..N : N - n + 1 \in 1..N
    BY <2>1
  <2> QED BY <2>1, <2>2
<1>2. \A n \in 1..N, T \in Rows(Content) : Undo(T, es[N - n + 1]) \in Rows(Content)
  BY <1>1, UndoTyped
<1>3. Steps(G, Rows(Content), N)
  BY <1>2 DEF Steps, UndoSteps
<1>4. \A n \in 1..N, T \in Rows(Content) : G[n][T] = Undo(T, es[N - n + 1])
  BY DEF UndoSteps
<1>5. Back(R, es) = A[N]
  BY DEF Back
<1>6. \A f : \A n \in 1..N : n \in 0..N /\ n - 1 \in 0..N /\ Step(f, n) = Undo(f[n - 1], es[N - n + 1])
  BY <1>1
<1>7. \A f : 0 \in 0..N /\ Step(f, 0) = R
  BY <1>1
<1>8. \A n \in 0..N : n = 0 \/ n \in 1..N
  BY <1>1
<1> HIDE DEF G, N, Step
<1>9. PICK g : Iterates(g, G, Rows(Content), N, R)
  BY <1>1, <1>3, IterationExists
<1>10. S(g)
  <2>1. ASSUME NEW n \in 0..N PROVE g[n] = Step(g, n)
    <3>1. CASE n = 0
      BY <1>7, <1>9, <3>1 DEF Iterates
    <3>2. CASE n \in 1..N
      <4>1. g[n - 1] \in Rows(Content) /\ g[n] = G[n][g[n - 1]]
        BY <1>6, <1>9, <3>2 DEF Iterates
      <4>2. g[n] = Undo(g[n - 1], es[N - n + 1])
        BY <1>4, <3>2, <4>1
      <4> QED BY <1>6, <3>2, <4>2
    <3> QED BY <1>8, <3>1, <3>2
  <2> QED BY <1>9, <2>1 DEF Iterates
<1>11. S(A)
  BY <1>10, Zenon
<1> HIDE DEF A
<1>12. A = [n \in 0..N |-> A[n]] /\ A[0] = R
  BY <1>7, <1>11
<1>13. ASSUME NEW n \in 1..N, A[n - 1] \in Rows(Content) PROVE A[n] = G[n][A[n - 1]]
  <2>1. A[n] = Step(A, n)
    BY <1>6, <1>11
  <2>2. A[n] = Undo(A[n - 1], es[N - n + 1])
    BY <1>6, <2>1
  <2> QED BY <1>4, <1>13, <2>2
<1>14. Iterates(A, G, Rows(Content), N, R)
  BY <1>1, <1>3, <1>12, <1>13, IterationIs
<1> QED BY <1>3, <1>5, <1>14 DEF N, G

LEMMA BackTyped ==
  ASSUME NEW R \in Rows(Content), NEW es \in Seq(Change)
  PROVE  Back(R, es) \in Rows(Content)
<1>1. PICK f : Iterates(f, UndoSteps(es), Rows(Content), Len(es), R) /\ Back(R, es) = f[Len(es)]
  BY BackIterates
<1> QED BY <1>1 DEF Iterates

LEMMA BackNone ==
  ASSUME NEW R \in Rows(Content)
  PROVE  Back(R, <<>>) = R
<1>1. <<>> \in Seq(Change) /\ Len(<<>>) = 0
  OBVIOUS
<1>2. PICK f : Iterates(f, UndoSteps(<<>>), Rows(Content), Len(<<>>), R) /\ Back(R, <<>>) = f[Len(<<>>)]
  BY <1>1, BackIterates
<1> QED BY <1>1, <1>2 DEF Iterates

(* The newest entry is undone first. *)
LEMMA BackNewestFirst ==
  ASSUME NEW R \in Rows(Content), NEW es \in Seq(Change), NEW e \in Change
  PROVE  Back(R, Append(es, e)) = Back(Undo(R, e), es)
<1> DEFINE fs == Append(es, e)
           N == Len(es)
           U == Undo(R, e)
<1>1. /\ fs \in Seq(Change) /\ N \in Nat /\ Len(fs) = N + 1 /\ fs[N + 1] = e
      /\ \A n \in 1..N : fs[n] = es[n]
  OBVIOUS
<1>2. U \in Rows(Content)
  BY UndoTyped
<1> HIDE DEF fs, N, U
<1>3. PICK f : Iterates(f, UndoSteps(es), Rows(Content), N, U) /\ Back(U, es) = f[N]
  BY <1>2, BackIterates DEF N
<1>4. PICK h : Iterates(h, UndoSteps(fs), Rows(Content), N + 1, R) /\ Back(R, fs) = h[N + 1]
  BY <1>1, BackIterates
<1>5. \A n \in 1..(N + 1) : h[n - 1] \in Rows(Content) /\ h[n] \in Rows(Content) /\ h[n] = Undo(h[n - 1], fs[(N + 1) - n + 1])
  <2> TAKE n \in 1..(N + 1)
  <2>1. n - 1 \in 0..(N + 1) /\ n \in 0..(N + 1)
    BY <1>1
  <2>2. h[n - 1] \in Rows(Content) /\ h[n] \in Rows(Content) /\ h[n] = UndoSteps(fs)[n][h[n - 1]]
    BY <1>4, <2>1 DEF Iterates
  <2> QED BY <1>1, <2>2 DEF UndoSteps
<1> DEFINE k == [n \in 0..N |-> h[n + 1]]
<1>6. k = [n \in 0..N |-> k[n]] /\ N \in 0..N /\ k[N] = h[N + 1]
  BY <1>1
<1>7. k[0] = U
  <2>1. h[1] = Undo(h[0], fs[N + 1])
    BY <1>1, <1>5
  <2>2. h[0] = R
    BY <1>4 DEF Iterates
  <2> QED BY <1>1, <2>1, <2>2 DEF U
<1>8. ASSUME NEW n \in 1..N, k[n - 1] \in Rows(Content) PROVE k[n] = UndoSteps(es)[n][k[n - 1]]
  <2>1. n + 1 \in 1..(N + 1) /\ (N + 1) - (n + 1) + 1 = N - n + 1 /\ N - n + 1 \in 1..N
    BY <1>1
  <2>2. h[n + 1] = Undo(h[n], es[N - n + 1])
    BY <1>1, <1>5, <2>1
  <2>3. k[n] = h[n + 1] /\ k[n - 1] = h[n]
    BY <1>1
  <2> QED BY <1>8, <2>2, <2>3 DEF UndoSteps, N
<1> HIDE DEF k
<1>9. Steps(UndoSteps(es), Rows(Content), N)
  BY <1>2, BackIterates DEF N
<1>10. Iterates(k, UndoSteps(es), Rows(Content), N, U)
  BY <1>1, <1>2, <1>6, <1>7, <1>8, <1>9, IterationIs
<1>11. SameSteps(UndoSteps(es), UndoSteps(es), Rows(Content), N)
  BY DEF SameSteps
<1>12. \A n \in 0..N : k[n] = f[n]
  <2>1. PICK M \in Nat : M = N
    BY <1>1
  <2>2. Iterates(k, UndoSteps(es), Rows(Content), M, U) /\ N <= M
    BY <1>1, <1>10, <2>1
  <2> QED BY <1>1, <1>3, <1>11, <2>2, IterationAgrees
<1> QED BY <1>3, <1>4, <1>6, <1>12 DEF fs, U

-----------------------------------------------------------------------------
(* Types. *)
RegistryTyped ==
  /\ pendingIds \subseteq RowId /\ pendingDeltas \in Seq(Delta)
  /\ scheduled \in BOOLEAN /\ queued \in 0..MaxQueued

TxTyped ==
  /\ tx.open \in BOOLEAN /\ tx.ids \subseteq RowId
  /\ tx.deltas \in Seq(Delta) /\ tx.journal \in Seq(Change)

ViewTyped == \A v \in View : view[v].result \in Rows(Match)

RestTyped == nextId \in Nat /\ crashed \in BOOLEAN /\ lost \subseteq RowId

LEMMA TypeParts ==
  TypeOK <=> store \in Rows(Content) /\ RegistryTyped /\ TxTyped /\ ViewTyped /\ RestTyped
BY RowsMeans DEF TypeOK, RegistryTyped, TxTyped, ViewTyped, RestTyped

LEMMA NoRows == \A C : Nothing \in Rows(C) /\ DOMAIN Nothing = {}
<1> SUFFICES ASSUME NEW C PROVE Nothing \in Rows(C) /\ DOMAIN Nothing = {}
  OBVIOUS
<1>1. DOMAIN Nothing = {} /\ Nothing \in [DOMAIN Nothing -> C]
  BY DEF Nothing
<1> QED BY <1>1, RowsMeans

LEMMA QueryTyped ==
  ASSUME NEW S \in Rows(Content)
  PROVE  Query(S) \in Rows(Match)
<1>1. DOMAIN S \subseteq RowId /\ S \in [DOMAIN S -> Content]
  BY RowsMeans
<1>2. DOMAIN Query(S) \subseteq RowId /\ Query(S) \in [DOMAIN Query(S) -> Match]
  BY <1>1 DEF Query
<1> QED BY <1>2, RowsMeans

LEMMA DeltasTyped ==
  ASSUME store \in Rows(Content), NEW id \in RowId, NEW to \in Content \cup {Gone}
  PROVE  DeltasOf(id, to) \in Seq(Delta)
<1>1. id \in DOMAIN store => store[id] \in Content
  BY RowsMeans
<1>2. id \in DOMAIN store => [id |-> id, c |-> store[id], d |-> -1] \in Delta
  BY <1>1 DEF Delta
<1>3. to # Gone => [id |-> id, c |-> to, d |-> 1] \in Delta
  BY DEF Delta
<1>4. (IF id \in DOMAIN store THEN <<[id |-> id, c |-> store[id], d |-> -1]>> ELSE <<>>) \in Seq(Delta)
  BY <1>2
<1>5. (IF to # Gone THEN <<[id |-> id, c |-> to, d |-> 1]>> ELSE <<>>) \in Seq(Delta)
  BY <1>3
<1> QED BY <1>4, <1>5 DEF DeltasOf

LEMMA RowChangeTyped ==
  ASSUME store \in Rows(Content), nextId \in Nat, NEW id \in RowId, NEW to \in Content \cup {Gone},
         RowChange(id, to)
  PROVE  store' \in Rows(Content) /\ nextId' \in Nat
<1>1. Drop(store, {id}) \in Rows(Content)
  <2>1. DOMAIN store \subseteq RowId /\ store \in [DOMAIN store -> Content]
    BY RowsMeans
  <2>2. /\ DOMAIN Drop(store, {id}) \subseteq RowId
        /\ Drop(store, {id}) \in [DOMAIN Drop(store, {id}) -> Content]
    BY <2>1 DEF Drop
  <2> QED BY <2>2, RowsMeans
<1>2. to # Gone => Put(store, id, to) \in Rows(Content)
  BY RowsWritten
<1> QED BY <1>1, <1>2 DEF RowChange, Become

(* What a flush makes of each handle. *)
SnapshotResult(v, S, ids) ==
  IF v \in Patched THEN PatchedResult(view[v], S, ids)
  ELSE IF ids = {} THEN view[v].result ELSE Query(S)

Told(v, ds) ==
  [p \in DOMAIN view[v].client |-> view[v].client[p] + Occurrences(ds, p, 1) - Occurrences(ds, p, -1)]

LEMMA FlushTraced ==
  ASSUME NEW S, NEW ids, NEW ds, Flush(S, ids, ds), NEW v \in View, Watched(v), v \in Traced
  PROVE  view'[v] = OnDeltas(view[v], Selected(ds))
<1>1. view'[v] = Flushed(v, S, ids, ds)
  BY DEF Flush
<1> QED BY <1>1, HandleAssumption DEF Flushed

LEMMA FlushFields ==
  ASSUME Shape, NEW S, NEW ids, NEW ds, Flush(S, ids, ds), NEW v \in View
  PROVE  /\ view'[v].subscribed = view[v].subscribed
         /\ ~Watched(v) => /\ view'[v].registered = FALSE
                           /\ view'[v].result = view[v].result /\ view'[v].client = view[v].client
         /\ Watched(v) => view'[v].registered = view[v].registered
         /\ Watched(v) /\ v \in Traced =>
              /\ view'[v].result = Applied(view[v].result, Selected(ds))
              /\ view'[v].client = Told(v, Selected(ds))
         /\ Watched(v) /\ v \notin Traced =>
              /\ view'[v].result = SnapshotResult(v, S, ids)
              /\ view'[v].client = IF view'[v].result = view[v].result THEN view[v].client
                                   ELSE Counts(view'[v].result)
<1>1. DOMAIN view[v] = HandleFields /\ view'[v] = Flushed(v, S, ids, ds)
  BY DEF Flush, Shape
<1>2. CASE ~Watched(v)
  <2>1. view'[v] = [view[v] EXCEPT !.registered = FALSE]
    BY <1>1, <1>2 DEF Flushed
  <2> QED BY <1>1, <1>2, <2>1 DEF HandleFields
<1>3. CASE Watched(v) /\ v \in Traced
  <2>1. view'[v] = OnDeltas(view[v], Selected(ds))
    BY <1>3, FlushTraced
  <2> QED BY <1>1, <1>3, <2>1 DEF HandleFields, OnDeltas, Told
<1>4. CASE Watched(v) /\ v \notin Traced
  <2> DEFINE R == SnapshotResult(v, S, ids)
  <2>1. view'[v] = Refreshed(view[v], R)
    BY <1>1, <1>4, HandleAssumption DEF Flushed, View, SnapshotResult
  <2> HIDE DEF R
  <2>2. /\ view'[v].subscribed = view[v].subscribed
        /\ view'[v].registered = view[v].registered
        /\ view'[v].result = R
        /\ view'[v].client = IF R = view[v].result THEN view[v].client ELSE Counts(R)
    BY <1>1, <2>1 DEF HandleFields, Refreshed
  <2> QED BY <1>4, <2>2 DEF R
<1> QED BY <1>2, <1>3, <1>4

LEMMA FlushTyped ==
  ASSUME Shape, ViewTyped, NEW S \in Rows(Content), NEW ids, NEW ds \in Seq(Delta), Flush(S, ids, ds)
  PROVE  ViewTyped'
<1> SUFFICES ASSUME NEW v \in View PROVE view'[v].result \in Rows(Match)
  BY DEF ViewTyped
<1>1. view[v].result \in Rows(Match)
  BY DEF ViewTyped
<1>2. CASE ~Watched(v)
  BY <1>1, <1>2, FlushFields
<1>3. CASE Watched(v) /\ v \in Traced
  <2>1. view'[v].result = Applied(view[v].result, Selected(ds))
    BY <1>3, FlushFields
  <2> QED BY <1>1, <2>1, SelectedTyped, AppliedTyped
<1>4. CASE Watched(v) /\ v \notin Traced
  <2>1. view'[v].result = SnapshotResult(v, S, ids)
    BY <1>4, FlushFields
  <2>2. Query(S) \in Rows(Match)
    BY QueryTyped
  <2>3. PatchedResult(view[v], S, ids) \in Rows(Match)
    <3> DEFINE P == PatchedResult(view[v], S, ids)
    <3>1. /\ DOMAIN view[v].result \subseteq RowId /\ view[v].result \in [DOMAIN view[v].result -> Match]
          /\ DOMAIN Query(S) \subseteq RowId /\ Query(S) \in [DOMAIN Query(S) -> Match]
      BY <1>1, <2>2, RowsMeans
    <3>2. \A x \in DOMAIN Query(S) : Query(S)[x] = S[x]
      BY DEF Query
    <3>3. DOMAIN P \subseteq RowId /\ P \in [DOMAIN P -> Match]
      BY <3>1, <3>2 DEF PatchedResult
    <3> QED BY <3>3, RowsMeans
  <2> QED BY <1>1, <2>1, <2>2, <2>3 DEF SnapshotResult
<1> QED BY <1>2, <1>3, <1>4

LEMMA FlushRegistryTyped ==
  ASSUME NEW S, NEW ids, NEW ds, Flush(S, ids, ds), queued' \in 0..MaxQueued
  PROVE  RegistryTyped'
<1>1. pendingIds' = {} /\ pendingDeltas' = <<>> /\ scheduled' = FALSE
  BY DEF Flush
<1>2. <<>> \in Seq(Delta)
  OBVIOUS
<1> QED BY <1>1, <1>2 DEF RegistryTyped

LEMMA AnnounceTyped ==
  ASSUME RegistryTyped, NEW ids \in SUBSET RowId, NEW ds \in Seq(Delta), CanAnnounce(ds), Announce(ids, ds)
  PROVE  RegistryTyped'
<1>1. pendingIds' \subseteq RowId /\ pendingDeltas' \in Seq(Delta) /\ scheduled' \in BOOLEAN
  BY DEF RegistryTyped, Announce
<1>2. queued' \in 0..MaxQueued
  BY BoundAssumption DEF RegistryTyped, Announce, CanAnnounce
<1> QED BY <1>1, <1>2 DEF RegistryTyped

LEMMA NoTxTyped == NoTx.open = FALSE /\ NoTx.ids = {} /\ NoTx.deltas = <<>> /\ NoTx.journal = <<>>
                   /\ (tx' = NoTx => TxTyped')
<1>1. NoTx.open = FALSE /\ NoTx.ids = {} /\ NoTx.deltas = <<>> /\ NoTx.journal = <<>>
  BY DEF NoTx
<1>2. <<>> \in Seq(Delta) /\ <<>> \in Seq(Change)
  OBVIOUS
<1> QED BY <1>1, <1>2 DEF TxTyped

(* A statement's entry in the journal, and what it leaves of the transaction. *)
LEMMA TxWriteFields ==
  ASSUME Shape, TxTyped, store \in Rows(Content), NEW id \in RowId, NEW to \in Content \cup {Gone}, NEW fails,
         TxWrite(id, to, fails)
  PROVE  LET entry == [id |-> id, old |-> At(store, id), new |-> to]
         IN  /\ entry \in Change
             /\ tx'.open = tx.open /\ tx'.journal = Append(tx.journal, entry)
             /\ fails => tx'.ids = tx.ids /\ tx'.deltas = tx.deltas /\ lost' = lost \cup {id}
             /\ ~fails => tx'.ids = tx.ids \cup {id} /\ tx'.deltas = tx.deltas \o DeltasOf(id, to) /\ lost' = lost
<1> DEFINE entry == [id |-> id, old |-> At(store, id), new |-> to]
<1>1. entry \in Change
  <2>1. At(store, id) \in Content \cup {Gone}
    BY RowsMeans DEF At
  <2> QED BY <2>1 DEF Change
<1>2. CASE fails
  <2>1. tx' = [tx EXCEPT !.journal = Append(@, entry)] /\ lost' = lost \cup {id}
    BY <1>2 DEF TxWrite
  <2> HIDE DEF entry
  <2>2. tx'.open = tx.open /\ tx'.journal = Append(tx.journal, entry) /\ tx'.ids = tx.ids /\ tx'.deltas = tx.deltas
    BY <2>1 DEF Shape
  <2> QED BY <1>1, <1>2, <2>1, <2>2 DEF entry
<1>3. CASE ~fails
  <2> DEFINE ds == DeltasOf(id, to)
  <2>1. tx' = [tx EXCEPT !.journal = Append(@, entry), !.ids = @ \cup {id}, !.deltas = @ \o ds] /\ lost' = lost
    BY <1>3 DEF TxWrite
  <2> HIDE DEF entry, ds
  <2>2. /\ tx'.open = tx.open /\ tx'.journal = Append(tx.journal, entry) /\ tx'.ids = tx.ids \cup {id}
        /\ tx'.deltas = tx.deltas \o ds
    BY <2>1 DEF Shape
  <2> QED BY <1>1, <1>3, <2>1, <2>2 DEF entry, ds
<1> QED BY <1>2, <1>3

(* What a handle is changed to by the client's own calls. *)
LEMMA OpenFields ==
  ASSUME Shape, NEW u \in View, Open(u)
  PROVE  /\ view'[u].registered /\ ~view'[u].subscribed /\ view'[u].result = Query(store)
         /\ \A v \in View \ {u} : view'[v] = view[v]
<1>1. view' = [view EXCEPT ![u] = [Unused EXCEPT !.opened = TRUE, !.registered = TRUE, !.result = Query(store)]]
  BY DEF Open
<1> QED BY <1>1 DEF Shape, Unused

LEMMA SubscribeFields ==
  ASSUME Shape, NEW u \in View, Subscribe(u) \/ Unsubscribe(u)
  PROVE  /\ \A v \in View : view'[v].registered = view[v].registered /\ view'[v].result = view[v].result
         /\ \A v \in View \ {u} : view'[v] = view[v]
         /\ Subscribe(u) => view'[u].client = Counts(view[u].result)
         /\ Unsubscribe(u) => ~view'[u].subscribed
<1>1. CASE Subscribe(u)
  <2>1. view' = [view EXCEPT ![u].subscribed = TRUE, ![u].client = Counts(view[u].result)] /\ ~view[u].subscribed
    BY <1>1 DEF Subscribe
  <2>2. ~Unsubscribe(u)
    BY <2>1 DEF Unsubscribe
  <2> QED BY <2>1, <2>2 DEF Shape, HandleFields
<1>2. CASE Unsubscribe(u)
  <2>1. view' = [view EXCEPT ![u].subscribed = FALSE, ![u].client = Counts(Nothing)] /\ view[u].subscribed
    BY <1>2 DEF Unsubscribe
  <2>2. ~Subscribe(u)
    BY <2>1 DEF Subscribe
  <2> QED BY <2>1, <2>2 DEF Shape, HandleFields
<1> QED BY <1>1, <1>2

LEMMA TypeInit == Init => TypeOK
<1> SUFFICES ASSUME Init PROVE TypeOK
  OBVIOUS
<1>1. store \in Rows(Content)
  BY NoRows DEF Init
<1>2. <<>> \in Seq(Delta)
  OBVIOUS
<1>3. RegistryTyped /\ RestTyped
  <2>1. pendingDeltas \in Seq(Delta)
    BY <1>2 DEF Init
  <2>2. queued \in 0..MaxQueued
    BY BoundAssumption DEF Init
  <2> QED BY <2>1, <2>2 DEF Init, RegistryTyped, RestTyped
<1>4. TxTyped
  <2>1. <<>> \in Seq(Delta) /\ <<>> \in Seq(Change)
    OBVIOUS
  <2> QED BY <2>1, NoTxTyped DEF Init, TxTyped
<1>5. ViewTyped
  <2>1. \A v \in View : view[v].result = Nothing
    BY DEF Init, Unused
  <2> QED BY <2>1, NoRows DEF ViewTyped
<1> QED BY <1>1, <1>3, <1>4, <1>5, TypeParts

LEMMA TypeStep == TypeOK /\ Shape /\ [Next]_vars => TypeOK'
<1> SUFFICES ASSUME TypeOK, Shape, [Next]_vars PROVE TypeOK'
  OBVIOUS
<1> store \in Rows(Content) /\ RegistryTyped /\ TxTyped /\ ViewTyped /\ RestTyped
  BY TypeParts
<1>goal. ASSUME store' \in Rows(Content), RegistryTyped', TxTyped', ViewTyped', RestTyped' PROVE TypeOK'
  BY <1>goal, RowsMeans DEF TypeOK, RegistryTyped, TxTyped, ViewTyped, RestTyped
<1>reg. ASSUME UNCHANGED registry PROVE RegistryTyped'
  BY <1>reg DEF registry, RegistryTyped
<1>tx. ASSUME UNCHANGED tx PROVE TxTyped'
  BY <1>tx DEF TxTyped
<1>view. ASSUME UNCHANGED view PROVE ViewTyped'
  BY <1>view DEF ViewTyped
<1>1. ASSUME NEW id \in RowId, NEW to \in Content \cup {Gone}, DirectWrite(id, to) PROVE TypeOK'
  <2>1. /\ RowChange(id, to) /\ CanAnnounce(DeltasOf(id, to)) /\ Announce({id}, DeltasOf(id, to))
        /\ UNCHANGED <<tx, view, crashed>> /\ lost' = lost \ {id}
    BY <1>1 DEF DirectWrite
  <2>2. store' \in Rows(Content) /\ RestTyped'
    BY <2>1, RowChangeTyped DEF RestTyped
  <2>3. RegistryTyped'
    BY <2>1, DeltasTyped, AnnounceTyped
  <2> QED BY <2>1, <2>2, <2>3, <1>goal, <1>tx, <1>view
<1>2. ASSUME NEW id \in RowId, NEW to \in Content \cup {Gone}, QuietWrite(id, to) \/ FailingWrite(id, to) PROVE TypeOK'
  <2>1. RowChange(id, to) /\ UNCHANGED <<registry, tx, view, crashed>> /\ lost' \in {lost, lost \cup {id}}
    BY <1>2 DEF QuietWrite, FailingWrite
  <2>2. store' \in Rows(Content) /\ RestTyped'
    BY <2>1, RowChangeTyped DEF RestTyped
  <2> QED BY <2>1, <2>2, <1>goal, <1>reg, <1>tx, <1>view
<1>3. ASSUME NEW id \in RowId, NEW to \in Content \cup {Gone}, NEW fails \in BOOLEAN, TxWrite(id, to, fails)
      PROVE TypeOK'
  <2>1. RowChange(id, to) /\ UNCHANGED <<registry, view, crashed>>
    BY <1>3 DEF TxWrite
  <2>2. lost' \in {lost, lost \cup {id}} /\ TxTyped'
    <3> DEFINE entry == [id |-> id, old |-> At(store, id), new |-> to]
    <3>1. /\ entry \in Change
          /\ tx'.open = tx.open /\ tx'.journal = Append(tx.journal, entry)
          /\ fails => tx'.ids = tx.ids /\ tx'.deltas = tx.deltas /\ lost' = lost \cup {id}
          /\ ~fails => tx'.ids = tx.ids \cup {id} /\ tx'.deltas = tx.deltas \o DeltasOf(id, to) /\ lost' = lost
      BY <1>3, TxWriteFields
    <3> HIDE DEF entry
    <3>2. tx'.journal \in Seq(Change) /\ tx'.open \in BOOLEAN
      BY <3>1 DEF TxTyped
    <3>3. DeltasOf(id, to) \in Seq(Delta)
      BY DeltasTyped
    <3>4. tx'.ids \subseteq RowId /\ lost' \in {lost, lost \cup {id}}
      BY <3>1 DEF TxTyped
    <3>5. tx'.deltas \in Seq(Delta)
      <4>1. CASE fails
        BY <3>1, <4>1 DEF TxTyped
      <4>2. CASE ~fails
        <5>1. tx'.deltas = tx.deltas \o DeltasOf(id, to) /\ tx.deltas \in Seq(Delta)
          BY <3>1, <4>2 DEF TxTyped
        <5>2. \A x, y \in Seq(Delta) : x \o y \in Seq(Delta)
          OBVIOUS
        <5> QED BY <3>3, <5>1, <5>2, Zenon
      <4> QED BY <4>1, <4>2
    <3> QED BY <3>2, <3>4, <3>5 DEF TxTyped
  <2>3. store' \in Rows(Content) /\ RestTyped'
    BY <2>1, <2>2, RowChangeTyped DEF RestTyped
  <2> QED BY <2>1, <2>2, <2>3, <1>goal, <1>reg, <1>view
<1>4. ASSUME Clear PROVE TypeOK'
  <2>1. UNCHANGED <<nextId, registry, tx, view, crashed>> /\ store' = Nothing /\ lost' = lost \cup DOMAIN store
    BY <1>4 DEF Clear
  <2>2. store' \in Rows(Content) /\ RestTyped'
    BY <2>1, NoRows, RowsMeans DEF RestTyped
  <2> QED BY <2>1, <2>2, <1>goal, <1>reg, <1>tx, <1>view
<1>5. ASSUME Begin PROVE TypeOK'
  <2>1. UNCHANGED <<store, nextId, registry, view, crashed, lost>>
    BY <1>5 DEF Begin
  <2>2. TxTyped'
    <3>1. tx'.open = TRUE /\ tx'.ids = {} /\ tx'.deltas = <<>> /\ tx'.journal = <<>>
      BY <1>5 DEF Begin, NoTx
    <3>2. <<>> \in Seq(Delta) /\ <<>> \in Seq(Change)
      OBVIOUS
    <3> QED BY <3>1, <3>2 DEF TxTyped
  <2>3. RestTyped'
    BY <2>1 DEF RestTyped
  <2> QED BY <2>1, <2>2, <2>3, <1>goal, <1>reg, <1>view
<1>after. QueuedAfterFlush <= MaxQueued => QueuedAfterFlush \in 0..MaxQueued
  BY BoundAssumption DEF QueuedAfterFlush, RegistryTyped
<1>6. ASSUME Commit PROVE TypeOK'
  <2>1. UNCHANGED <<store, nextId, crashed>> /\ tx' = NoTx /\ lost' = lost \ tx.ids /\ QueuedAfterFlush <= MaxQueued
    BY <1>6 DEF Commit
  <2>2. TxTyped' /\ RestTyped'
    BY <2>1, NoTxTyped DEF RestTyped
  <2>3. RegistryTyped' /\ ViewTyped'
    <3>1. CASE HasPending
      <4>1. /\ Flush(store, pendingIds \cup tx.ids, pendingDeltas \o tx.deltas)
            /\ queued' = QueuedAfterFlush
        BY <1>6, <3>1 DEF Commit
      <4>2. pendingDeltas \o tx.deltas \in Seq(Delta)
        BY DEF RegistryTyped, TxTyped
      <4> QED BY <1>after, <2>1, <4>1, <4>2, FlushTyped, FlushRegistryTyped
    <3>2. CASE ~HasPending
      BY <1>6, <3>2, <1>reg, <1>view DEF Commit
    <3> QED BY <3>1, <3>2
  <2> QED BY <2>1, <2>2, <2>3, <1>goal
<1>7. ASSUME Rollback PROVE TypeOK'
  <2>1. /\ UNCHANGED nextId /\ tx' = NoTx /\ store' = Restored(tx.journal)
        /\ lost' = (lost \ tx.ids) \cup Unannounced /\ QueuedAfterFlush <= MaxQueued /\ crashed' \in BOOLEAN
    BY <1>7 DEF Rollback, RestTyped
  <2>2. store' \in Rows(Content)
    BY <2>1, RestoredIsBack, BackTyped DEF TxTyped
  <2>3. TxTyped' /\ RestTyped'
    BY <2>1, NoTxTyped DEF RestTyped, Unannounced
  <2>4. RegistryTyped' /\ ViewTyped'
    <3>1. CASE HasPending /\ ~RollbackPanics
      <4>1. Flush(store', pendingIds \cup tx.ids, pendingDeltas) /\ queued' = QueuedAfterFlush
        BY <1>7, <3>1 DEF Rollback
      <4> QED BY <1>after, <2>1, <2>2, <4>1, FlushTyped, FlushRegistryTyped DEF RegistryTyped
    <3>2. CASE ~(HasPending /\ ~RollbackPanics)
      BY <1>7, <3>2, <1>reg, <1>view DEF Rollback
    <3> QED BY <3>1, <3>2
  <2> QED BY <2>2, <2>3, <2>4, <1>goal
<1>8. ASSUME Microtask PROVE TypeOK'
  <2>1. /\ UNCHANGED <<store, nextId, tx, crashed, lost>> /\ Flush(store, pendingIds, pendingDeltas)
        /\ queued > 0 /\ queued' = queued - 1
    BY <1>8 DEF Microtask
  <2>2. queued' \in 0..MaxQueued
    BY <2>1, BoundAssumption DEF RegistryTyped
  <2>3. pendingDeltas \in Seq(Delta)
    BY DEF RegistryTyped
  <2>4. RegistryTyped'
    BY <2>1, <2>2, FlushRegistryTyped
  <2>5. ViewTyped'
    BY <2>1, <2>3, FlushTyped
  <2>6. RestTyped'
    BY <2>1 DEF RestTyped
  <2> QED BY <2>1, <2>4, <2>5, <2>6, <1>goal, <1>tx
<1>9. ASSUME NEW u \in View, Open(u) \/ Subscribe(u) \/ Unsubscribe(u) PROVE TypeOK'
  <2>1. UNCHANGED <<store, nextId, registry, tx, crashed, lost>>
    BY <1>9 DEF Open, Subscribe, Unsubscribe
  <2>2. ViewTyped'
    <3> SUFFICES ASSUME NEW v \in View PROVE view'[v].result \in Rows(Match)
      BY DEF ViewTyped
    <3>1. view[v].result \in Rows(Match) /\ Query(store) \in Rows(Match)
      BY QueryTyped DEF ViewTyped
    <3>2. CASE Open(u)
      <4>1. view'[v].result \in {view[v].result, Query(store)}
        BY <3>2, OpenFields
      <4> QED BY <3>1, <4>1
    <3>3. CASE Subscribe(u) \/ Unsubscribe(u)
      <4>1. view'[v].result = view[v].result
        BY <3>3, SubscribeFields
      <4> QED BY <3>1, <4>1
    <3> QED BY <1>9, <3>2, <3>3
  <2>3. RestTyped'
    BY <2>1 DEF RestTyped
  <2> QED BY <2>1, <2>2, <2>3, <1>goal, <1>reg, <1>tx
<1>10. CASE UNCHANGED vars
  <2>1. UNCHANGED <<store, nextId, registry, tx, view, crashed, lost>>
    BY <1>10 DEF vars, registry
  <2>2. RestTyped'
    BY <2>1 DEF RestTyped
  <2> QED BY <2>1, <2>2, <1>goal, <1>reg, <1>tx, <1>view
<1> QED BY <1>1, <1>2, <1>3, <1>4, <1>5, <1>6, <1>7, <1>8, <1>9, <1>10 DEF Next

(* Every structure of the live runtime keeps to its type, whatever clients  *)
(* do: results hold selected rows only, queued deltas and journal entries   *)
(* are of rows of the table, and what a rollback restores are such rows.    *)
THEOREM LiveTypeCorrect == Spec => []TypeOK
<1>1. Init => TypeOK /\ DueInv
  BY TypeInit, DueInit
<1>2. TypeOK /\ DueInv /\ [Next]_vars => TypeOK' /\ DueInv'
  BY TypeStep, DueStep DEF DueInv
<1> QED BY <1>1, <1>2, PTL DEF Spec

-----------------------------------------------------------------------------
(* Counting deltas. *)
RowDelta(p, d) == [id |-> p[1], c |-> p[2], d |-> d]

LEMMA OccurrencesType ==
  ASSUME NEW C, NEW ds \in Seq(C), NEW p, NEW d
  PROVE  /\ IsFiniteSet({n \in DOMAIN ds : ds[n] = RowDelta(p, d)})
         /\ Occurrences(ds, p, d) \in Nat
<1> DEFINE H == {n \in DOMAIN ds : ds[n] = RowDelta(p, d)}
<1>1. DOMAIN ds = 1..Len(ds) /\ Len(ds) \in Nat
  OBVIOUS
<1>2. IsFiniteSet(1..Len(ds))
  BY <1>1, FS_Interval
<1>3. H \subseteq 1..Len(ds)
  BY <1>1
<1>4. IsFiniteSet(H)
  BY <1>2, <1>3, FS_Subset, Zenon
<1>5. Cardinality(H) \in Nat
  BY <1>4, FS_CardinalityType, Zenon
<1>6. Occurrences(ds, p, d) = Cardinality(H)
  BY DEF Occurrences, RowDelta
<1> QED BY <1>4, <1>5, <1>6

LEMMA OccurrencesNone ==
  ASSUME NEW p, NEW d
  PROVE  Occurrences(<<>>, p, d) = 0
<1>1. {n \in DOMAIN <<>> : <<>>[n] = [id |-> p[1], c |-> p[2], d |-> d]} = {}
  OBVIOUS
<1> QED BY <1>1, FS_EmptySet DEF Occurrences

LEMMA OccurrencesOneMore ==
  ASSUME NEW C, NEW ds \in Seq(C), NEW e \in C, NEW p, NEW d
  PROVE  Occurrences(Append(ds, e), p, d) = Occurrences(ds, p, d) + (IF e = RowDelta(p, d) THEN 1 ELSE 0)
<1> DEFINE es == Append(ds, e)
           N == Len(ds)
           H == {n \in DOMAIN ds : ds[n] = RowDelta(p, d)}
           K == {n \in DOMAIN es : es[n] = RowDelta(p, d)}
<1>1. /\ N \in Nat /\ DOMAIN ds = 1..N /\ DOMAIN es = 1..(N + 1) /\ es[N + 1] = e
      /\ \A n \in 1..N : es[n] = ds[n]
  OBVIOUS
<1>2. IsFiniteSet(H) /\ Occurrences(ds, p, d) = Cardinality(H) /\ Cardinality(H) \in Nat
  BY OccurrencesType DEF Occurrences, RowDelta
<1>3. Occurrences(es, p, d) = Cardinality(K)
  BY DEF Occurrences, RowDelta
<1> HIDE DEF es, N
<1>4. CASE e = RowDelta(p, d)
  <2>1. K = H \cup {N + 1} /\ N + 1 \notin H
    BY <1>1, <1>4
  <2> HIDE DEF H, K
  <2>2. Cardinality(K) = Cardinality(H) + 1
    BY <1>2, <2>1, FS_AddElement
  <2> QED BY <1>2, <1>3, <1>4, <2>2 DEF es
<1>5. CASE e # RowDelta(p, d)
  <2>1. K = H
    BY <1>1, <1>5
  <2> HIDE DEF H, K
  <2>2. Occurrences(es, p, d) = Occurrences(ds, p, d) + 0
    BY <1>2, <1>3, <2>1
  <2> QED BY <1>5, <2>2 DEF es
<1> QED BY <1>4, <1>5

LEMMA OccurrencesConcat ==
  ASSUME NEW C, NEW ds \in Seq(C), NEW es \in Seq(C), NEW p, NEW d
  PROVE  Occurrences(ds \o es, p, d) = Occurrences(ds, p, d) + Occurrences(es, p, d)
<1> DEFINE P == {s \in Seq(C) : Occurrences(ds \o s, p, d) = Occurrences(ds, p, d) + Occurrences(s, p, d)}
<1>1. \A s \in Seq(C) : Occurrences(s, p, d) \in Nat
  BY OccurrencesType
<1>2. <<>> \in P
  <2>1. ds \o <<>> = ds /\ <<>> \in Seq(C)
    OBVIOUS
  <2> QED BY <1>1, <2>1, OccurrencesNone
<1>3. ASSUME NEW s \in Seq(C), NEW e \in C, s \in P PROVE Append(s, e) \in P
  <2>1. ds \o Append(s, e) = Append(ds \o s, e) /\ ds \o s \in Seq(C) /\ Append(s, e) \in Seq(C)
    OBVIOUS
  <2>2. \A t \in Seq(C) : Occurrences(Append(t, e), p, d) = Occurrences(t, p, d) + (IF e = RowDelta(p, d) THEN 1 ELSE 0)
    BY OccurrencesOneMore
  <2>3. Occurrences(ds \o s, p, d) = Occurrences(ds, p, d) + Occurrences(s, p, d)
    BY <1>3
  <2> DEFINE x == IF e = RowDelta(p, d) THEN 1 ELSE 0
  <2> HIDE DEF x
  <2>4. Occurrences(Append(ds \o s, e), p, d) = Occurrences(ds \o s, p, d) + x
    BY <2>1, <2>2 DEF x
  <2>5. Occurrences(Append(s, e), p, d) = Occurrences(s, p, d) + x
    BY <2>2 DEF x
  <2>6. x \in Nat /\ Occurrences(s, p, d) \in Nat /\ Occurrences(ds, p, d) \in Nat
    BY <1>1 DEF x
  <2>7. Occurrences(Append(ds \o s, e), p, d) = Occurrences(ds, p, d) + Occurrences(Append(s, e), p, d)
    BY <2>3, <2>4, <2>5, <2>6
  <2> QED BY <2>1, <2>7
<1> HIDE DEF P
<1>4. Seq(C) \subseteq P
  BY <1>2, <1>3, AppendByAppend
<1> QED BY <1>4 DEF P

-----------------------------------------------------------------------------
(* Deltas lead from one result to another when applying them does, and when *)
(* what they add and remove is, row by row, what tells the two apart.       *)
Net(ds, p) == Occurrences(Selected(ds), p, 1) - Occurrences(Selected(ds), p, -1)

Leads(R, ds, Q) ==
  /\ Applied(R, Selected(ds)) = Q
  /\ \A p \in RowId \X Match : Counts(Q)[p] = Counts(R)[p] + Net(ds, p)

LEMMA CountsType ==
  \A R : DOMAIN Counts(R) = RowId \X Match /\ \A p \in RowId \X Match : Counts(R)[p] \in {0, 1}
BY DEF Counts

LEMMA NetType ==
  ASSUME NEW ds \in Seq(Delta), NEW p
  PROVE  Net(ds, p) \in Int /\ \A d : Occurrences(Selected(ds), p, d) \in Nat
<1>1. \A d : Occurrences(Selected(ds), p, d) \in Nat
  BY SelectedTyped, OccurrencesType
<1> QED BY <1>1 DEF Net

LEMMA LeadsNowhere ==
  ASSUME NEW R \in Rows(Match)
  PROVE  Leads(R, <<>>, R)
<1>1. Applied(R, Selected(<<>>)) = R
  BY SelectedNone, AppliedNone
<1>2. \A p : Net(<<>>, p) = 0
  BY SelectedNone, OccurrencesNone DEF Net
<1> QED BY <1>1, <1>2, CountsType DEF Leads

LEMMA LeadsOn ==
  ASSUME NEW R \in Rows(Match), NEW ds \in Seq(Delta), NEW es \in Seq(Delta), NEW Q, NEW T,
         Leads(R, ds, Q), Leads(Q, es, T)
  PROVE  Leads(R, ds \o es, T)
<1>1. Selected(ds \o es) = Selected(ds) \o Selected(es)
  BY SelectedConcat
<1>2. Selected(ds) \in Seq(DeltaOf(Match)) /\ Selected(es) \in Seq(DeltaOf(Match))
  BY SelectedTyped
<1>3. Applied(R, Selected(ds \o es)) = T
  BY <1>1, <1>2, AppliedConcat DEF Leads
<1>4. ASSUME NEW p \in RowId \X Match PROVE Counts(T)[p] = Counts(R)[p] + Net(ds \o es, p)
  <2>1. \A d : Occurrences(Selected(ds \o es), p, d) = Occurrences(Selected(ds), p, d) + Occurrences(Selected(es), p, d)
    BY <1>1, <1>2, OccurrencesConcat
  <2>2. \A d : Occurrences(Selected(ds), p, d) \in Nat /\ Occurrences(Selected(es), p, d) \in Nat
    BY NetType
  <2>3. Net(ds \o es, p) = Net(ds, p) + Net(es, p)
    BY <2>1, <2>2 DEF Net
  <2>4. Counts(Q)[p] = Counts(R)[p] + Net(ds, p) /\ Counts(T)[p] = Counts(Q)[p] + Net(es, p)
    BY DEF Leads
  <2>5. Counts(R)[p] \in Int /\ Net(ds, p) \in Int /\ Net(es, p) \in Int
    BY CountsType, NetType
  <2> QED BY <2>3, <2>4, <2>5
<1> QED BY <1>3, <1>4 DEF Leads

(* One delta, by what it does. *)
LEMMA OneDelta ==
  ASSUME NEW e \in Delta, NEW R \in Rows(Match)
  PROVE  /\ <<e>> \in Seq(Delta)
         /\ e.c \in Match => /\ Applied(R, Selected(<<e>>)) = ApplyOne(R, e)
                             /\ \A p, d : Occurrences(Selected(<<e>>), p, d) = IF e = RowDelta(p, d) THEN 1 ELSE 0
         /\ e.c \notin Match => Applied(R, Selected(<<e>>)) = R /\ \A p : Net(<<e>>, p) = 0
<1>1. <<>> \in Seq(Delta) /\ Append(<<>>, e) = <<e>> /\ <<e>> \in Seq(Delta)
  OBVIOUS
<1>2. Selected(<<e>>) = SelectOne(<<>>, e)
  BY <1>1, SelectedOneMore, SelectedNone
<1>3. CASE e.c \in Match
  <2> DEFINE M == DeltaOf(Match)
  <2>1. e \in M
    BY <1>3 DEF Delta, DeltaOf
  <2>2. <<>> \in Seq(M) /\ Selected(<<e>>) = Append(<<>>, e)
    BY <1>2, <1>3 DEF SelectOne
  <2>3. Applied(R, Append(<<>>, e)) = ApplyOne(R, e)
    <3>1. \A s \in Seq(M) : Applied(R, Append(s, e)) = ApplyOne(Applied(R, s), e)
      BY <2>1, AppliedOneMore
    <3>2. Applied(R, <<>>) = R
      BY AppliedNone
    <3> QED BY <2>2, <3>1, <3>2, Zenon
  <2>4. ASSUME NEW p, NEW d PROVE Occurrences(Append(<<>>, e), p, d) = IF e = RowDelta(p, d) THEN 1 ELSE 0
    <3> DEFINE x == IF e = RowDelta(p, d) THEN 1 ELSE 0
    <3>1. \A s \in Seq(M) : Occurrences(Append(s, e), p, d) = Occurrences(s, p, d) + x
      BY <2>1, OccurrencesOneMore
    <3>2. x \in Nat /\ 0 + x = x
      OBVIOUS
    <3> HIDE DEF x
    <3>3. Occurrences(<<>>, p, d) = 0
      BY OccurrencesNone
    <3>4. Occurrences(Append(<<>>, e), p, d) = 0 + x
      BY <2>2, <3>1, <3>3, Zenon
    <3>5. Occurrences(Append(<<>>, e), p, d) = x
      BY <3>2, <3>4, Zenon
    <3> QED BY <3>5 DEF x
  <2> QED BY <1>1, <1>3, <2>2, <2>3, <2>4
<1>4. CASE e.c \notin Match
  <2>1. Selected(<<e>>) = <<>>
    BY <1>2, <1>4 DEF SelectOne
  <2> QED BY <1>1, <1>4, <2>1, AppliedNone, OccurrencesNone DEF Net
<1> QED BY <1>3, <1>4

(* A row goes, and a row comes. *)
LEMMA LeadsOut ==
  ASSUME NEW S \in Rows(Content), NEW id \in DOMAIN S
  PROVE  /\ <<[id |-> id, c |-> S[id], d |-> -1]>> \in Seq(Delta)
         /\ Leads(Query(S), <<[id |-> id, c |-> S[id], d |-> -1]>>, Query(Drop(S, {id})))
<1> DEFINE e == [id |-> id, c |-> S[id], d |-> -1]
           T == Drop(S, {id})
           Q == Query(S)
<1>1. id \in RowId /\ S[id] \in Content /\ e \in Delta
  BY RowsMeans DEF Delta
<1>2. Q \in Rows(Match)
  BY QueryTyped
<1>3. e.id = id /\ e.c = S[id] /\ e.d = -1
  OBVIOUS
<1>4. ASSUME S[id] \in Match PROVE Leads(Q, <<e>>, Query(T))
  <2>1. ApplyOne(Q, e) = Query(T)
    BY <1>3 DEF ApplyOne, Drop, Query
  <2>2. ASSUME NEW p \in RowId \X Match PROVE Counts(Query(T))[p] = Counts(Q)[p] + Net(<<e>>, p)
    <3>1. e = RowDelta(p, -1) <=> p[1] = id /\ p[2] = S[id]
      BY DEF RowDelta
    <3>2. e # RowDelta(p, 1)
      BY <1>3 DEF RowDelta
    <3>3. Net(<<e>>, p) = 0 - (IF p[1] = id /\ p[2] = S[id] THEN 1 ELSE 0)
      BY <1>1, <1>2, <1>3, <1>4, <3>1, <3>2, OneDelta DEF Net
    <3>4. CASE p[1] = id /\ p[2] = S[id]
      <4>1. Counts(Q)[p] = 1 /\ Counts(Query(T))[p] = 0
        BY <1>4, <3>4 DEF Counts, Query, Drop
      <4> QED BY <3>3, <3>4, <4>1
    <3>5. CASE ~(p[1] = id /\ p[2] = S[id])
      <4>1. Counts(Query(T))[p] = Counts(Q)[p]
        BY <1>4, <3>5 DEF Counts, Query, Drop
      <4> QED BY <3>3, <3>5, <4>1, CountsType
    <3> QED BY <3>4, <3>5
  <2> QED BY <1>1, <1>2, <1>3, <1>4, <2>1, <2>2, OneDelta DEF Leads
<1>5. ASSUME S[id] \notin Match PROVE Leads(Q, <<e>>, Query(T))
  <2>1. Query(T) = Q
    BY <1>5 DEF Query, Drop
  <2> QED BY <1>1, <1>2, <1>3, <1>5, <2>1, OneDelta, CountsType DEF Leads
<1> QED BY <1>1, <1>2, <1>4, <1>5, OneDelta

LEMMA LeadsIn ==
  ASSUME NEW S \in Rows(Content), NEW id \in RowId, id \notin DOMAIN S, NEW c \in Content
  PROVE  /\ <<[id |-> id, c |-> c, d |-> 1]>> \in Seq(Delta)
         /\ Leads(Query(S), <<[id |-> id, c |-> c, d |-> 1]>>, Query(Put(S, id, c)))
<1> DEFINE e == [id |-> id, c |-> c, d |-> 1]
           T == Put(S, id, c)
           Q == Query(S)
<1>1. e \in Delta
  BY DEF Delta
<1>2. Q \in Rows(Match)
  BY QueryTyped
<1>3. e.id = id /\ e.c = c /\ e.d = 1
  OBVIOUS
<1>4. ASSUME c \in Match PROVE Leads(Q, <<e>>, Query(T))
  <2>1. ApplyOne(Q, e) = Query(T)
    BY <1>3, <1>4 DEF ApplyOne, Put, Query
  <2>2. ASSUME NEW p \in RowId \X Match PROVE Counts(Query(T))[p] = Counts(Q)[p] + Net(<<e>>, p)
    <3>1. e = RowDelta(p, 1) <=> p[1] = id /\ p[2] = c
      BY DEF RowDelta
    <3>2. e # RowDelta(p, -1)
      BY <1>3 DEF RowDelta
    <3>3. Net(<<e>>, p) = (IF p[1] = id /\ p[2] = c THEN 1 ELSE 0)
      BY <1>1, <1>2, <1>3, <1>4, <3>1, <3>2, OneDelta DEF Net
    <3>4. CASE p[1] = id /\ p[2] = c
      <4>1. Counts(Q)[p] = 0 /\ Counts(Query(T))[p] = 1
        BY <1>4, <3>4 DEF Counts, Query, Put
      <4> QED BY <3>3, <3>4, <4>1
    <3>5. CASE ~(p[1] = id /\ p[2] = c)
      <4>1. Counts(Query(T))[p] = Counts(Q)[p]
        BY <1>4, <3>5 DEF Counts, Query, Put
      <4> QED BY <3>3, <3>5, <4>1, CountsType
    <3> QED BY <3>4, <3>5
  <2> QED BY <1>1, <1>2, <1>3, <1>4, <2>1, <2>2, OneDelta DEF Leads
<1>5. ASSUME c \notin Match PROVE Leads(Q, <<e>>, Query(T))
  <2>1. Query(T) = Q
    BY <1>5 DEF Query, Put
  <2> QED BY <1>1, <1>2, <1>3, <1>5, <2>1, OneDelta, CountsType DEF Leads
<1> QED BY <1>1, <1>2, <1>4, <1>5, OneDelta

(* The deltas of a write lead from what the query returned to what it returns. *)
LEMMA LeadsWrite ==
  ASSUME store \in Rows(Content), NEW id \in RowId, NEW to \in Content \cup {Gone}, RowChange(id, to)
  PROVE  Leads(Query(store), DeltasOf(id, to), Query(store'))
<1> DEFINE out == <<[id |-> id, c |-> store[id], d |-> -1]>>
           in == <<[id |-> id, c |-> to, d |-> 1]>>
           Left == Drop(store, {id})
<1>1. Query(store) \in Rows(Match)
  BY QueryTyped
<1>2. store' = Become(store, id, to)
  BY DEF RowChange
<1>3. CASE id \notin DOMAIN store
  <2>1. to # Gone /\ to \in Content /\ store' = Put(store, id, to)
    BY <1>2, <1>3 DEF RowChange, Become
  <2>2. in \in Seq(Delta) /\ DeltasOf(id, to) = <<>> \o in
    BY <1>3, <2>1, LeadsIn DEF DeltasOf
  <2>3. DeltasOf(id, to) = in
    BY <2>2
  <2> QED BY <1>3, <2>1, <2>3, LeadsIn
<1>4. CASE id \in DOMAIN store /\ to = Gone
  <2>1. store' = Left
    BY <1>2, <1>4 DEF Become
  <2>2. out \in Seq(Delta) /\ DeltasOf(id, to) = out \o <<>>
    BY <1>4, LeadsOut DEF DeltasOf
  <2>3. DeltasOf(id, to) = out
    BY <2>2
  <2> QED BY <1>4, <2>1, <2>3, LeadsOut
<1>5. CASE id \in DOMAIN store /\ to # Gone
  <2>1. to \in Content /\ store' = Put(store, id, to)
    BY <1>2, <1>5 DEF Become
  <2>2. store' = Put(Left, id, to) /\ id \notin DOMAIN Left
    BY <2>1 DEF Put, Drop
  <2>3. DeltasOf(id, to) = out \o in
    BY <1>5 DEF DeltasOf
  <2>4. Left \in Rows(Content)
    BY <2>1, RowsWritten
  <2>5. out \in Seq(Delta) /\ Leads(Query(store), out, Query(Left))
    BY <1>5, LeadsOut
  <2>6. in \in Seq(Delta) /\ Leads(Query(Left), in, Query(store'))
    BY <2>1, <2>2, <2>4, LeadsIn
  <2> HIDE DEF out, in, Left
  <2> QED BY <1>1, <2>3, <2>5, <2>6, LeadsOn
<1> QED BY <1>3, <1>4, <1>5

(* A write is undone by its entry in the journal. *)
LEMMA UndoWrite ==
  ASSUME store \in Rows(Content), NEW id \in RowId, NEW to \in Content \cup {Gone}, RowChange(id, to),
         nextId \notin DOMAIN store
  PROVE  Undo(store', [id |-> id, old |-> At(store, id), new |-> to]) = store
<1> DEFINE e == [id |-> id, old |-> At(store, id), new |-> to]
<1>1. e.id = id /\ e.old = At(store, id) /\ e.new = to
  OBVIOUS
<1>2. store = [x \in DOMAIN store |-> store[x]] /\ \A x \in DOMAIN store : store[x] \in Content
  BY RowsMeans
<1>3. store' = Become(store, id, to)
  BY DEF RowChange
<1> HIDE DEF e
<1>4. CASE id \notin DOMAIN store
  <2>1. e.old = Gone /\ store' = Put(store, id, to)
    BY <1>1, <1>3, <1>4 DEF RowChange, Become, At
  <2> QED BY <1>1, <1>2, <1>4, <2>1 DEF Undo, Put, Drop, e
<1>5. CASE id \in DOMAIN store
  <2>1. e.old = store[id] /\ e.old # Gone
    BY <1>1, <1>2, <1>5, MatchAssumption DEF At
  <2>2. (e.new = Gone) = (id \notin DOMAIN store')
    BY <1>1, <1>3 DEF Become, Put, Drop
  <2>3. Undo(store', e) = Put(store', id, store[id])
    BY <1>1, <2>1, <2>2 DEF Undo
  <2>4. Put(store', id, store[id]) = store
    BY <1>2, <1>3, <1>5 DEF Become, Put, Drop
  <2> QED BY <2>3, <2>4 DEF e
<1> QED BY <1>4, <1>5

-----------------------------------------------------------------------------
(* What clients have been told. *)
Agrees(v) == view[v].subscribed => view[v].client = Counts(view[v].result)

\* Whatever a flush feeds a registered trace() query leads somewhere.
Fed(v) ==
  v \in Traced /\ view[v].registered =>
    /\ \E Q : Leads(view[v].result, pendingDeltas, Q)
    /\ \E Q : Leads(view[v].result, pendingDeltas \o tx.deltas, Q)

LEMMA FlushAgrees ==
  ASSUME Shape, NEW S, NEW ids, NEW ds \in Seq(Delta), Flush(S, ids, ds), NEW v \in View, Agrees(v),
         v \in Traced /\ view[v].registered => \E Q : Leads(view[v].result, ds, Q)
  PROVE  Agrees(v)'
<1> SUFFICES ASSUME view[v].subscribed, view[v].client = Counts(view[v].result)
             PROVE  view'[v].client = Counts(view'[v].result)
  BY FlushFields DEF Agrees
<1>1. CASE ~Watched(v)
  BY <1>1, FlushFields
<1>2. CASE Watched(v) /\ v \notin Traced
  BY <1>2, FlushFields
<1>3. CASE Watched(v) /\ v \in Traced
  <2>1. PICK Q : Leads(view[v].result, ds, Q)
    BY <1>3 DEF Watched
  <2>2. view'[v].result = Q /\ view'[v].client = Told(v, Selected(ds))
    <3>1. view'[v] = OnDeltas(view[v], Selected(ds))
      BY <1>3, FlushTraced
    <3>2. view'[v].result = Applied(view[v].result, Selected(ds)) /\ view'[v].client = Told(v, Selected(ds))
      BY <3>1 DEF Shape, HandleFields, OnDeltas, Told
    <3> QED BY <2>1, <3>2 DEF Leads
  <2>3. DOMAIN view[v].client = RowId \X Match
    BY CountsType
  <2>4. ASSUME NEW p \in RowId \X Match PROVE view'[v].client[p] = Counts(Q)[p]
    <3>1. view'[v].client[p] = Counts(view[v].result)[p] + Occurrences(Selected(ds), p, 1) - Occurrences(Selected(ds), p, -1)
      BY <2>2, <2>3 DEF Told
    <3>2. /\ Counts(view[v].result)[p] \in Int
          /\ Occurrences(Selected(ds), p, 1) \in Int /\ Occurrences(Selected(ds), p, -1) \in Int
      <4>1. Counts(view[v].result)[p] \in {0, 1}
        BY CountsType
      <4>2. Occurrences(Selected(ds), p, 1) \in Nat /\ Occurrences(Selected(ds), p, -1) \in Nat
        BY NetType
      <4> QED BY <4>1, <4>2
    <3>3. Counts(Q)[p] = Counts(view[v].result)[p] + Net(ds, p)
      BY <2>1 DEF Leads
    <3> QED BY <3>1, <3>2, <3>3 DEF Net
  <2>5. view'[v].client = [p \in RowId \X Match |-> view'[v].client[p]]
    BY <2>2, <2>3 DEF Told
  <2>6. Counts(Q) = [p \in RowId \X Match |-> Counts(Q)[p]]
    BY DEF Counts
  <2>7. view'[v].client = Counts(Q)
    BY <2>4, <2>5, <2>6
  <2> QED BY <2>2, <2>7
<1> QED BY <1>1, <1>2, <1>3

LEMMA AgreesStep ==
  ASSUME TypeOK, Shape, [Next]_vars, NEW v \in View, Agrees(v), Fed(v)
  PROVE  Agrees(v)'
<1>keep. ASSUME UNCHANGED view PROVE Agrees(v)'
  BY <1>keep DEF Agrees
<1>ds. pendingDeltas \in Seq(Delta) /\ pendingDeltas \o tx.deltas \in Seq(Delta)
  BY DEF TypeOK
<1>1. ASSUME NEW id \in RowId, NEW to \in Content \cup {Gone},
             \/ DirectWrite(id, to) \/ QuietWrite(id, to) \/ FailingWrite(id, to)
             \/ \E fails \in BOOLEAN : TxWrite(id, to, fails)
      PROVE Agrees(v)'
  BY <1>1, <1>keep DEF DirectWrite, QuietWrite, FailingWrite, TxWrite
<1>2. ASSUME Clear \/ Begin PROVE Agrees(v)'
  BY <1>2, <1>keep DEF Clear, Begin
<1>3. ASSUME Commit PROVE Agrees(v)'
  <2>1. CASE HasPending
    <3>1. Flush(store, pendingIds \cup tx.ids, pendingDeltas \o tx.deltas)
      BY <1>3, <2>1 DEF Commit
    <3> QED BY <1>ds, <3>1, FlushAgrees DEF Fed
  <2>2. CASE ~HasPending
    BY <1>3, <1>keep, <2>2 DEF Commit
  <2> QED BY <2>1, <2>2
<1>4. ASSUME Rollback PROVE Agrees(v)'
  <2>1. CASE HasPending /\ ~RollbackPanics
    <3>1. Flush(store', pendingIds \cup tx.ids, pendingDeltas)
      BY <1>4, <2>1 DEF Rollback
    <3> QED BY <1>ds, <3>1, FlushAgrees DEF Fed
  <2>2. CASE ~(HasPending /\ ~RollbackPanics)
    BY <1>4, <1>keep, <2>2 DEF Rollback
  <2> QED BY <2>1, <2>2
<1>5. ASSUME Microtask PROVE Agrees(v)'
  <2>1. Flush(store, pendingIds, pendingDeltas)
    BY <1>5 DEF Microtask
  <2> QED BY <1>ds, <2>1, FlushAgrees DEF Fed
<1>6. ASSUME NEW u \in View, Open(u) \/ Subscribe(u) \/ Unsubscribe(u) PROVE Agrees(v)'
  <2>1. CASE v # u
    <3>1. view'[v] = view[v]
      BY <1>6, <2>1, OpenFields, SubscribeFields
    <3> QED BY <3>1 DEF Agrees
  <2>2. CASE v = u /\ Open(u)
    BY <2>2, OpenFields DEF Agrees
  <2>3. CASE v = u /\ Subscribe(u)
    <3>1. view'[v].client = Counts(view[v].result) /\ view'[v].result = view[v].result
      BY <2>3, SubscribeFields
    <3> QED BY <3>1 DEF Agrees
  <2>4. CASE v = u /\ Unsubscribe(u)
    <3>1. ~view'[v].subscribed
      BY <2>4, SubscribeFields
    <3> QED BY <3>1 DEF Agrees
  <2> QED BY <1>6, <2>1, <2>2, <2>3, <2>4
<1>7. CASE UNCHANGED vars
  BY <1>7, <1>keep DEF vars
<1> QED BY <1>1, <1>2, <1>3, <1>4, <1>5, <1>6, <1>7 DEF Next

-----------------------------------------------------------------------------
(* The deltas of plain use.  While a transaction is open nobody else        *)
(* writes: the queued deltas lead to what the query returned when it began, *)
(* and the transaction's own deltas lead from there to what it returns now. *)
(* What it began with is what its journal would restore.                    *)
Base == Back(store, tx.journal)

Kept ==
  /\ pendingIds = {} => pendingDeltas = <<>>
  /\ tx.ids = {} => tx.deltas = <<>>
  /\ ~tx.open => tx.deltas = <<>> /\ tx.journal = <<>>
  /\ nextId >= 0 /\ DOMAIN store \subseteq 0..(nextId - 1) /\ DOMAIN Base \subseteq 0..(nextId - 1)

QueuedLead == \A v \in Traced : view[v].registered => Leads(view[v].result, pendingDeltas, Query(Base))

PendingLead == Leads(Query(Base), tx.deltas, Query(store))

DeltaInv == Kept /\ QueuedLead /\ PendingLead /\ \A v \in Traced : Agrees(v)

LEMMA BaseTyped == TypeOK => store \in Rows(Content) /\ Base \in Rows(Content)
<1> SUFFICES ASSUME TypeOK PROVE store \in Rows(Content) /\ Base \in Rows(Content)
  OBVIOUS
<1>1. store \in Rows(Content) /\ tx.journal \in Seq(Change)
  BY TypeParts DEF TxTyped
<1> QED BY <1>1, BackTyped DEF Base

(* A flush with deltas that lead to Q leaves every query that stays         *)
(* registered with Q, and nothing queued.                                   *)
LEMMA FlushLeads ==
  ASSUME Shape, NEW S, NEW ids, NEW ds, Flush(S, ids, ds), NEW Q \in Rows(Match), Query(Base)' = Q,
         \A v \in Traced : view[v].registered => Leads(view[v].result, ds, Q)
  PROVE  QueuedLead'
<1> SUFFICES ASSUME NEW v \in Traced, view'[v].registered PROVE Leads(view'[v].result, <<>>, Q)
  BY DEF Flush, QueuedLead
<1> v \in View
  BY DEF View
<1>1. Watched(v)
  BY FlushFields
<1>2. view'[v].result = Applied(view[v].result, Selected(ds))
  BY <1>1, FlushFields
<1>3. Leads(view[v].result, ds, Q)
  BY <1>1 DEF Watched
<1>4. view'[v].result = Q
  BY <1>2, <1>3 DEF Leads
<1> QED BY <1>4, LeadsNowhere

LEMMA FedByDeltaInv ==
  ASSUME TypeOK, DeltaInv, NEW v \in View
  PROVE  Fed(v)
<1> SUFFICES ASSUME v \in Traced, view[v].registered
             PROVE  /\ Leads(view[v].result, pendingDeltas, Query(Base))
                    /\ Leads(view[v].result, pendingDeltas \o tx.deltas, Query(store))
  BY DEF Fed
<1>1. Leads(view[v].result, pendingDeltas, Query(Base)) /\ Leads(Query(Base), tx.deltas, Query(store))
  BY DEF DeltaInv, QueuedLead, PendingLead
<1>2. view[v].result \in Rows(Match) /\ pendingDeltas \in Seq(Delta) /\ tx.deltas \in Seq(Delta)
  BY TypeParts DEF ViewTyped, RegistryTyped, TxTyped
<1> QED BY <1>1, <1>2, LeadsOn

LEMMA DeltaInit == Init => DeltaInv
<1> SUFFICES ASSUME Init PROVE DeltaInv
  OBVIOUS
<1>1. tx.ids = {} /\ tx.deltas = <<>> /\ tx.journal = <<>> /\ ~tx.open /\ store = Nothing
  BY NoTxTyped DEF Init
<1>2. Base = store /\ DOMAIN store = {} /\ store \in Rows(Content)
  BY <1>1, BackNone, NoRows DEF Base
<1>3. Kept
  BY <1>1, <1>2 DEF Init, Kept
<1>4. PendingLead
  BY <1>1, <1>2, LeadsNowhere, QueryTyped DEF PendingLead
<1>5. \A v \in View : ~view[v].registered /\ ~view[v].subscribed
  BY DEF Init, Unused
<1> QED BY <1>3, <1>4, <1>5 DEF DeltaInv, QueuedLead, Agrees, View

(* After the end of a transaction, or outside one, there is nothing pending. *)
LEMMA NothingPending ==
  ASSUME TypeOK', tx'.deltas = <<>>, tx'.journal = <<>>
  PROVE  Base' = store' /\ PendingLead'
<1>1. store' \in Rows(Content)
  BY RowsMeans DEF TypeOK
<1>2. Base' = store'
  BY <1>1, BackNone DEF Base
<1>3. Query(store') \in Rows(Match)
  BY <1>1, QueryTyped
<1> QED BY <1>2, <1>3, LeadsNowhere DEF PendingLead

(* A write keeps row ids below the next one. *)
LEMMA NumberedWrite ==
  ASSUME nextId \in Nat, DOMAIN store \subseteq 0..(nextId - 1), NEW id, NEW to, RowChange(id, to)
  PROVE  /\ nextId' \in Nat /\ nextId <= nextId' /\ nextId \notin DOMAIN store
         /\ DOMAIN store' \subseteq 0..(nextId' - 1)
<1>1. nextId \notin DOMAIN store
  OBVIOUS
<1>2. (id = nextId /\ nextId' = nextId + 1) \/ (id \in DOMAIN store /\ nextId' = nextId)
  BY DEF RowChange
<1>3. DOMAIN store' \subseteq DOMAIN store \cup {id}
  BY DEF RowChange, Become, Put, Drop
<1> QED BY <1>1, <1>2, <1>3

(* What a step that leaves deltas, store and handles alone keeps. *)
LEMMA DeltaFrame ==
  ASSUME DeltaInv, UNCHANGED <<store, nextId, pendingIds, pendingDeltas, tx, view>>
  PROVE  Kept' /\ QueuedLead' /\ PendingLead'
BY DEF DeltaInv, Kept, QueuedLead, PendingLead, Base

LEMMA DeltaStep ==
  ASSUME Usage = {}, TypeOK, Shape, DeltaInv, [Next]_vars
  PROVE  DeltaInv'
<1>typed. TypeOK' /\ store \in Rows(Content) /\ Base \in Rows(Content) /\ store' \in Rows(Content)
  BY TypeStep, BaseTyped, RowsMeans DEF TypeOK
<1>parts. /\ RegistryTyped /\ TxTyped /\ ViewTyped /\ RestTyped
          /\ Query(store) \in Rows(Match) /\ Query(Base) \in Rows(Match) /\ Query(store') \in Rows(Match)
  BY <1>typed, TypeParts, QueryTyped
<1>inv. Kept /\ QueuedLead /\ PendingLead
  BY DEF DeltaInv
<1>agree. \A v \in Traced : Agrees(v)'
  <2> TAKE v \in Traced
  <2>1. v \in View /\ Agrees(v)
    BY DEF DeltaInv, View
  <2>2. Fed(v)
    BY <2>1, FedByDeltaInv
  <2> QED BY <2>1, <2>2, AgreesStep
<1>goal. ASSUME Kept', QueuedLead', PendingLead' PROVE DeltaInv'
  BY <1>goal, <1>agree DEF DeltaInv
<1>1. ASSUME NEW id \in RowId, NEW to \in Content \cup {Gone}, DirectWrite(id, to) PROVE DeltaInv'
  <2> DEFINE ds == DeltasOf(id, to)
  <2>1. /\ RowChange(id, to) /\ UNCHANGED <<tx, view>> /\ ~tx.open
        /\ pendingIds' = pendingIds \cup {id} /\ pendingDeltas' = pendingDeltas \o ds
    BY <1>1 DEF DirectWrite, DirectAllowed, Announce
  <2>2. tx.deltas = <<>> /\ tx.journal = <<>> /\ Base = store
    BY <1>typed, <1>inv, <2>1, BackNone DEF Kept, Base
  <2>3. Base' = store' /\ PendingLead'
    BY <1>typed, <2>1, <2>2, NothingPending
  <2>4. Kept'
    BY <1>inv, <1>parts, <2>1, <2>2, <2>3, NumberedWrite DEF Kept, RestTyped
  <2>5. QueuedLead'
    <3> SUFFICES ASSUME NEW v \in Traced, view[v].registered
                 PROVE  Leads(view[v].result, pendingDeltas \o ds, Query(store'))
      BY <2>1, <2>3 DEF QueuedLead
    <3>1. Leads(view[v].result, pendingDeltas, Query(store))
      BY <1>inv, <2>2 DEF QueuedLead
    <3>2. Leads(Query(store), ds, Query(store'))
      BY <1>typed, <2>1, LeadsWrite
    <3>3. view[v].result \in Rows(Match) /\ pendingDeltas \in Seq(Delta) /\ ds \in Seq(Delta)
      BY <1>parts, <1>typed, DeltasTyped DEF ViewTyped, RegistryTyped, View
    <3> HIDE DEF ds
    <3> QED BY <3>1, <3>2, <3>3, LeadsOn
  <2> QED BY <2>3, <2>4, <2>5, <1>goal
<1>2. ASSUME NEW id \in RowId, NEW to \in Content \cup {Gone}, QuietWrite(id, to) PROVE DeltaInv'
  <2>1. RowChange(id, to) /\ UNCHANGED <<registry, tx, view>> /\ ~tx.open /\ ~SomeRegistered
    BY <1>2 DEF QuietWrite, DirectAllowed
  <2>2. tx.deltas = <<>> /\ tx.journal = <<>>
    BY <1>inv, <2>1 DEF Kept
  <2>3. Base' = store' /\ PendingLead'
    BY <1>typed, <2>1, <2>2, NothingPending
  <2>4. Kept'
    BY <1>inv, <1>parts, <2>1, <2>2, <2>3, NumberedWrite DEF Kept, RestTyped, registry
  <2>5. QueuedLead'
    BY <2>1 DEF QueuedLead, SomeRegistered, View
  <2> QED BY <2>3, <2>4, <2>5, <1>goal
<1>3. ~Clear /\ \A id, to : ~FailingWrite(id, to)
  BY DEF FailingWrite, Clear
<1>4. ASSUME NEW id \in RowId, NEW to \in Content \cup {Gone}, NEW fails \in BOOLEAN, TxWrite(id, to, fails)
      PROVE DeltaInv'
  <2> DEFINE ds == DeltasOf(id, to)
             entry == [id |-> id, old |-> At(store, id), new |-> to]
  <2>1. RowChange(id, to) /\ UNCHANGED <<registry, view>> /\ tx.open /\ ~fails
    BY <1>4 DEF TxWrite
  <2>2. /\ entry \in Change /\ tx'.open /\ tx'.journal = Append(tx.journal, entry)
        /\ tx'.ids = tx.ids \cup {id} /\ tx'.deltas = tx.deltas \o ds
    BY <1>4, <1>typed, <1>parts, <2>1, TxWriteFields
  <2>3. nextId \notin DOMAIN store
    BY <1>inv, <1>parts, <2>1, NumberedWrite DEF Kept, RestTyped
  <2>4. Base' = Base
    <3>1. Undo(store', entry) = store
      BY <1>typed, <2>1, <2>3, UndoWrite
    <3>2. tx.journal \in Seq(Change)
      BY <1>parts DEF TxTyped
    <3> HIDE DEF entry
    <3> QED BY <1>typed, <2>2, <3>1, <3>2, BackNewestFirst DEF Base
  <2>5. PendingLead'
    <3>1. Leads(Query(Base), tx.deltas, Query(store)) /\ Leads(Query(store), ds, Query(store'))
      BY <1>inv, <1>typed, <2>1, LeadsWrite DEF PendingLead
    <3>2. tx.deltas \in Seq(Delta) /\ ds \in Seq(Delta)
      BY <1>parts, <1>typed, DeltasTyped DEF TxTyped
    <3> HIDE DEF ds
    <3>3. Leads(Query(Base), tx.deltas \o ds, Query(store'))
      BY <1>parts, <3>1, <3>2, LeadsOn
    <3> QED BY <2>2, <2>4, <3>3 DEF PendingLead
  <2>6. Kept'
    BY <1>inv, <1>parts, <2>1, <2>2, <2>4, NumberedWrite DEF Kept, RestTyped, registry
  <2>7. QueuedLead'
    BY <1>inv, <2>1, <2>4 DEF QueuedLead, registry
  <2> QED BY <2>5, <2>6, <2>7, <1>goal
<1>5. ASSUME Begin PROVE DeltaInv'
  <2>1. ~tx.open /\ UNCHANGED <<store, nextId, registry, view>>
    BY <1>5 DEF Begin
  <2>2. tx'.ids = {} /\ tx'.deltas = <<>> /\ tx'.journal = <<>>
    BY <1>5 DEF Begin, NoTx
  <2>3. Base = store /\ Base' = store' /\ PendingLead'
    BY <1>typed, <1>inv, <2>1, <2>2, BackNone, NothingPending DEF Kept, Base
  <2>4. Kept' /\ QueuedLead'
    BY <1>inv, <2>1, <2>2, <2>3 DEF Kept, QueuedLead, registry
  <2> QED BY <2>3, <2>4, <1>goal
<1>closed. ASSUME tx' = NoTx
           PROVE  Base' = store' /\ PendingLead' /\ tx'.ids = {} /\ tx'.deltas = <<>> /\ tx'.journal = <<>>
  <2>1. tx'.ids = {} /\ tx'.deltas = <<>> /\ tx'.journal = <<>>
    BY <1>closed, NoTxTyped
  <2> QED BY <1>typed, <2>1, NothingPending
<1>6. ASSUME Commit PROVE DeltaInv'
  <2>1. UNCHANGED <<store, nextId>> /\ tx' = NoTx
    BY <1>6 DEF Commit
  <2>2. Base' = store' /\ PendingLead' /\ tx'.ids = {} /\ tx'.deltas = <<>> /\ tx'.journal = <<>>
    BY <1>closed, <2>1
  <2>3. CASE HasPending
    <3>1. Flush(store, pendingIds \cup tx.ids, pendingDeltas \o tx.deltas)
      BY <1>6, <2>3 DEF Commit
    <3>2. ASSUME NEW v \in Traced, view[v].registered
          PROVE  Leads(view[v].result, pendingDeltas \o tx.deltas, Query(store))
      <4>1. Leads(view[v].result, pendingDeltas, Query(Base)) /\ Leads(Query(Base), tx.deltas, Query(store))
        BY <1>inv, <3>2 DEF QueuedLead, PendingLead
      <4>2. view[v].result \in Rows(Match) /\ pendingDeltas \in Seq(Delta) /\ tx.deltas \in Seq(Delta)
        BY <1>parts DEF ViewTyped, RegistryTyped, TxTyped, View
      <4> QED BY <4>1, <4>2, LeadsOn
    <3>3. QueuedLead'
      BY <1>parts, <2>1, <2>2, <3>1, <3>2, FlushLeads
    <3>4. Kept'
      BY <1>inv, <2>1, <2>2, <3>1 DEF Kept, Flush
    <3> QED BY <2>2, <3>3, <3>4, <1>goal
  <2>4. CASE ~HasPending
    <3>1. UNCHANGED <<registry, view>> /\ tx.deltas = <<>>
      BY <1>6, <1>inv, <2>4 DEF Commit, HasPending, Kept
    <3>2. Query(Base) = Query(store)
      <4>1. Leads(Query(Base), <<>>, Query(store)) /\ Leads(Query(Base), <<>>, Query(Base))
        BY <1>inv, <1>parts, <3>1, LeadsNowhere DEF PendingLead
      <4> QED BY <4>1 DEF Leads
    <3>3. QueuedLead'
      BY <1>inv, <2>1, <2>2, <3>1, <3>2 DEF QueuedLead, registry
    <3>4. Kept'
      BY <1>inv, <2>1, <2>2, <3>1 DEF Kept, registry
    <3> QED BY <2>2, <3>3, <3>4, <1>goal
  <2> QED BY <2>3, <2>4
<1>7. ASSUME Rollback PROVE DeltaInv'
  <2>1. UNCHANGED nextId /\ tx' = NoTx /\ store' = Base
    BY <1>7, RestoredIsBack DEF Rollback, Base
  <2>2. Base' = store' /\ PendingLead' /\ tx'.ids = {} /\ tx'.deltas = <<>> /\ tx'.journal = <<>>
    BY <1>closed, <2>1
  <2>3. CASE HasPending /\ ~RollbackPanics
    <3>1. Flush(store', pendingIds \cup tx.ids, pendingDeltas)
      BY <1>7, <2>3 DEF Rollback
    <3>2. QueuedLead'
      BY <1>inv, <1>parts, <2>1, <2>2, <3>1, FlushLeads DEF QueuedLead
    <3>3. Kept'
      BY <1>inv, <2>1, <2>2, <3>1 DEF Kept, Flush
    <3> QED BY <2>2, <3>2, <3>3, <1>goal
  <2>4. CASE ~(HasPending /\ ~RollbackPanics)
    <3>1. UNCHANGED <<registry, view>>
      BY <1>7, <2>4 DEF Rollback
    <3>2. QueuedLead' /\ Kept'
      BY <1>inv, <2>1, <2>2, <3>1 DEF QueuedLead, Kept, registry
    <3> QED BY <2>2, <3>2, <1>goal
  <2> QED BY <2>3, <2>4
<1>8. ASSUME Microtask PROVE DeltaInv'
  <2>1. UNCHANGED <<store, nextId, tx>> /\ Flush(store, pendingIds, pendingDeltas)
    BY <1>8 DEF Microtask
  <2>2. Base' = Base
    BY <2>1 DEF Base
  <2>3. PendingLead'
    BY <1>inv, <2>1, <2>2 DEF PendingLead
  <2>4. QueuedLead'
    BY <1>inv, <1>parts, <2>1, <2>2, FlushLeads DEF QueuedLead
  <2>5. Kept'
    BY <1>inv, <2>1, <2>2 DEF Kept, Flush
  <2> QED BY <2>3, <2>4, <2>5, <1>goal
<1>9. ASSUME NEW u \in View, Open(u) PROVE DeltaInv'
  <2>1. UNCHANGED <<store, nextId, registry, tx>>
    BY <1>9 DEF Open
  <2>2. Base' = Base
    BY <2>1 DEF Base
  <2>3. PendingLead' /\ Kept'
    BY <1>inv, <2>1, <2>2 DEF PendingLead, Kept, registry
  <2>4. QueuedLead'
    <3> SUFFICES ASSUME NEW v \in Traced, view'[v].registered
                 PROVE  Leads(view'[v].result, pendingDeltas, Query(Base))
      BY <2>1, <2>2 DEF QueuedLead, registry
    <3>1. CASE v # u
      BY <1>9, <1>inv, <3>1, OpenFields DEF QueuedLead, View
    <3>2. CASE v = u
      <4>1. pendingIds = {} /\ ~tx.open /\ view'[v].result = Query(store)
        BY <1>9, <3>2, OpenFields DEF Open
      <4>2. pendingDeltas = <<>> /\ Base = store
        BY <1>typed, <1>inv, <4>1, BackNone DEF Kept, Base
      <4> QED BY <1>parts, <4>1, <4>2, LeadsNowhere
    <3> QED BY <3>1, <3>2
  <2> QED BY <2>3, <2>4, <1>goal
<1>10. ASSUME NEW u \in View, Subscribe(u) \/ Unsubscribe(u) PROVE DeltaInv'
  <2>1. UNCHANGED <<store, nextId, registry, tx>>
    BY <1>10 DEF Subscribe, Unsubscribe
  <2>2. Base' = Base
    BY <2>1 DEF Base
  <2>3. PendingLead' /\ Kept'
    BY <1>inv, <2>1, <2>2 DEF PendingLead, Kept, registry
  <2>4. \A v \in View : view'[v].registered = view[v].registered /\ view'[v].result = view[v].result
    BY <1>10, SubscribeFields
  <2>5. QueuedLead'
    BY <1>inv, <2>1, <2>2, <2>4 DEF QueuedLead, registry, View
  <2> QED BY <2>3, <2>5, <1>goal
<1>11. CASE UNCHANGED vars
  <2>1. UNCHANGED <<store, nextId, pendingIds, pendingDeltas, tx, view>>
    BY <1>11 DEF vars
  <2> QED BY <2>1, <1>goal, DeltaFrame
<1> QED BY <1>1, <1>2, <1>3, <1>4, <1>5, <1>6, <1>7, <1>8, <1>9, <1>10, <1>11 DEF Next

LEMMA PlainUse ==
  ASSUME Usage = {}
  PROVE  Spec => [](TypeOK /\ DueInv /\ DeltaInv)
<1> DEFINE Inv == TypeOK /\ DueInv /\ DeltaInv
<1>1. Init => Inv
  BY TypeInit, DueInit, DeltaInit
<1>2. Inv /\ [Next]_vars => Inv'
  BY TypeStep, DueStep, DeltaStep DEF DueInv
<1> QED BY <1>1, <1>2, PTL DEF Spec

(* As long as no statement fails part-way, no table is cleared, nobody      *)
(* writes beside an open transaction and no handle is traced in the middle  *)
(* of changes, the queued and pending deltas are exactly what takes the     *)
(* result of a trace() query to what the query returns: begin(), commit()   *)
(* and rollback() and the flushes between them lose, repeat and reorder     *)
(* none (live_runtime.rs, transaction.rs).                                  *)
THEOREM DeltasAlwaysComplete ==
  ASSUME Usage = {}
  PROVE  Spec => []DeltasComplete
<1>1. TypeOK /\ DueInv /\ DeltaInv => DeltasComplete
  <2> SUFFICES ASSUME TypeOK, DeltaInv, NEW v \in Traced, view[v].registered
               PROVE  Applied(view[v].result, Selected(pendingDeltas \o tx.deltas)) = Query(store)
    BY DEF DeltasComplete
  <2>1. Leads(view[v].result, pendingDeltas, Query(Base)) /\ Leads(Query(Base), tx.deltas, Query(store))
    BY DEF DeltaInv, QueuedLead, PendingLead
  <2>2. view[v].result \in Rows(Match) /\ pendingDeltas \in Seq(Delta) /\ tx.deltas \in Seq(Delta)
    BY TypeParts DEF ViewTyped, RegistryTyped, TxTyped, View
  <2>3. Leads(view[v].result, pendingDeltas \o tx.deltas, Query(store))
    BY <2>1, <2>2, LeadsOn
  <2> QED BY <2>3 DEF Leads
<1> QED BY <1>1, PlainUse, PTL

(* What the subscriber of an observe() handle was told last is the result   *)
(* the handle holds (reactive_bridge.rs, on_change), whatever clients do:   *)
(* a refresh that calls nobody back has changed nothing.                    *)
THEOREM ObserversAlwaysAgree == Spec => [](\A v \in View \ Traced : Agrees(v))
<1> DEFINE Told0 == \A v \in View \ Traced : Agrees(v)
           Inv == TypeOK /\ DueInv /\ Told0
<1>1. Init => Inv
  <2>1. Init => Told0
    BY DEF Init, Unused, Agrees
  <2> QED BY <2>1, TypeInit, DueInit
<1>2. Inv /\ [Next]_vars => Inv'
  <2> SUFFICES ASSUME Inv, [Next]_vars PROVE Inv'
    OBVIOUS
  <2>1. TypeOK' /\ DueInv'
    BY TypeStep, DueStep DEF DueInv
  <2>2. ASSUME NEW v \in View \ Traced PROVE Agrees(v)'
    <3>1. Fed(v) /\ Shape
      BY DEF Fed, DueInv
    <3> QED BY <3>1, AgreesStep
  <2> QED BY <2>1, <2>2
<1>3. Inv => Told0
  OBVIOUS
<1> QED BY <1>1, <1>2, <1>3, PTL DEF Spec

(* What any subscriber has been told adds up to the result its query holds. *)
(* A trace() client is told added and removed rows only                     *)
(* (reactive_bridge.rs, the delta handles), so this needs that the deltas   *)
(* are complete, as DeltasAlwaysComplete says, unless nothing is traced.    *)
THEOREM ClientsAlwaysAgree ==
  ASSUME Usage = {} \/ Traced = {}
  PROVE  Spec => []ClientsAgree
<1>1. CASE Traced = {}
  <2>1. (\A v \in View \ Traced : Agrees(v)) => ClientsAgree
    BY <1>1 DEF Agrees, ClientsAgree
  <2> QED BY <2>1, ObserversAlwaysAgree, PTL
<1>2. CASE Usage = {}
  <2>1. DeltaInv /\ (\A v \in View \ Traced : Agrees(v)) => ClientsAgree
    BY DEF Agrees, ClientsAgree, DeltaInv
  <2>2. Spec => [](TypeOK /\ DueInv /\ DeltaInv)
    BY <1>2, PlainUse
  <2> QED BY <2>1, <2>2, ObserversAlwaysAgree, PTL
<1> QED BY <1>1, <1>2
=============================================================================
