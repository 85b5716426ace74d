---------------------------- MODULE LiveRuntime ----------------------------
(***************************************************************************)
(* Live queries over one table (crates/database: live_runtime.rs,          *)
(* transaction.rs, query_builder.rs, reactive_bridge.rs).                  *)
(*                                                                         *)
(* Every write changes the store at once and is announced to LiveRegistry, *)
(* which queues ids and row deltas for a flush.  The flush is a microtask: *)
(* it runs when the JavaScript code that wrote returns to the event loop,  *)
(* after any number of further calls.  It feeds the snapshot lane, whose   *)
(* queries read the store again, and the delta lane, whose queries only    *)
(* see the queued deltas, and then forgets queries without subscribers.    *)
(* A transaction announces its writes at commit or rollback, and flushes.  *)
(*                                                                         *)
(* One action is one synchronous call from JavaScript, or one microtask.   *)
(* The queries select the rows whose content is in Match.                  *)
(***************************************************************************)
EXTENDS Integers, Sequences, FiniteSets

CONSTANTS RowId,      \* row ids: 1..n, handed out once each (reserve_row_ids)
          Content,    \* the contents of a row
          Match,      \* the contents that the queries select
          Gone,       \* stands for the content of a row that is not there
          Patched,    \* observe() handles whose plan can be patched row by row
          Requeried,  \* observe() handles that execute the query again
          Traced,     \* trace() handles
          Usage,      \* what clients do beyond the plain: see below
          MaxDeltas,  \* bound: queued deltas, and journal entries
          MaxQueued,  \* bound: microtasks in the queue
          MaxHandles  \* bound: how many of the handles are ever used

\* Usage: "mixed" direct writes while a transaction is open, "early_trace" trace()
\* with changes queued or a transaction open, "failing" a statement that fails
\* after changing some rows, "clear" Database.clear or clearTable.
ASSUME UsageAssumption == Usage \subseteq {"mixed", "early_trace", "failing", "clear"}
ASSUME MatchAssumption == Match \subseteq Content /\ Gone \notin Content
ASSUME HandleAssumption ==
  Patched \cap Requeried = {} /\ Patched \cap Traced = {} /\ Requeried \cap Traced = {}
ASSUME BoundAssumption == MaxDeltas \in Nat /\ MaxQueued \in Nat /\ MaxHandles \in Nat

VARIABLES store,          \* the rows: a function from ids to contents
          nextId,         \* the next row id
          pendingIds,     \* LiveRegistry.pending_changes, for the table
          pendingDeltas,  \* LiveRegistry.pending_deltas, for the table
          scheduled,      \* LiveRegistry.flush_scheduled
          queued,         \* flush microtasks in the event loop's queue
          tx,             \* the open JsTransaction, if any, with its pending changes
          view,           \* the query handles
          crashed,        \* a panic has aborted the WebAssembly instance
          lost            \* history: ids changed without an announcement since

vars == <<store, nextId, pendingIds, pendingDeltas, scheduled, queued, tx, view, crashed, lost>>
registry == <<pendingIds, pendingDeltas, scheduled, queued>>

View == Patched \cup Requeried \cup Traced

Delta == [id : RowId, c : Content, d : {1, -1}]
Change == [id : RowId, old : Content \cup {Gone}, new : Content \cup {Gone}]

Nothing == [x \in {} |-> x]
NoTx == [open |-> FALSE, ids |-> {}, deltas |-> <<>>, journal |-> <<>>]

\* A client counts each row it knows of: it is given whole results by observe(),
\* and added and removed rows, without their order, by trace().
Counts(R) ==
  [p \in RowId \X Match |-> IF p[1] \in DOMAIN R /\ R[p[1]] = p[2] THEN 1 ELSE 0]

Unused == [opened |-> FALSE, registered |-> FALSE, subscribed |-> FALSE,
           result |-> Nothing, client |-> Counts(Nothing)]

TypeOK ==
  /\ DOMAIN store \subseteq RowId /\ store \in [DOMAIN store -> Content]
  /\ nextId \in Nat /\ pendingIds \subseteq RowId /\ pendingDeltas \in Seq(Delta)
  /\ scheduled \in BOOLEAN /\ queued \in 0..MaxQueued
  /\ tx.open \in BOOLEAN /\ tx.ids \subseteq RowId
  /\ tx.deltas \in Seq(Delta) /\ tx.journal \in Seq(Change)
  /\ \A v \in View : LET r == view[v].result
                     IN  DOMAIN r \subseteq RowId /\ r \in [DOMAIN r -> Match]
  /\ crashed \in BOOLEAN /\ lost \subseteq RowId

Init ==
  /\ store = Nothing /\ nextId = 1
  /\ pendingIds = {} /\ pendingDeltas = <<>> /\ scheduled = FALSE /\ queued = 0
  /\ tx = NoTx
  /\ view = [v \in View |-> Unused]
  /\ crashed = FALSE /\ lost = {}

-----------------------------------------------------------------------------
Put(f, id, e) == [x \in DOMAIN f \cup {id} |-> IF x = id THEN e ELSE f[x]]
Drop(f, ids) == [x \in DOMAIN f \ ids |-> f[x]]

Query(S) == [x \in {y \in DOMAIN S : S[y] \in Match} |-> S[x]]

At(S, id) == IF id \in DOMAIN S THEN S[id] ELSE Gone
Become(S, id, to) == IF to = Gone THEN Drop(S, {id}) ELSE Put(S, id, to)

\* The deltas of one row's change: the old row removed, the new row added.
\* Mutant: an update does not remove the old row.
DeltasOfUpsert(id, to) ==
  IF to # Gone THEN <<[id |-> id, c |-> to, d |-> 1]>>
  ELSE IF id \in DOMAIN store THEN <<[id |-> id, c |-> store[id], d |-> -1]>> ELSE <<>>

DeltasOf(id, to) ==
  (IF id \in DOMAIN store THEN <<[id |-> id, c |-> store[id], d |-> -1]>> ELSE <<>>)
  \o (IF to # Gone THEN <<[id |-> id, c |-> to, d |-> 1]>> ELSE <<>>)

\* The row changes: an insert takes the next id, an update or a delete an existing one.
RowChange(id, to) ==
  /\ \/ id = nextId /\ id \in RowId /\ to # Gone /\ nextId' = nextId + 1
     \/ id \in DOMAIN store /\ to # store[id] /\ UNCHANGED nextId
  /\ store' = Become(store, id, to)

-----------------------------------------------------------------------------
(* The flush: one new state per handle.  Handles without a subscriber are   *)
(* passed over and then dropped from the registry (gc_dead_queries).        *)
Watched(v) == view[v].registered /\ view[v].subscribed

\* Mutant: deltas pass the filter unseen.
Unselected(ds) == ds

Selected(ds) ==
  LET f[n \in 0..Len(ds)] ==
        IF n = 0 THEN <<>>
        ELSE IF ds[n].c \in Match THEN Append(f[n - 1], ds[n]) ELSE f[n - 1]
  IN  f[Len(ds)]

\* VisibleResultStore.apply: an added row replaces the row of its id.
Applied(R, ds) ==
  LET f[n \in 0..Len(ds)] ==
        IF n = 0 THEN R
        ELSE IF ds[n].d = 1 THEN Put(f[n - 1], ds[n].id, ds[n].c) ELSE Drop(f[n - 1], {ds[n].id})
  IN  f[Len(ds)]

\* Mutant: equal deltas of a batch are taken for one.
OccursAtAll(ds, p, d) == IF \E n \in DOMAIN ds : ds[n] = [id |-> p[1], c |-> p[2], d |-> d] THEN 1 ELSE 0

Occurrences(ds, p, d) == Cardinality({n \in DOMAIN ds : ds[n] = [id |-> p[1], c |-> p[2], d |-> d]})

OnDeltas(w, ds) ==
  [w EXCEPT !.result = Applied(@, ds),
            !.client = [p \in DOMAIN @ |-> @[p] + Occurrences(ds, p, 1) - Occurrences(ds, p, -1)]]

\* The new result of observe(): subscribers are called only if it differs.
\* Mutant: results of the same size are taken for equal.
RefreshedBySize(w, R) ==
  IF Cardinality(DOMAIN R) = Cardinality(DOMAIN w.result)
    THEN [w EXCEPT !.result = R]
    ELSE [w EXCEPT !.result = R, !.client = Counts(R)]

Refreshed(w, R) == IF R = w.result THEN w ELSE [w EXCEPT !.result = R, !.client = Counts(R)]

\* patch_row_by_id for each changed id.
\* Mutant: the predicate is not evaluated again.
PatchedUnfiltered(w, S, ids) ==
  [x \in (DOMAIN w.result \ ids) \cup (DOMAIN S \cap ids) |-> IF x \in ids THEN S[x] ELSE w.result[x]]

\* Mutant: rows that no longer match stay.
PatchedInPlace(w, S, ids) ==
  [x \in DOMAIN w.result \cup (DOMAIN Query(S) \cap ids) |->
     IF x \in DOMAIN Query(S) \cap ids THEN S[x] ELSE w.result[x]]

PatchedResult(w, S, ids) ==
  [x \in (DOMAIN w.result \ ids) \cup (DOMAIN Query(S) \cap ids) |->
     IF x \in ids THEN S[x] ELSE w.result[x]]

Flushed(v, S, ids, ds) ==
  CASE ~Watched(v) -> [view[v] EXCEPT !.registered = FALSE]
    [] Watched(v) /\ v \in Traced -> OnDeltas(view[v], Selected(ds))
    [] Watched(v) /\ v \in Patched -> Refreshed(view[v], PatchedResult(view[v], S, ids))
    [] Watched(v) /\ v \in Requeried -> Refreshed(view[v], IF ids = {} THEN view[v].result ELSE Query(S))

\* Mutant: flush_scheduled is not reset.
FlushKeepsFlag(S, ids, ds) ==
  /\ view' = [v \in View |-> Flushed(v, S, ids, ds)]
  /\ pendingIds' = {} /\ pendingDeltas' = <<>> /\ UNCHANGED scheduled

Flush(S, ids, ds) ==
  /\ view' = [v \in View |-> Flushed(v, S, ids, ds)]
  /\ pendingIds' = {} /\ pendingDeltas' = <<>> /\ scheduled' = FALSE

-----------------------------------------------------------------------------
(* on_table_change_delta: queue the change, and a microtask if none is due. *)
\* Mutant: the flag is set before it is tested, so that no microtask is queued.
AnnounceFlagged(ids, ds) ==
  /\ pendingIds' = pendingIds \cup ids
  /\ pendingDeltas' = pendingDeltas \o ds
  /\ scheduled' = TRUE
  /\ UNCHANGED queued

Announce(ids, ds) ==
  /\ pendingIds' = pendingIds \cup ids
  /\ pendingDeltas' = pendingDeltas \o ds
  /\ scheduled' = TRUE
  /\ queued' = IF scheduled THEN queued ELSE queued + 1

CanAnnounce(ds) == (scheduled \/ queued < MaxQueued) /\ Len(pendingDeltas) + Len(ds) <= MaxDeltas

\* query_count() > 0: otherwise a direct write is not announced, except by a
\* DELETE without a condition.
SomeRegistered == \E v \in View : view[v].registered

DirectAllowed == ~crashed /\ (tx.open => "mixed" \in Usage)

\* INSERT, UPDATE and DELETE statements outside a transaction.
DirectWrite(id, to) ==
  /\ DirectAllowed
  /\ (SomeRegistered \/ to = Gone) /\ CanAnnounce(DeltasOf(id, to))
  /\ RowChange(id, to)
  /\ Announce({id}, DeltasOf(id, to))
  /\ lost' = lost \ {id}
  /\ UNCHANGED <<tx, view, crashed>>

QuietWrite(id, to) ==
  /\ DirectAllowed /\ ~SomeRegistered
  /\ RowChange(id, to)
  /\ UNCHANGED <<registry, tx, view, crashed, lost>>

\* A statement over several rows that fails part-way keeps the rows it has
\* changed and returns before it announces them.
FailingWrite(id, to) ==
  /\ DirectAllowed /\ "failing" \in Usage
  /\ RowChange(id, to)
  /\ lost' = lost \cup {id}
  /\ UNCHANGED <<registry, tx, view, crashed>>

Clear ==
  /\ DirectAllowed /\ "clear" \in Usage
  /\ store' = Nothing
  /\ lost' = lost \cup DOMAIN store
  /\ UNCHANGED <<nextId, registry, tx, view, crashed>>

-----------------------------------------------------------------------------
Begin ==
  /\ ~crashed /\ ~tx.open
  /\ tx' = [NoTx EXCEPT !.open = TRUE]
  /\ UNCHANGED <<store, nextId, registry, view, crashed, lost>>

\* A statement inside the transaction; when it fails part-way, the rows it
\* changed are in the journal but not in the pending changes.
TxWrite(id, to, fails) ==
  /\ ~crashed /\ tx.open /\ (fails => "failing" \in Usage)
  /\ Len(tx.journal) < MaxDeltas
  /\ RowChange(id, to)
  /\ LET entry == [id |-> id, old |-> At(store, id), new |-> to]
     IN  IF fails
           THEN /\ tx' = [tx EXCEPT !.journal = Append(@, entry)]
                /\ lost' = lost \cup {id}
           ELSE /\ tx' = [tx EXCEPT !.journal = Append(@, entry), !.ids = @ \cup {id},
                                    !.deltas = @ \o DeltasOf(id, to)]
                /\ UNCHANGED lost
  /\ UNCHANGED <<registry, view, crashed>>

HasPending == pendingIds \cup tx.ids # {}

\* The microtask that on_table_change may have queued outlives the flush.
QueuedAfterFlush == IF tx.ids # {} /\ ~scheduled THEN queued + 1 ELSE queued

Commit ==
  /\ ~crashed /\ tx.open /\ QueuedAfterFlush <= MaxQueued
  /\ IF HasPending
       THEN /\ Flush(store, pendingIds \cup tx.ids, pendingDeltas \o tx.deltas)
            /\ queued' = QueuedAfterFlush
       ELSE UNCHANGED <<registry, view>>
  /\ lost' = lost \ tx.ids
  /\ tx' = NoTx
  /\ UNCHANGED <<store, nextId, crashed>>

\* Journal.rollback: newest entry first, each undone if it still can be.
Undo(S, e) ==
  IF e.old = Gone THEN Drop(S, {e.id})
  ELSE IF (e.new = Gone) = (e.id \notin DOMAIN S) THEN Put(S, e.id, e.old) ELSE S

Restored(es) ==
  LET f[n \in 0..Len(es)] == IF n = 0 THEN store ELSE Undo(f[n - 1], es[Len(es) - n + 1])
  IN  f[Len(es)]

\* JsTransaction.rollback flushes while it still holds the table cache: a
\* subscribed observe() query that looks at the store then panics.
RollbackPanics == \E v \in Patched \cup Requeried : Watched(v)

Unannounced == {id \in RowId : At(store', id) # At(store, id)} \ tx.ids

Rollback ==
  /\ ~crashed /\ tx.open /\ QueuedAfterFlush <= MaxQueued
  /\ store' = Restored(tx.journal)
  /\ tx' = NoTx
  /\ lost' = (lost \ tx.ids) \cup Unannounced
  /\ UNCHANGED nextId
  /\ \/ /\ ~HasPending
        /\ UNCHANGED <<registry, view, crashed>>
     \/ /\ HasPending /\ ~RollbackPanics
        /\ Flush(store', pendingIds \cup tx.ids, pendingDeltas)
        /\ queued' = QueuedAfterFlush
        /\ UNCHANGED crashed
     \/ /\ HasPending /\ RollbackPanics
        /\ crashed' = TRUE
        /\ UNCHANGED <<registry, view>>

-----------------------------------------------------------------------------
Microtask ==
  /\ ~crashed /\ queued > 0
  /\ queued' = queued - 1
  /\ Flush(store, pendingIds, pendingDeltas)
  /\ UNCHANGED <<store, nextId, tx, crashed, lost>>

\* observe() and trace() run the query and register a new handle.
Open(v) ==
  /\ ~crashed /\ ~view[v].subscribed
  /\ view[v].opened \/ Cardinality({u \in View : view[u].opened}) < MaxHandles
  /\ v \in Traced /\ "early_trace" \notin Usage => pendingIds = {} /\ ~tx.open
  /\ view' = [view EXCEPT ![v] = [Unused EXCEPT !.opened = TRUE, !.registered = TRUE,
                                                 !.result = Query(store)]]
  /\ UNCHANGED <<store, nextId, registry, tx, crashed, lost>>

\* The client calls getResult() and subscribe() on a handle it has.
Subscribe(v) ==
  /\ ~crashed /\ view[v].opened /\ ~view[v].subscribed
  /\ view' = [view EXCEPT ![v].subscribed = TRUE, ![v].client = Counts(view[v].result)]
  /\ UNCHANGED <<store, nextId, registry, tx, crashed, lost>>

Unsubscribe(v) ==
  /\ ~crashed /\ view[v].subscribed
  /\ view' = [view EXCEPT ![v].subscribed = FALSE, ![v].client = Counts(Nothing)]
  /\ UNCHANGED <<store, nextId, registry, tx, crashed, lost>>

Next ==
  \/ \E id \in RowId, to \in Content \cup {Gone} :
       \/ DirectWrite(id, to) \/ QuietWrite(id, to) \/ FailingWrite(id, to)
       \/ \E fails \in BOOLEAN : TxWrite(id, to, fails)
  \/ Clear \/ Begin \/ Commit \/ Rollback \/ Microtask
  \/ \E v \in View : Open(v) \/ Subscribe(v) \/ Unsubscribe(v)

Spec == Init /\ [][Next]_vars

\* The event loop runs queued microtasks before it does anything else.
LiveSpec == Spec /\ WF_vars(Microtask)

-----------------------------------------------------------------------------
Snapshot == Patched \cup Requeried

Unflushed == pendingIds \cup tx.ids \cup lost

(* Whatever a registered observe() query shows wrongly is a row whose id is *)
(* still due: queued for a flush, pending in the open transaction, or one   *)
(* of those whose change was never announced.  A patched query reads only   *)
(* the rows it is told of, so an id dropped on the way is stale for ever.   *)
StaleRowsAreDue ==
  \A v \in Snapshot, id \in RowId :
    ~crashed /\ view[v].registered /\ At(view[v].result, id) # At(Query(store), id) => id \in Unflushed

(* The deltas that are queued or pending in the transaction are exactly     *)
(* what takes the result of a registered trace() query from what it is to   *)
(* what the query returns now; none is missing, repeated or out of order.   *)
DeltasComplete ==
  \A v \in Traced :
    ~crashed /\ view[v].registered =>
      Applied(view[v].result, Selected(pendingDeltas \o tx.deltas)) = Query(store)

(* What a subscriber has been told, as whole results or as added and        *)
(* removed rows, adds up to the result that its query holds: a callback is  *)
(* neither skipped nor called with rows that it already has.                *)
ClientsAgree ==
  \A v \in View : ~crashed /\ view[v].subscribed => view[v].client = Counts(view[v].result)

(* A queued change is never forgotten: as long as one is queued the flush   *)
(* is marked as scheduled and a microtask is on its way, also when commits  *)
(* and rollbacks have flushed in between and left microtasks behind.        *)
FlushOnItsWay ==
  ~crashed /\ (pendingIds # {} \/ pendingDeltas # <<>> \/ scheduled) => scheduled /\ queued > 0

(* The subscribers of registered queries are eventually told of every       *)
(* queued change: what all of them know comes to agree with the store, up   *)
(* to rows that the open transaction has changed or never announced ones.   *)
UpToDate(v) ==
  LET shown == Counts(Query(store))
  IN  \A p \in RowId \X Match : p[1] \in tx.ids \cup lost \/ view[v].client[p] = shown[p]

EventuallyTold ==
  (\E v \in View : Watched(v)) /\ pendingIds # {} ~> crashed \/ \A v \in View : Watched(v) => UpToDate(v)

(* js_surface.rs: a subscribed callback "is called whenever data changes":  *)
(* when the rows that a query selects change, and the change is announced,  *)
(* each subscribed handle of it is registered and a flush will reach it.    *)
WillBeCalled(v) == view[v].registered /\ (scheduled \/ tx.open)

SubscribersHear ==
  [][\A v \in View :
       view[v].subscribed /\ Query(store') # Query(store) /\ view' = view /\ lost' = lost /\ ~crashed'
         => WillBeCalled(v)']_vars

(* transaction.rs: rollback goes on to "Notify Live Query of rollback       *)
(* changes", which it cannot do without a panic.                            *)
RollbackNotifies == [][Rollback => ~crashed']_vars
=============================================================================
