---------------------------- MODULE GraphqlLive ----------------------------
(***************************************************************************)
(* A GraphQL subscription (crates/database: reactive_bridge/               *)
(* graphql_observable.rs, js_surface.rs, live_runtime.rs) next to the      *)
(* observe() queries of LiveAnswers, over the same tables.  A subscription *)
(* that has neither order nor limit is on the delta lane: its root rows    *)
(* are a view that row deltas maintain, table after table.  The others are *)
(* on the snapshot lane: the root rows are refreshed as a whole.  Both     *)
(* then invalidate what the change can have affected, render the rest from *)
(* their caches, and send a patched payload if it differs.                 *)
(***************************************************************************)
EXTENDS LiveAnswers, GraphqlBatch

VARIABLES stage,  \* "none"; "silent": subscribeGraphql() was called; "listening": with a callback
          obs,    \* the observable: [batch, payload] and, as history, what the callback was
                  \* last called with, heard, and what has gone wrong by the code's design, slips
          view,   \* delta lane: the rows of MaterializedView by slot, and the free slots
          queue   \* delta lane: pending_deltas, in order

gvars == <<stage, obs, view, queue>>

\* A selection: the root has no joins, and a node is below one that comes before it.
\* It is on the delta lane only if it has neither order nor limit.
IsNode(d, e, m) ==
  /\ IsQuery(e) /\ e.joins = <<>> /\ e.root \in DOMAIN d
  /\ e.parent \in 0..(m - 1) /\ e.pcol \in Column /\ e.ccol \in Column /\ e.many \in BOOLEAN

ASSUME NestedAssumption ==
  \A s \in Scenario :
    /\ s.api # "rows" =>
         /\ s.q.joins = <<>> /\ DOMAIN s.q.nested = 1..Len(s.q.nested)
         /\ Len(s.q.nested) \in Nat /\ \A m \in DOMAIN s.q.nested : IsNode(s.db, s.q.nested[m], m)
    /\ s.api = "delta" => ~s.q.ordered /\ s.q.limit = 0

\* What stands for an empty slot is not a row.
ASSUME HoleAssumption ==
  \A s \in Scenario : \A t \in DOMAIN s.db :
    \A c \in s.db[t] \cup s.inserts[t] \cup s.updates[t] : \A i \in 1..MaxId : WithId(c, i) # Hole

RootRows(rows) == RowsAt(q.root, rows)

GraphqlInit ==
  /\ Init
  /\ stage = "none" /\ queue = [t \in DOMAIN db |-> <<>>]
  /\ obs = [batch |-> NewBatch, payload |-> NoPayload, heard |-> <<>>, slips |-> {}]
  /\ view = [slots |-> <<>>, free |-> <<>>]

-----------------------------------------------------------------------------
(* The tables change as before; the delta lane is given rows, not ids.      *)
DeltasOf(d, rows) == SetToSeq({[d |-> d, row |-> r] : r \in rows})

GraphqlStatement ==
  /\ Statement
  /\ queue' = IF scenario.api = "delta"
              THEN [t \in DOMAIN db |-> queue[t] \o DeltasOf(-1, db[t] \ db'[t]) \o DeltasOf(1, db'[t] \ db[t])]
              ELSE queue
  /\ UNCHANGED <<stage, obs, view>>

\* subscribeGraphql().
Create ==
  /\ scenario.api # "rows" /\ stage = "none" /\ stage' = "silent"
  /\ result' = Answer(db, q)
  /\ runtime' = IF scenario.api = "snapshot" /\ Subsettable THEN NewRuntime(db, q, result') ELSE Empty
  /\ view' = IF scenario.api = "delta" THEN [slots |-> RootRows(result'), free |-> <<>>] ELSE view
  /\ UNCHANGED <<scenario, tables, opened, window, told, obs, queue>>

-----------------------------------------------------------------------------
(* Responding to a change that batch has been told of, with these root rows *)
(* (materialize_response_if_dirty and emit).  A list that comes from the    *)
(* cache comes with the patch that was applied when it went in: a splice is *)
(* applied again.                                                           *)
SplicedAgain(b, rows) == b.patch.kind = "splice" /\ rows # <<>> /\ InPlace(b, rows) /\ b.dirty = {}

Emitted(o, b, again) ==
  LET p == Materialized(o.payload, b)
  IN  [batch |-> b, payload |-> p,
       heard |-> IF Differs(o.payload, b) THEN p.array ELSE o.heard,
       slips |-> o.slips \cup (IF again THEN {"spliced"} ELSE {})]

Responded(o, rows) == Emitted(o, RenderList(db, q, o.batch, rows), SplicedAgain(o.batch, rows))

Invalidate(o, inv) == [o EXCEPT !.batch = ApplyInvalidation(q, @, inv), !.payload.dirty = TRUE]

\* Nothing is rendered while there is no callback.
Told(o, rows) == IF stage = "listening" THEN Responded(o, rows) ELSE o

Hearing(o) == [o EXCEPT !.heard = o.payload.array]

\* subscribe(): the callback is called with the current payload.
Subscribe ==
  /\ stage = "silent" /\ stage' = "listening"
  /\ obs' = Hearing(IF obs.payload.known /\ ~obs.payload.dirty THEN obs ELSE Responded(obs, RootRows(result)))
  /\ UNCHANGED <<vars, view, queue>>

Unsubscribe == stage = "listening" /\ stage' = "silent" /\ UNCHANGED <<vars, obs, view, queue>>

-----------------------------------------------------------------------------
(* The snapshot lane: refresh_root_rows.                                    *)
PatchesRoots == Patchable /\ Changed = {q.root}
RegroupsRoots == ~PatchesRoots /\ Subsettable /\ Known
ReadsRoots == q.root \in Changed \/ Subsettable

\* patch_row_by_id searches by row id.  A regrouped list need not be in that order: a
\* key that another row takes over keeps its place.  There the search may end
\* anywhere, at a row with this id or where none is found.
InIdOrder(rows) == \A m, n \in DOMAIN rows : m < n => rows[m][q.root].id < rows[n][q.root].id

PatchedAnywhere(rows, id, new) ==
  {Cut(rows, 1, n - 1) \o new \o Cut(rows, n + 1, Len(rows)) : n \in {m \in DOMAIN rows : rows[m][q.root].id = id}}
  \cup {Cut(rows, 1, n - 1) \o new \o Cut(rows, n, Len(rows)) : n \in 1..(Len(rows) + 1)}

NowVisible(id) == {RootRow(q, r) : r \in {x \in db[q.root] : x.id = id /\ x.v \notin q.hidden}}

Misplaced(rows, changed) ==
  LET at == Ascending(changed)
      patched[n \in 0..Len(at)] ==
        IF n = 0 THEN {rows}
        ELSE UNION {PatchedAnywhere(s, at[n], SetToSeq(NowVisible(at[n]))) : s \in patched[n - 1]}
  IN  patched[Len(at)]

RootsPatched == IF InIdOrder(result) THEN {Patched(db, q, result, ids[q.root])} ELSE Misplaced(result, ids[q.root])

RootsRefreshed ==
  /\ runtime' = IF RegroupsRoots /\ Roots # {} THEN Regrouped(db, q, runtime, Roots, q.root \in Changed) ELSE runtime
  /\ result' \in CASE ~ReadsRoots -> {result}
                   [] ReadsRoots /\ PatchesRoots -> RootsPatched
                   [] ReadsRoots /\ RegroupsRoots -> {IF Roots = {} THEN result ELSE Ungrouped(runtime')}
                   [] OTHER -> {Answer(db, q)}

\* A patch leaves the runtime behind; the next regrouping starts from there.
Behind(rt) ==
  LET fresh == NewRuntime(db, q, Whole(db, q))
  IN  Subsettable /\ (rt.groups # fresh.groups \/ rt.keyOf # fresh.keyOf)

NestsRoot == \E m \in DOMAIN q.nested : q.nested[m].root = q.root

\* What goes wrong by design in this flush, which may take the early return, and
\* whether the runtime is behind after it.
Slips(early) ==
  (IF RegroupsRoots /\ Roots # {} /\ "behind" \in obs.slips THEN {"regrouped"} ELSE {})
  \cup (IF PatchesRoots /\ ~InIdOrder(result) THEN {"misplaced"} ELSE {})
  \cup (IF early /\ NestsRoot THEN {"unseen"} ELSE {})
  \cup (IF Behind(runtime') THEN {"behind"} ELSE {})

\* on_change_inner.
SnapshotFlush ==
  /\ scenario.api = "snapshot" /\ stage # "none" /\ Drain
  /\ RootsRefreshed
  /\ LET inv == [root |-> result' # result,
                 dirty |-> IF RegroupsRoots THEN Roots ELSE ids[q.root], stable |-> FALSE,
                 tables |-> {}, rows |-> ids, keys |-> UNION {DirtyKeys(q, t, deltas[t]) : t \in DOMAIN db}]
         early == result' = result /\ Changed \subseteq {q.root}
         o == IF early THEN obs ELSE Told(Invalidate(obs, inv), RootRows(result'))
     IN  obs' = [o EXCEPT !.slips = (@ \ {"behind"}) \cup Slips(early)]
  /\ UNCHANGED <<window, told, stage, view, queue>>

-----------------------------------------------------------------------------
(* The delta lane.  VisibleResultStore: a row keeps its slot; a free slot   *)
(* is used again, the one freed last first.                                 *)
SlotsOf(v, id) == {n \in DOMAIN v.slots : v.slots[n] # Hole /\ v.slots[n].id = id}

Upserted(v, r) ==
  IF SlotsOf(v, r.id) # {} THEN [v EXCEPT !.slots[CHOOSE n \in SlotsOf(v, r.id) : TRUE] = r]
  ELSE IF v.free # <<>> THEN [slots |-> [v.slots EXCEPT ![Last(v.free)] = r], free |-> Front(v.free)]
  ELSE [v EXCEPT !.slots = Append(@, r)]

Removed(v, id) ==
  IF SlotsOf(v, id) = {} THEN v
  ELSE LET n == CHOOSE n \in SlotsOf(v, id) : TRUE
       IN  [slots |-> [v.slots EXCEPT ![n] = Hole], free |-> Append(v.free, n)]

WithDelta(v, d) == IF d.d > 0 THEN Upserted(v, d.row) ELSE Removed(v, d.row.id)

Applied(v, out) ==
  LET applied[n \in 0..Len(out)] == IF n = 0 THEN v ELSE WithDelta(applied[n - 1], out[n])
  IN  applied[Len(out)]

ViewRows(v) == Picked(v.slots, ToSet(v.slots) \ {Hole})

\* output_deltas_preserve_root_positions: every row goes once and comes once.
PositionsKept(out) ==
  LET idsOf(d) == {out[n].row.id : n \in {m \in DOMAIN out : out[m].d = d}}
  IN  idsOf(1) = idsOf(-1) /\ Len(out) = 2 * Cardinality(idsOf(1))

\* on_table_change_inner.  The selection has relations: it goes on without output.
Output(t) == IF t = q.root THEN Picked(queue[t], {d \in ToSet(queue[t]) : d.row.v \notin q.hidden}) ELSE <<>>

OutputApplied(s, t, out, v) ==
  [view |-> v,
   obs |-> Told(Invalidate(s.obs,
                  [root |-> out # <<>>, dirty |-> {out[n].row.id : n \in DOMAIN out}, stable |-> PositionsKept(out),
                   tables |-> {t}, rows |-> [u \in DOMAIN db |-> IF u = t THEN ids[t] ELSE {}],
                   keys |-> DirtyKeys(q, t, deltas[t])]),
                ViewRows(v))]

OnTableChange(s, t) == OutputApplied(s, t, Output(t), Applied(s.view, Output(t)))

AfterTables(order) ==
  LET after[n \in 0..Len(order)] ==
        IF n = 0 THEN [view |-> view, obs |-> obs] ELSE OnTableChange(after[n - 1], order[n])
  IN  after[Len(order)]

\* flush_delta_lane: the tables come in the order of a hash map.
DeltaFlush ==
  /\ scenario.api = "delta" /\ stage # "none" /\ Drain
  /\ queue' = [t \in DOMAIN db |-> <<>>]
  /\ \E order \in SetToSeqs(Changed) :
       \E s \in {AfterTables(order)} :
         /\ view' = s.view /\ obs' = s.obs
         /\ result' = [n \in DOMAIN ViewRows(s.view) |-> RootRow(q, ViewRows(s.view)[n])]
  /\ UNCHANGED <<window, runtime, told, stage>>

RowsNext ==
  /\ scenario.api = "rows"
  /\ Observe \/ PatchRefresh \/ WindowRefresh \/ SubsetRefresh \/ Unaffected \/ Requery
  /\ UNCHANGED gvars

GraphqlNext == GraphqlStatement \/ RowsNext \/ Create \/ Subscribe \/ Unsubscribe \/ SnapshotFlush \/ DeltaFlush

GraphqlSpec == GraphqlInit /\ [][GraphqlNext]_<<vars, gvars>>

-----------------------------------------------------------------------------
(* Properties.                                                              *)
Settled == stage = "listening" /\ ~Pending

\* What is cached is what rendering would give now: rows fetched for a key are the
\* table's; an object has the objects that are cached for them, whichever rows, keys
\* and tables were invalidated on the way (batch_render.rs apply_invalidation).
BatchCurrent ==
  stage # "none" /\ ~Pending =>
    LET b == obs.batch
    IN  /\ "unseen" \notin obs.slips =>
             \A p \in DOMAIN b.buckets : b.buckets[p] = Fetch(db, q.nested[p[1]], p[2])
        /\ \A c \in DOMAIN b.cache :
             /\ \A m \in Children(q, c[1]) :
                  LET e == q.nested[m]
                      k == c[2][e.pcol]
                  IN  k # Null => /\ <<m, k>> \in DOMAIN b.buckets
                                  /\ {m} \X ToSet(Shown(e, b.buckets[<<m, k>>])) \subseteq DOMAIN b.cache
             /\ b.cache[c] = Object(q, b.cache, b.buckets, c[1], c[2])

\* Once nothing is queued, a subscriber's root rows are those of the query, unless a
\* runtime that a patch left behind was regrouped or a row was searched in a list out
\* of order (graphql_observable.rs on_change_inner, on_table_change_inner).
RootsCurrent ==
  Settled /\ obs.slips \cap {"regrouped", "misplaced"} = {} =>
    IF q.ordered THEN result = Answer(db, q) ELSE ToBag(result) = ToBag(Answer(db, q))

\* The response is then what those rows render to from scratch, unless an early return
\* missed a nested change (batch_render.rs, graphql_observable.rs
\* materialize_response_if_dirty).
ResponseFresh ==
  Settled /\ obs.slips \cap {"unseen", "misplaced"} = {} => obs.payload.items = FreshItems(db, q, RootRows(result))

\* The payload that was sent last, patch upon patch, is that response, unless a splice
\* was applied again (convert.rs gql_response_to_js_with_root_list_patch).
HeardCurrent == Settled /\ obs.slips \cap {"spliced", "misplaced"} = {} => obs.heard = obs.payload.items

\* All of them; four faults are excepted by name.
GraphqlCurrent == RootsCurrent /\ ResponseFresh /\ HeardCurrent

\* "The payload is emitted immediately on subscribe and again whenever the rendered
\* GraphQL response changes" (js_surface.rs:493): what was emitted last is the response.
PayloadCurrent == Settled => obs.heard = FreshItems(db, q, RootRows(result))
=============================================================================
