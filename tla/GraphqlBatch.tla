---------------------------- MODULE GraphqlBatch ----------------------------
(***************************************************************************)
(* How the payload of a GraphQL subscription is kept up to date            *)
(* (crates/gql: render_plan.rs, batch_render.rs; crates/database:          *)
(* reactive_bridge/graphql_payload.rs, convert.rs), as operators.          *)
(*                                                                         *)
(* A selection is a tree.  Its root selects the rows of a query q; node m  *)
(* in q.nested, a query itself, selects for each row of its parent node    *)
(* the rows whose column ccol is the parent row's pcol (one, unless many). *)
(* What a row was rendered to is cached, and so are the rows fetched for a *)
(* key of a node.  A change invalidates what it can have affected; what is *)
(* rendered again is sent as a patch of the list that was sent before.     *)
(***************************************************************************)
EXTENDS SnapshotRefresh

CONSTANTS Hole \* an array slot that nothing was written to

NodeTable(q, n) == IF n = 0 THEN q.root ELSE q.nested[n].root
Children(q, n) == {m \in DOMAIN q.nested : q.nested[m].parent = n}

(* GraphqlBatchState: cache maps <<node, row>> to what the row was rendered *)
(* to, buckets <<node, key>> to the rows fetched.  A row has its contents   *)
(* in place of a version.  The list is empty when the root list is not      *)
(* cached.  A patch lists positions, as the code does, counted from 1.      *)
NoPatch == [kind |-> "none", removed |-> {}, inserted |-> {}, updated |-> {}]
NewBatch == [cache |-> Empty, buckets |-> Empty, rows |-> <<>>, items |-> <<>>,
             dirty |-> {}, full |-> FALSE, patch |-> NoPatch]

-----------------------------------------------------------------------------
(* Rendering.                                                               *)
\* What is in a map stays in it.
Joint(f, g) == [x \in DOMAIN f \cup DOMAIN g |-> IF x \in DOMAIN f THEN f[x] ELSE g[x]]

RowsAt(t, outputs) == [n \in DOMAIN outputs |-> outputs[n][t]]

\* fetch_edge_buckets, whichever way: the rows of a key, in order, up to the limit.
Fetch(db, e, k) ==
  RowsAt(e.root, Visible(e, InOrder(e, Outputs(db, e, {r.id : r \in {x \in db[e.root] : x[e.ccol] = k}}))))

Shown(e, rows) == IF e.many THEN rows ELSE Cut(rows, 1, 1)

\* prefetch_node_edges, from the root down: the rows of each node that are to be
\* rendered since they are not in the cache, and the buckets that this needs.
EdgeKeys(q, s, m) == {r[q.nested[m].pcol] : r \in s.todo[q.nested[m].parent]} \ {Null}

WithBuckets(db, q, s, m) ==
  [s EXCEPT !.buckets = Joint(@, [p \in {m} \X EdgeKeys(q, s, m) |-> Fetch(db, q.nested[m], p[2])])]

WithTodo(q, b, s, m) ==
  LET shown == UNION {ToSet(Shown(q.nested[m], s.buckets[<<m, k>>])) : k \in EdgeKeys(q, s, m)}
  IN  [s EXCEPT !.todo = With(@, m, {r \in shown : <<m, r>> \notin DOMAIN b.cache})]

WithEdge(db, q, b, s, m) == WithTodo(q, b, WithBuckets(db, q, s, m), m)

Prefetched(db, q, b, rows) ==
  LET fetched[m \in 0..Len(q.nested)] ==
        IF m = 0 THEN [buckets |-> b.buckets, todo |-> [n \in {0} |-> {r \in rows : <<0, r>> \notin DOMAIN b.cache}]]
        ELSE WithEdge(db, q, b, fetched[m - 1], m)
  IN  fetched[Len(q.nested)]

\* render_node_object.  A client sees the key and the payload of a row.
Object(q, cache, buckets, n, r) ==
  [key |-> r.key, v |-> r.v,
   rel |-> [m \in Children(q, n) |->
              LET e == q.nested[m]
                  rows == IF r[e.pcol] = Null THEN <<>> ELSE Shown(e, buckets[<<m, r[e.pcol]>>])
              IN  [i \in DOMAIN rows |-> cache[<<m, rows[i]>>]]]]

WithNode(q, p, cache, n) == Joint(cache, [c \in {n} \X p.todo[n] |-> Object(q, cache, p.buckets, n, c[2])])

\* The objects of a node are made once those of the nodes below it are there.
WithObjects(q, b, p) ==
  LET N == Len(q.nested)
      cached[n \in 0..(N + 1)] == IF n = 0 THEN b.cache ELSE WithNode(q, p, cached[n - 1], N + 1 - n)
  IN  cached[N + 1]

\* The batch state with these root rows, and all that they show, rendered.
Rendered(db, q, b, rows) ==
  LET p == Prefetched(db, q, b, rows)
  IN  [b EXCEPT !.buckets = p.buckets, !.cache = WithObjects(q, b, p)]

Items(b, rows) == [n \in DOMAIN rows |-> b.cache[<<0, rows[n]>>]]

\* What the rows are rendered to when nothing is cached.
FreshItems(db, q, rows) == Items(Rendered(db, q, NewBatch, ToSet(rows)), rows)

-----------------------------------------------------------------------------
(* Invalidation.  A notice is [root, dirty, stable, tables, rows, keys]:    *)
(* whether the root list changed, which root rows, whether they kept their  *)
(* positions, the tables to be invalidated as a whole, row ids by table,    *)
(* and keys by node.                                                        *)
\* collect_dirty_edge_keys_for_table_deltas: keys that changed rows had or have.
DirtyKeys(q, t, rows) ==
  UNION {{m} \X ({r[q.nested[m].ccol] : r \in rows} \ {Null}) : m \in {n \in DOMAIN q.nested : q.nested[n].root = t}}

Keyed(inv) == {p[1] : p \in inv.keys}
ByTable(q, inv, m) == q.nested[m].root \in inv.tables /\ m \notin Keyed(inv)

\* Entries whose row has this key for node m: edge_parent_membership.
Members(q, b, m, k) == {c \in DOMAIN b.cache : c[1] = q.nested[m].parent /\ c[2][q.nested[m].pcol] = k}

Parents(q, b, c) == IF c[1] = 0 THEN {} ELSE Members(q, b, c[1], c[2][q.nested[c[1]].ccol])

\* Entries of the rows that have changed, and what their keys and tables may concern.
\* (Mutant, for all: the first only; rows that a key had shown before are not looked for.)
InvalidatedByRow(q, b, inv) ==
  {c \in DOMAIN b.cache : \/ c[1] = 0 /\ inv.root /\ inv.dirty = {}
                          \/ c[2].id \in inv.rows[NodeTable(q, c[1])]}

InvalidatedByKey(q, b, inv) == UNION {Members(q, b, p[1], p[2]) : p \in inv.keys}

Referring(q, b, m) == {c \in DOMAIN b.cache : c[1] = q.nested[m].parent /\ c[2][q.nested[m].pcol] # Null}
InvalidatedByTable(q, b, inv) == UNION {Referring(q, b, m) : m \in {n \in DOMAIN q.nested : ByTable(q, inv, n)}}

Invalidated(q, b, inv) == InvalidatedByRow(q, b, inv) \cup InvalidatedByKey(q, b, inv) \cup InvalidatedByTable(q, b, inv)

\* The worklist of apply_invalidation.
WithParents(q, b, cs) == cs \cup UNION {Parents(q, b, c) : c \in cs}

WithAncestors(q, b, cs) ==
  LET found[n \in 0..Len(q.nested)] == IF n = 0 THEN cs ELSE WithParents(q, b, found[n - 1])
  IN  found[Len(q.nested)]

ApplyInvalidation(q, b, inv) ==
  LET gone == WithAncestors(q, b, Invalidated(q, b, inv))
  IN  [b EXCEPT
         !.cache = [c \in DOMAIN @ \ gone |-> @[c]],
         !.buckets = [p \in {x \in DOMAIN @ : x \notin inv.keys /\ ~ByTable(q, inv, x[1])} |-> @[p]],
         !.dirty = @ \cup (IF inv.root THEN inv.dirty ELSE {}) \cup {c[2].id : c \in {x \in gone : x[1] = 0}},
         !.full = @ \/ (inv.root /\ ~inv.stable)]

-----------------------------------------------------------------------------
(* The root list.  rows are the rows it was rendered from last.             *)
\* (row_positions: the last place, should a row be there twice.)
At(rows, id) == CHOOSE n \in DOMAIN rows : rows[n].id = id /\ \A m \in DOMAIN rows : rows[m].id = id => m <= n
Ids(rows) == {rows[n].id : n \in DOMAIN rows}

\* update_root_list_cache: all is clean again.
Listed(b, rows, items, patch) ==
  [b EXCEPT !.rows = rows, !.items = items, !.dirty = {}, !.full = FALSE, !.patch = patch]

\* try_render_root_node_list_cached: the dirty rows are still in their places.
InPlace(b, rows) ==
  /\ ~b.full /\ Len(b.rows) = Len(rows) /\ b.dirty \subseteq Ids(b.rows)
  /\ \A id \in b.dirty : rows[At(b.rows, id)].id = id

\* Rows that were not dirty keep their keys and their items.
PutInPlace(b, r, rows, places) ==
  LET items == [n \in DOMAIN rows |-> IF n \in places THEN r.cache[<<0, rows[n]>>] ELSE b.items[n]]
  IN  Listed(r, [n \in DOMAIN rows |-> IF n \in places THEN rows[n] ELSE b.rows[n]], items,
             [NoPatch EXCEPT !.kind = "stable", !.updated = IF items = b.items THEN {} ELSE places])

RenderInPlace(db, q, b, rows) ==
  LET places == {At(b.rows, id) : id \in b.dirty}
  IN  PutInPlace(b, Rendered(db, q, b, {rows[n] : n \in places}), rows, places)

\* try_render_root_node_list_splice: what has stayed is in the same order.
Spliceable(b, rows) ==
  \A m, n \in DOMAIN rows :
    m < n /\ {rows[m].id, rows[n].id} \subseteq Ids(b.rows) => At(b.rows, rows[m].id) <= At(b.rows, rows[n].id)

Stayed(b, rows) == {n \in DOMAIN rows : rows[n].id \in Ids(b.rows)}

\* Mutant: a row that has not changed keeps its item, whatever it shows.
UnchangedRows(b, rows) == {n \in Stayed(b, rows) : b.rows[At(b.rows, rows[n].id)] = rows[n]}

KeptItems(b, rows) ==
  {n \in Stayed(b, rows) : b.rows[At(b.rows, rows[n].id)] = rows[n] /\ rows[n].id \notin b.dirty}

Spliced(b, r, rows) ==
  LET stay == Stayed(b, rows)
      was == [n \in stay |-> At(b.rows, rows[n].id)]
      items == [n \in DOMAIN rows |-> IF n \in KeptItems(b, rows) THEN b.items[was[n]] ELSE r.cache[<<0, rows[n]>>]]
  IN  Listed(r, rows, items,
             [kind |-> "splice",
              removed |-> {n \in DOMAIN b.rows : b.rows[n].id \notin Ids(rows)},
              inserted |-> DOMAIN rows \ stay,
              updated |-> {n \in stay : items[n] # b.items[was[n]]}])

RenderSplice(db, q, b, rows) ==
  Spliced(b, Rendered(db, q, b, {rows[n] : n \in DOMAIN rows \ KeptItems(b, rows)}), rows)

\* All rows are looked up, and rendered if need be.
RenderAll(b, rows) == Listed(b, rows, Items(b, rows), NoPatch)

\* render_root_node_list.  A list that nothing has happened to is served as it is:
\* the patch that led to it stays, too.
RenderList(db, q, b, rows) ==
  CASE rows = <<>> -> Listed(b, <<>>, <<>>, NoPatch)
    [] rows # <<>> /\ b.rows # <<>> /\ InPlace(b, rows) ->
         IF b.dirty = {} THEN b ELSE RenderInPlace(db, q, b, rows)
    [] rows # <<>> /\ b.rows # <<>> /\ ~InPlace(b, rows) /\ Spliceable(b, rows) -> RenderSplice(db, q, b, rows)
    [] OTHER -> RenderAll(Rendered(db, q, b, ToSet(rows)), rows)

-----------------------------------------------------------------------------
(* The payload: GraphqlResponsePayloadCache.  items is the response; array  *)
(* what it was encoded to, of which len slots counted last time.            *)
NoPayload == [known |-> FALSE, items |-> <<>>, dirty |-> TRUE, array |-> <<>>, len |-> 0]

\* changed_hint: a patch tells by itself whether anything has changed.
Differs(p, b) ==
  IF b.patch.kind = "none" THEN ~p.known \/ p.items # b.items
  ELSE b.patch.removed \cup b.patch.inserted \cup b.patch.updated # {}

Without(s, places) == [n \in 1..Cardinality(DOMAIN s \ places) |->
                         s[CHOOSE m \in DOMAIN s \ places : Cardinality({l \in DOMAIN s \ places : l < m}) = n - 1]]

\* Array.splice(place, 0, item) puts what lies beyond the end at the end.
Inserted(s, place, x) == Cut(s, 1, place - 1) \o <<x>> \o Cut(s, place, Len(s))

SetAt(s, place, x) == [n \in 1..(IF place > Len(s) THEN place ELSE Len(s)) |->
                         IF n = place THEN x ELSE IF n \in DOMAIN s THEN s[n] ELSE Hole]

Ascending(places) == [n \in 1..Cardinality(places) |->
                        CHOOSE m \in places : Cardinality({l \in places : l < m}) = n - 1]

\* Place after place, an item is inserted, or set.
AllInserted(s, items, places) ==
  LET at == Ascending(places)
      grown[n \in 0..Len(at)] == IF n = 0 THEN s ELSE Inserted(grown[n - 1], at[n], items[at[n]])
  IN  grown[Len(at)]

AllSet(s, items, places) ==
  LET at == Ascending(places)
      filled[n \in 0..Len(at)] == IF n = 0 THEN s ELSE SetAt(filled[n - 1], at[n], items[at[n]])
  IN  filled[Len(at)]

\* gql_response_to_js_with_root_list_patch.
Encoded(p, b) ==
  LET old == Cut(p.array, 1, p.len)
      kept == Without(old, b.patch.removed)
      grown == AllInserted(kept, b.items, b.patch.inserted)
  IN  IF b.patch.kind = "none" \/ ~p.known \/ (b.patch.kind = "stable" /\ p.len # Len(b.items)) THEN b.items
      ELSE AllSet(grown, b.items, b.patch.updated)

\* materialize_response_if_dirty, and the encoding of a response that has changed.
Materialized(p, b) ==
  IF Differs(p, b)
    THEN [known |-> TRUE, items |-> b.items, dirty |-> FALSE, array |-> Encoded(p, b), len |-> Len(b.items)]
    ELSE [p EXCEPT !.dirty = FALSE]
=============================================================================
