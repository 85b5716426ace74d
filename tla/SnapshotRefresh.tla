-------------------------- MODULE SnapshotRefresh --------------------------
(***************************************************************************)
(* How the answer of a live query is brought up to date after a flush      *)
(* (crates/database: reactive_bridge.rs, reactive_bridge/snapshot_refresh  *)
(* .rs, query_builder.rs): the parts that compute, as operators.           *)
(*                                                                         *)
(* A query joins tables to a root table.  Instead of executing it again,   *)
(* an observable works out which root rows a flush can have affected, has  *)
(* the plan executed on those root rows only, and merges their rows into   *)
(* what it keeps:                                                          *)
(*   patch   one table, no order or limit: replaces single rows            *)
(*   window  ORDER BY with LIMIT: keeps more rows than it shows            *)
(*   subset  no order or limit: keeps the rows grouped by root key         *)
(***************************************************************************)
EXTENDS Integers, Sequences, SequencesExt, FiniteSets

CONSTANTS Null,    \* a NULL column
          Absent   \* the joined row of an outer join that has no match

(* A row is [id, key, ref, v]: a row id, a primary key, a column that joins *)
(* use, and a payload.  A database maps each table to its set of rows.      *)
(*                                                                          *)
(* A query is [root, joins, hidden, ordered, offset, limit, overscan]: the  *)
(* root table; joins in sequence, each [left, lcol, table, col, outer]; the *)
(* payloads WHERE excludes of root rows; whether ORDER BY v is there; a     *)
(* limit of 0 stands for none.  An output row maps tables to rows.          *)

\* f with y at x.
With(f, x, y) == [z \in DOMAIN f \cup {x} |-> IF z = x THEN y ELSE f[z]]

\* The elements of s that are in C, in their order.
Picked(s, C) ==
  LET f[n \in 0..Len(s)] ==
        IF n = 0 THEN <<>> ELSE IF s[n] \in C THEN Append(f[n - 1], s[n]) ELSE f[n - 1]
  IN  f[Len(s)]

-----------------------------------------------------------------------------
(* Execution of a plan, on some root rows (execute_compiled_physical_plan_  *)
(* on_table_subset) or on all.                                              *)
Joined(db, outputs, j) ==
  UNION {LET matches == {r \in db[j.table] : /\ o[j.left] # Absent /\ o[j.left][j.lcol] # Null
                                             /\ r[j.col] = o[j.left][j.lcol]}
         IN  IF matches = {} /\ j.outer
             THEN {With(o, j.table, Absent)}
             ELSE {With(o, j.table, r) : r \in matches} : o \in outputs}

RootRow(q, r) == [t \in {q.root} |-> r]

Outputs(db, q, rootIds) ==
  LET joined[n \in 0..Len(q.joins)] ==
        IF n = 0 THEN {RootRow(q, r) : r \in {x \in db[q.root] : x.id \in rootIds /\ x.v \notin q.hidden}}
        ELSE Joined(db, joined[n - 1], q.joins[n])
  IN  joined[Len(q.joins)]

\* Rows come in the order asked for.  Where a query leaves it open, scans go by
\* row id; compare_partial_refresh_rows settles ties by the root's row id, too.
SortKey(q, o) ==
  (IF q.ordered THEN <<o[q.root].v>> ELSE <<>>) \o <<o[q.root].id>>
  \o [n \in DOMAIN q.joins |-> LET r == o[q.joins[n].table] IN IF r = Absent THEN 0 ELSE r.id]

Before(s, t) == \E n \in DOMAIN s : s[n] < t[n] /\ \A m \in 1..(n - 1) : s[m] = t[m]

InOrder(q, outputs) ==
  [n \in 1..Cardinality(outputs) |->
     CHOOSE o \in outputs :
       Cardinality({p \in outputs : Before(SortKey(q, p), SortKey(q, o))}) = n - 1]

AllRoots(db, q) == {r.id : r \in db[q.root]}

Whole(db, q) == InOrder(q, Outputs(db, q, AllRoots(db, q)))

Cut(s, from, to) == SubSeq(s, from, IF to < Len(s) THEN to ELSE Len(s))

\* slice_partial_visible_rows; a query without LIMIT shows everything.
Visible(q, rows) == IF q.limit = 0 THEN rows ELSE Cut(rows, q.offset + 1, q.offset + q.limit)

\* The answer that a client is entitled to.
Answer(db, q) == Visible(q, Whole(db, q))

-----------------------------------------------------------------------------
(* The dependency graph: every join, in both directions, of which only the  *)
(* edges that lead closer to the root are kept.                             *)
JoinEdges(q) ==
  UNION {LET j == q.joins[n]
         IN  {[from |-> j.left, fcol |-> j.lcol, to |-> j.table, tcol |-> j.col],
              [from |-> j.table, fcol |-> j.col, to |-> j.left, tcol |-> j.lcol]} :
         n \in DOMAIN q.joins}

Near(q) ==
  LET near[n \in 0..Len(q.joins)] ==
        IF n = 0 THEN {q.root}
        ELSE near[n - 1] \cup {e.to : e \in {x \in JoinEdges(q) : x.from \in near[n - 1]}}
  IN  near

DistanceToRoot(q, t) == CHOOSE n \in 0..Len(q.joins) : t \in Near(q)[n] /\ (n = 0 \/ t \notin Near(q)[n - 1])

EdgesToRoot(q) == {e \in JoinEdges(q) : DistanceToRoot(q, e.to) < DistanceToRoot(q, e.from)}

Tables(q) == {q.root} \cup {q.joins[n].table : n \in DOMAIN q.joins}

\* Mutant: the values that the rows had before the flush are forgotten.
StoredJoinValues(db, ids, deltas, e) == {r[e.fcol] : r \in {x \in db[e.from] : x.id \in ids}} \ {Null}

\* collect_join_values_by_row_ids_and_deltas.
JoinValues(db, ids, deltas, e) ==
  IF ids = {} THEN {}
  ELSE ({r[e.fcol] : r \in {x \in db[e.from] : x.id \in ids}} \cup {r[e.fcol] : r \in deltas[e.from]}) \ {Null}

\* collect_affected_root_row_ids.  Every edge leads closer to the root, so that the
\* worklist amounts to one round per distance, from the farthest tables inwards.
DirtyRows(db, q, ids, deltas) ==
  LET dirty[n \in 0..Len(q.joins)] ==
        IF n = 0 THEN [t \in Tables(q) |-> ids[t]]
        ELSE [t \in Tables(q) |->
                dirty[n - 1][t] \cup
                UNION {{r.id : r \in {x \in db[t] : x[e.tcol] \in JoinValues(db, dirty[n - 1][e.from], deltas, e)}} :
                       e \in {x \in EdgesToRoot(q) : x.to = t}}]
  IN  dirty[Len(q.joins)]

AffectedRoots(db, q, ids, deltas) == DirtyRows(db, q, ids, deltas)[q.root]

\* Rows that have gone from another table can be traced by their deltas only;
\* without any the collection gives up and the query is executed again.
Traceable(db, q, ids, deltas) ==
  \A t \in Tables(q) \ {q.root} :
    DirtyRows(db, q, ids, deltas)[t] \subseteq {r.id : r \in db[t]} \/ deltas[t] # {}

-----------------------------------------------------------------------------
(* Patch: patch_row_by_id finds a row's place by binary search.             *)
PatchedRow(q, rows, id, row) ==
  LET before == Picked(rows, {o \in ToSet(rows) : o[q.root].id < id})
      after == Picked(rows, {o \in ToSet(rows) : o[q.root].id > id})
  IN  before \o (IF row = {} THEN <<>> ELSE <<RootRow(q, CHOOSE r \in row : TRUE)>>) \o after

\* apply_reactive_patch: the changed rows one by one; each is read from the store.
Patched(db, q, rows, ids) ==
  LET id == SetToSeq(ids)
      patched[n \in 0..Len(id)] ==
        IF n = 0 THEN rows
        ELSE PatchedRow(q, patched[n - 1], id[n], {r \in db[q.root] : r.id = id[n] /\ r.v \notin q.hidden})
  IN  patched[Len(id)]

-----------------------------------------------------------------------------
(* Window: the candidate rows are the first offset + limit + 2 * overscan   *)
(* rows of the answer, to begin with.                                       *)
CandidateLimit(q) == q.offset + q.limit + 2 * q.overscan
MinShadowWindow(q) == q.offset + q.limit + q.overscan

\* The plan's LIMIT is the candidate limit (rewrite_limit_for_candidate_window).
Candidates(db, q, rootIds) == Cut(InOrder(q, Outputs(db, q, rootIds)), 1, CandidateLimit(q))

TooManyAffected(q, window, roots) == Len(SelectSeq(window, LAMBDA o : o[q.root].id \in roots)) > q.overscan

\* Mutant: the window grows with what is merged into it.
MergedUncut(db, q, window, roots) ==
  InOrder(q, {o \in ToSet(window) : o[q.root].id \notin roots} \cup ToSet(Candidates(db, q, roots)))

Merged(db, q, window, roots) ==
  Cut(InOrder(q, {o \in ToSet(window) : o[q.root].id \notin roots} \cup ToSet(Candidates(db, q, roots))),
      1, CandidateLimit(q))

\* Mutant: the window may shrink to what is visible.
DrainedBelowVisible(q, window, merged) == Len(merged) < q.offset + q.limit /\ Len(window) >= q.offset + q.limit

\* Too few candidates are left, where there were enough: there may be rows beyond.
Drained(q, window, merged) == Len(merged) < MinShadowWindow(q) /\ Len(window) >= MinShadowWindow(q)

-----------------------------------------------------------------------------
(* Subset: the rows of the result grouped by the root's primary key.        *)
(*   keyOf    row_id_to_root_key      ordinal  root_ordinals                *)
(*   groups   root_rows               order    visible_root_order           *)
RootKey(q, o) == o[q.root].key

Grouped(q, rows) ==
  [k \in {RootKey(q, o) : o \in ToSet(rows)} |-> Picked(rows, {o \in ToSet(rows) : RootKey(q, o) = k})]

\* Ordinals for keys that have none, by row id (where keys get theirs in one flush,
\* the code leaves their order to a hash set).
KeysById(db, q, ids) ==
  LET rows == {r \in db[q.root] : r.id \in ids}
  IN  [n \in 1..Cardinality(rows) |->
         (CHOOSE r \in rows : Cardinality({s \in rows : s.id < r.id}) = n - 1).key]

WithOrdinals(db, q, ordinal, ids) ==
  LET key == KeysById(db, q, ids)
      f[n \in 0..Len(key)] ==
        IF n = 0 THEN ordinal
        ELSE IF key[n] \in DOMAIN f[n - 1] THEN f[n - 1]
        ELSE With(f[n - 1], key[n], Cardinality(DOMAIN f[n - 1]))
  IN  f[Len(key)]

Empty == [x \in {} |-> x]

\* The root keys of the rows, each where it comes first.
KeyOrder(q, rows) ==
  LET order[n \in 0..Len(rows)] ==
        IF n = 0 THEN <<>>
        ELSE IF RootKey(q, rows[n]) \in ToSet(order[n - 1]) THEN order[n - 1]
        ELSE Append(order[n - 1], RootKey(q, rows[n]))
  IN  order[Len(rows)]

\* RootSubsetRefreshRuntime::new.  In order, the rows of a root row are together.
NewRuntime(db, q, rows) ==
  [keyOf |-> [i \in AllRoots(db, q) |-> (CHOOSE r \in db[q.root] : r.id = i).key],
   ordinal |-> WithOrdinals(db, q, Empty, AllRoots(db, q)),
   groups |-> Grouped(q, rows),
   order |-> KeyOrder(q, rows)]

\* collect_affected_root_keys: the keys that affected rows had, and those they have;
\* keys of known rows are looked at again only if the root table has changed.
Relearnt(rt, roots, refreshExisting) == {i \in roots : i \notin DOMAIN rt.keyOf \/ refreshExisting}

\* Mutant: a row's former key is not refreshed.
NewKeysOnly(db, q, rt, roots, refreshExisting) ==
  {r.key : r \in {x \in db[q.root] : x.id \in Relearnt(rt, roots, refreshExisting)}}
  \cup {rt.keyOf[i] : i \in (roots \cap DOMAIN rt.keyOf) \ Relearnt(rt, roots, refreshExisting)}

AffectedKeys(db, q, rt, roots, refreshExisting) ==
  {rt.keyOf[i] : i \in roots \cap DOMAIN rt.keyOf}
  \cup {r.key : r \in {x \in db[q.root] : x.id \in Relearnt(rt, roots, refreshExisting)}}

\* A new key goes before the first one with a greater ordinal.
Placed(ordinal, order, k) ==
  LET later == {n \in DOMAIN order : ordinal[order[n]] > ordinal[k]}
      at == IF later = {} THEN Len(order) + 1 ELSE CHOOSE n \in later : \A m \in later : n <= m
  IN  SubSeq(order, 1, at - 1) \o <<k>> \o SubSeq(order, at, Len(order))

AllPlaced(ordinal, order, keys) ==
  LET placed[n \in 0..Len(keys)] == IF n = 0 THEN order ELSE Placed(ordinal, placed[n - 1], keys[n])
  IN  placed[Len(keys)]

\* collect_affected_root_keys and apply_subset_rows.
Regrouped(db, q, rt, roots, refreshExisting) ==
  LET relearnt == Relearnt(rt, roots, refreshExisting)
      live == relearnt \cap AllRoots(db, q)
      keys == AffectedKeys(db, q, rt, roots, refreshExisting)
      fresh == Grouped(q, InOrder(q, Outputs(db, q, roots)))
      ordinal == WithOrdinals(db, q, rt.ordinal, live)
      kept == Picked(rt.order, {k \in ToSet(rt.order) : k \notin keys \/ k \in DOMAIN fresh})
      new == DOMAIN fresh \ (ToSet(rt.order) \cap keys)
      newInOrder == [n \in 1..Cardinality(new) |->
                       CHOOSE k \in new : Cardinality({l \in new : ordinal[l] < ordinal[k]}) = n - 1]
  IN  [keyOf |-> [i \in (DOMAIN rt.keyOf \ relearnt) \cup live |->
                    IF i \in live THEN (CHOOSE r \in db[q.root] : r.id = i).key ELSE rt.keyOf[i]],
       ordinal |-> ordinal,
       groups |-> [k \in (DOMAIN rt.groups \ keys) \cup DOMAIN fresh |->
                     IF k \in DOMAIN fresh THEN fresh[k] ELSE rt.groups[k]],
       order |-> AllPlaced(ordinal, kept, newInOrder)]

\* The rows of the result, group after group.
Ungrouped(rt) ==
  LET rows[n \in 0..Len(rt.order)] == IF n = 0 THEN <<>> ELSE rows[n - 1] \o rt.groups[rt.order[n]]
  IN  rows[Len(rt.order)]
=============================================================================
