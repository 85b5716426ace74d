# Verification of Cynos

Cynos is an in-memory relational database for the browser: a Rust workspace
compiled to WebAssembly, with tables, indexes, transactions, and live queries
whose subscribers are called when the rows they select change. This directory
holds its TLA+ models, the TLC configurations that check them and the TLAPS
proofs about them. Paths below are relative to `src/crates/` unless they start
with `src/`.

Contents: 1 the system, 2 the models, 3 what the runs check, 4 what is proved,
5 where the code disagrees with its own words, 6 abstractions and what is left
out, 7 the plan, 8 how to run it.

## 1. The system

Everything runs on one thread. Concurrency comes from the order in which
JavaScript calls the library and in which the event loop runs microtasks: a call
runs to completion, but a query handle, an open transaction and a queued flush
all live on between calls, and any other call may come first.

| Component | State | Operations | Hard behaviour | What makes it correct |
|---|---|---|---|---|
| Row slots (`storage/src/row_store.rs`) | `row_slots`, `rows`, `scan_order` | insert, replace, swap-remove, bulk load, clear | a removal moves the last row; three structures are repaired by hand; binary search needs the order they keep | they describe the same rows; scans run in row-id order |
| RowStore (same file) | row map, primary-key index, secondary indexes, GIN indexes | insert, update, delete, insert_or_replace, batches on three paths, bulk load, clear | failures in the middle of filling indexes; GIN entries collected in a builder and flushed at every exit; ignored errors | every index lists exactly the rows; keys unique; batches mean the same as single inserts |
| Journal, Transaction (`storage/src/journal.rs`, `transaction.rs`) | entries, per-table diff, state | begin, insert, update, delete, commit, rollback | writes go straight to the store; rollback replays ordinary writes backwards and ignores their errors; others write in between | the diff is the net change; rollback restores |
| Table cache (`storage/src/cache.rs`) | the tables by name | create, drop, clear | clearing announces nothing to live queries | |
| Lock manager (`storage/src/lock.rs`) | shared and exclusive holders per table | acquire, release, release_all | requests fail instead of waiting; upgrades | an exclusive holder is alone |
| Constraint checker (`storage/src/constraint.rs`) | none | check insert, update, delete | child rows are looked up by the wrong index | no dangling references |
| B+tree, hash index (`index/src/btree`, `hash.rs`) | nodes and the leaf chain; buckets | add, remove, get, range | splits, borrows and merges over long sequences | refines a set of entries; sorted; balanced |
| GIN index (`index/src/gin`) | posting lists by key and by key-value | add, remove, bulk build, lookups | postings delta-encoded, builder merged late | refines a set of pairs |
| LiveRegistry (`database/src/live_runtime.rs`) | pending ids and deltas by table, `flush_scheduled`, registered queries | announce, flush, register, collect dead queries | a flush is a microtask that outlives the call that asked for it; commits and rollbacks flush in between | no change is forgotten, none told twice |
| ReQueryObservable and JS handles (`database/src/reactive_bridge.rs`, `reactive_bridge/js_surface.rs`) | last result, subscriptions, JS row cache | patch, refresh, re-query, subscribe, unsubscribe, getResult | the result is read from the store after the fact; callbacks run with borrows held | the result catches up with the store; subscribers know it |
| ObservableQuery, QueryRegistry (`reactive/src`) | result, three subscription managers, queries by table | initialise, on_table_change, subscribe, register | weak references, ids numbered three times | each subscriber told of each change once |
| Incremental views (`incremental/src`) | result stores, arrangements, group states | deltas through filter, map, join, aggregate | deltas applied without looking at the store: order and multiplicity matter | the view equals the query evaluated again |
| Planner, optimizer, executor (`query/src`) | none | rewrite rules, execution | rules that keep the meaning only under side conditions | a rewritten plan returns the same rows |
| Plan cache (`query/src/plan_cache.rs`) | plans by fingerprint, recency | get, insert, invalidate | eviction, stale plans | never more than its capacity; never a plan for another schema |
| GraphQL (`gql/src`, `database/src/reactive_bridge/graphql_observable.rs`) | prepared queries, cached batches | execute, subscribe, invalidate | cached child batches that depend on several tables | the payload equals a fresh execution |
| Database facade (`database/src/database.rs`, `table.rs`) | schemas, cache, registry | create and drop tables, clear, query builders | wires the parts | |
| Core types (`core/src`) | row id counter | values, rows, schemas, versions | a version that wraps around | |
| JSONB, binary protocol (`jsonb/src`, `binary/src`) | none | encode, decode | formats | round trips |
| Benchmarks, examples, packaging (`perf/src` and others) | | | | |

How they interact. A statement (`query_builder.rs`) writes rows into a RowStore
of the table cache and announces the changed ids and row deltas to LiveRegistry,
which merges them into its pending maps and queues a flush microtask unless one
is scheduled. A statement inside a transaction writes into the same RowStore,
through `Transaction`, which keeps a journal; its ids and deltas wait in the
`JsTransaction` until commit. A flush takes what is pending, feeds the snapshot
lane (queries of `observe()`, which read the RowStore again) and the delta lane
(queries of `trace()`, which see only the deltas), then drops the queries that
have no subscriber. `PROJECT.json` lists the hazards of this design, each at the
line where it bites, with the properties that would catch it.

## 2. The models

| Module | Models | State and actions |
|---|---|---|
| `RowSlots` | row slots | `slots`, `slotOf`, `scan` are `row_slots`, `rows`, `scan_order`, counted from 1. One action per private helper, through which every table write goes. |
| `TableSchema` | the parameters of a table | names of the indexes and `Keys[ix][c]`, the keys of a content in an index. |
| `Table` | what a table promises | the abstract specification: rows, and refusals decided by looking at all of them; a batch is its rows one at a time. It mentions no index. |
| `RowStore` | RowStore | `rows`, `index[ix]` (the set of <<key, row id>> pairs of each index), `result` of the last call. One action per public write. |
| `TxStore` | Journal, Transaction | the table with row versions, and per transaction status, journal entries and diff, beside direct writers. The store's writes are those of `Table`, which RowStore implements. `begun` and `foreign` are history for the properties. |
| `LiveRuntime` | LiveRegistry, both lanes, the transaction's announcements, handles | `pendingIds`, `pendingDeltas`, `scheduled` are the registry's fields; `queued` counts microtasks; `view[v]` is a handle with its registration, subscription, result and what its client has been told; `lost` is history. |
| `KeyIndex` | what an index promises | the abstract specification: a set of entries, each a key with a row id; a unique index refuses a second row for a key. |
| `BTree` | `index/src/btree` | `tree` (the node arena, the root, the free list), `unique`, `rowCount`, `result`. One action per call of the traits `Index` and `RangeIndex`; splits, borrows and merges are operators on the arena. `entries` is what a walk of the leaf chain finds. |
| `HashIndex` | `index/src/hash.rs` | `map`: key to rows. The same calls. |
| `Indexes` | both, side by side | every call is made to both. |
| `Executor` | `query/src/executor` | no state: what each physical operator returns for the rows below it. |
| `Views` | `incremental/src/materialize.rs` | `sides` (slots, buckets and match counts of a join), `groups`, `announced`, `visible`: the fields of a materialized view; `tables` is what the deltas delivered so far made of the tables, `emitted` the last output. `silent` is history: the groups of the bootstrap that nothing has been output for. `Init` is the bootstrap of the view over any contents, `TableChange` one batch of deltas of one table. |
| `Plans` | `query/src/ast`, `planner/logical.rs`, `physical.rs` | no state: plans as records, the value of an expression, the rows a plan returns. |
| `LogicalPasses`, `PhysicalPasses` | `query/src/optimizer`, `planner/lowering.rs` | no state: each pass as an operator from plan to plan. |
| `Planner` | `query_planner.rs`, `plan_cache.rs` | `session` (the queries a client asks), `plan` (the plan of the first of them), `step` (the next pass of `Pipeline`), `counts` and `variant` (what the planner is told: sizes of the tables, and whether the plan is the default one or one of the two for a subset of the root rows), `cache` (plans by fingerprint, least recently used first). One action per pass, beside `LookUp` and `AskNext`. |
| `SnapshotRefresh` | the computing parts of `reactive_bridge.rs` and `reactive_bridge/snapshot_refresh.rs` | no state: what a query answers, which root rows a flush affects, and the three ways to refresh a result from what was kept: patch, window, subset. |
| `LiveAnswers` | ReQueryObservable over several tables | `result`, `window`, `runtime` are its fields `result`, `partial_refresh`, `root_subset_refresh`; `ids`, `deltas` what is queued for it; `told` what its callback was called with last. A statement on any table is one action, a flush is one of five, by the way `on_change` takes. |
| `GraphqlBatch` | `gql/src/batch_render.rs`, `render_plan.rs`, `graphql_payload.rs`, the list patch of `convert.rs` | no state: rendering through the caches of a batch state, invalidation, the root list and its patches, the payload. |
| `GraphqlLive` | GraphQL subscriptions on both lanes, `graphql_observable.rs` | beside `LiveAnswers`' tables and queues: `stage` of the subscription, `obs` (its batch state and payload cache, what was sent, and as history `slips`), `view` (the slots of the delta lane's root rows), `queue` (row deltas). |
| `MC*` | | values of the constants for TLC. |
| `*Proofs` | | theorems about the module they are named after; `StorageProofs` about `RowSlots` and `HashIndex`. |
| `Iteration` | | no code: lemmas for the proofs about definitions that fold a step over a sequence (section 4). |

`RowSlots` lies below `RowStore`: RowStore's `rows` is the map that RowSlots
keeps. `RowStore` refines `Table` (`ImplementsTable`); `TxStore` INSTANCEs
`Table`, so what is checked about transactions rests on what is proved about the
store. `LiveRuntime` has its own view of the store, without constraints, since
what live queries do depends on the rows that changed and not on why others were
refused.

A call is atomic where the code runs it without giving control away. Its inner
states appear where a failure happens inside it: `RolledBack` undoes the indexes
filled before a unique one refused, `Load` and `GinFlushed` keep the rows before
a refused one of a batch, `Undo` stops half-way at a version overflow,
`FailingWrite` and `TxWrite` with `fails` return before the announcement.

`BTree` keeps the node arena as the code does: nodes in places, parents,
children, the links between leaves, a free list. Which free place a new node
gets decides nothing about later calls, so after every call the nodes are
renumbered in preorder; that keeps the state space small. Batches go through
the leaf hint of `find_leaf_from_hint`: `BatchesAnywhere` says whether a batch
may come when that hint can lead to a wrong leaf (section 5). `HashIndex` and
`BTree` get the same calls in `Indexes`, and both refine `KeyIndex`.

`Views` has one view over two tables. A batch of writes is one step, since the
delta lane propagates it without giving control away; within it the deltas of
one table go through the left and then the right side of the join, and through
the aggregation. The `VIEW` of its configuration leaves `emitted` out, which no
guard reads. `ViewIsQuery` compares with `Executor`, which is translated from
the executor and not from the view, so that the two paths of the repository to
one answer are compared with each other. An aggregation is the root of its
program, as in the code's own compilation of a query: after the bootstrap it has
its groups and no record of an output row of theirs (`announced` is empty), and
`silent` says for which groups that is still so (section 5 says what follows).

`LiveAnswers` and `GraphqlLive` extend what `LiveRuntime` says about one table
to queries over several. `LiveRuntime` shows that what changed reaches a flush;
here a flush may come at any time after a change, and the question is whether a
result that is mostly kept is the one that executing the query again would give.
`Answer` is that execution; `Outputs` with a set of root rows is the execution
on a table subset. Joins are followed from changed rows to root rows along the
edges of the dependency graph, with the old contents of the deltas, since the
tables already have the new ones. `GraphqlLive` adds to the same tables a
subscription that selects root rows, the row each refers to, and the rows that
refer to that one; a rendered object is a record of the row's key, payload and
objects under it. In place of a row's version the cache key has its contents, so
that what is said here does not depend on versions telling contents apart
(section 5 says when they do not).

In `Planner` a query goes through the passes one step at a time, so that the
first pass that changes an answer is the last step of the counterexample. What a
pass decides by cost is left open (`JoinThroughIndexes` chooses any subset of
the joins it could turn), so that `AnswerKept` does not rest on a cost formula.

In `LiveRuntime` one action is one call from JavaScript or one microtask:
`DirectWrite` and `QuietWrite` (a statement, announced or, with no registered
query, not), `FailingWrite` (a statement over several rows that fails part-way),
`Clear`, `Begin`, `TxWrite`, `Commit`, `Rollback`, `Microtask`, `Open`,
`Subscribe`, `Unsubscribe`. `Usage` says which of the stranger calls clients
make: direct writes while a transaction is open (`mixed`), a `trace()` opened on
a change that is still queued or uncommitted (`early_trace`), statements that
fail part-way (`failing`), clear (`clear`). Properties that hold whatever the
client does are checked with all of them; the delta lane's are checked without,
and section 5 shows what `early_trace` does to them.

## 3. What the runs check

| Run | Bounds | Shows |
|---|---|---|
| `row_slots` | row ids 1..5, two contents, bulk loads of up to 2 rows | `SlotMapExact`, `ScanInIdOrder`: map, slots and scan order agree after any sequence of calls. `UntouchedRowsSurvive`: a call changes no other row. |
| `row_store` | 3 ids, 5 contents, primary key, unique, plain and unique index in name order, a GIN index with shared keys, batches of up to 2 | `IndexesExact`, `KeysStayUnique`, and `ImplementsTable`: refinement of `Table`. |
| `tx_store` | 2 rows, 2 contents that are their own primary key, one transaction of up to 3 writes, row 2 also written by others, versions up to 2 | `DiffIsNet`, `RollbackRestores`, `LostOnlyToStolenKeys`. |
| `live_snapshot` | 2 rows, contents in / out of the query, one handle at a time of either kind, 2 deltas, 1 queued microtask, every usage | `StaleRowsAreDue`, `ClientsAgree`, and, under fairness, `EventuallyTold`. |
| `live_trace` | 2 rows, two contents selected and one not, 3 deltas, 2 microtasks | `DeltasComplete`, `ClientsAgree`, `FlushOnItsWay`. |
| `indexes` | 6 keys, one of them with two rows, nodes of at most 2 keys (three levels), batches of up to 3 entries | `WellFormed` (order, fill, depth, parents and leaf chain), `Reachable`, `ForwardRangesExact`, `ReverseRangesExact`, and two refinements of `KeyIndex`: `TreeImplementsIndex`, `HashImplementsIndex`. |
| `views` | 2 + 2 rows over 2 keys and 2 values, six queries (a filtered inner and a filtered left join, a full and a self join, a filtered and grouped right join, a grouped table), batches of 1 or 2 writes | `BucketsExact`, `MatchCountsExact`, `ViewIsQuery`, `DeltasExact`. |
| `planner` | 32 queries over 4 tables, 3 contents, 2 statistics (one of them knows no size of a table), 3 plan variants, a cache of 2 plans, sequences of 4 queries | `AnswerKept`, `Executable`. |
| `live_answers` | twelve subscriptions over 1 to 3 tables of 2 to 5 rows: a filter, `ORDER BY v LIMIT 1` with and without a join (overscan 1), `LIMIT 1 OFFSET 1` of an unordered join, two inner and two outer joins in a row, a GraphQL tree of three levels on the delta lane, with a limit below the root, with an ordered and limited root, of root rows that exchange keys, and of a table nested below itself on both lanes; 2 to 4 changed rows | `AnswersCurrent`, `WindowDeep`, `GroupsCurrent`, `BatchCurrent`, `GraphqlCurrent`. |
| `live_rollback`, `live_handle`, `graphql_payload` | as the runs above, smaller | a statement of the repository's own comments that the code violates: section 5. |

Every passing run but `live_trace`, whose module's `TypeOK` is checked by
`live_snapshot`, also checks the `TypeOK` of its module.

Why the bounds are enough. Five rows let a removal move a row that is scanned
before, and one that is scanned after, the removed one, with rows on both sides
of both. Two unique indexes around a plain one let an insert be refused before
and after an index that is filled without a check; a batch of two has a row
before the refused one, and repeats inside the batch. Three journal entries over
two rows reach insert-update-delete and delete-insert-update of one row, and the
exchange of a unique key between two rows through a deletion and a re-insertion,
which is what makes the order of the replay matter (with three contents, where
an update can also go through a third key, the same properties hold; that takes
several minutes and is not part of the runs); a version bound of two makes both the
overflow of an update and that of its undo reachable. Handles do not read each
other, so one at a time is enough for what each of them shows; two microtasks
are queued when a change is announced after a commit has flushed ahead of the
microtask that was already on its way. Three deltas hold
an update (two) and a further change of the same row.

Six keys with two to a node make a root that splits twice and merges twice, a
leaf that borrows from the left and from the right, and inner nodes that do;
the batch of three splits a leaf within the batch. Two rows on each side of a
join let a match count reach two and return to zero from either side, and two
writes in a batch change a key and back, or a row twice. The queries of the
planner were chosen so that every pass changes the plan of at least one of
them; three sequences of queries more than the cache has places evict the plan
that is asked for again.

The subscriptions of `live_answers` take turns, since they read nothing of each
other. Four changes and an overscan of one exhaust a window and fill it again;
three changes move a row of the middle table from one root row to another
between two flushes or within one, exchange a key, and let a root row leave, come
back and change what it refers to. A root row refers to the first level of the
tree, so that two parents share a child, and far rows change their parent.
`Scenario` gives each query its own bound, `max`; `MaxId` bounds row ids. The
overscan is at least 256 in the code (`snapshot_refresh_policy.rs`); one makes the
window's edge reachable.

`MaxBulk`, `MaxBatch`, `MaxEntries`, `MaxDeltas`, `MaxQueued` and `MaxHandles`
are bounds of the models and not of the code; each is a guard that stops further
calls. `MaxVersion` stands for the largest `u64`: updates wrap around there as
`wrapping_add` does, and the checked addition of the rollback fails there.

Fairness. `LiveSpec` adds `WF_vars(Microtask)` and nothing else: the event loop
runs queued microtasks as soon as the call that queued them has returned, before
any other task. No client call is assumed ever to happen; in particular no
transaction is assumed to end, which is why `EventuallyTold` excuses the rows of
the open transaction, and those whose change was never announced. On other
targets than WebAssembly the flush runs at once (`live_runtime.rs`,
`schedule_flush`), which is the case of a microtask that follows its call
immediately. Deadlock is checked in
`row_slots`, `row_store`, `tx_store` and `indexes`, where some call is always
possible. It is not in the runs of `LiveRuntime`: a panic stops the instance,
and with every bound reached clients have nothing left to do; nor in `planner`,
where a session ends with its last query, nor in `live_answers`, where it ends
when nothing is queued and every change of the bound was made.

What the properties are about:

- `StaleRowsAreDue`: a row that a registered `observe()` query shows wrongly is
  queued, pending in the open transaction or one of those in `lost`. A patched
  query reads only the ids it is told of, so an id lost between a write and a
  flush would leave it wrong for ever.
- `DeltasComplete`: what is queued or pending, run through the query's filter, is
  exactly the way from a `trace()` query's result to what the query returns now.
- `ClientsAgree`: the results or deltas that a subscriber was given add up to its
  query's result. For `trace()` rows are counted, because its deltas reach the
  client as two unordered lists: a row told twice is a violation.
- `FlushOnItsWay`: `flush_scheduled` is never set without a microtask behind it,
  which would silence the database for good.
- `WellFormed` with `Reachable`: nodes can be in order and a key still not be
  found, if a separator in an inner node does not tell the way to its leaf;
  range scans would then show a row that a lookup denies.
- `ViewIsQuery`: deltas are applied without looking at the tables, so that one
  missed or doubled match leaves a view wrong until it is created again.
  `DeltasExact`: a subscriber can apply the deltas strictly in their order. Both
  except rows of groups of the bootstrap that nothing has been output for,
  `ViewIsQuery` only when such a group is empty (section 5).
- `AnswerKept`: whatever passes ran, and whichever plan the cache served, the
  rows are those of the query that was asked, in the order it asked for, with
  one choice of rows where the query leaves it open.
- `AnswersCurrent`: after a flush the callback of an `observe()` query was last
  called with the query's present answer, whichever refresh was chosen and
  whatever was changed together. `WindowDeep` and `GroupsCurrent` say why the
  next refresh may start from what is kept: the window holds rows of the answer
  in their order and is deep enough, the groups are those of a fresh execution.
- `BatchCurrent`: every rendered object and every fetched key in the cache of a
  subscription is what rendering it now would give: no invalidation was missed,
  at any level. `GraphqlCurrent` (`RootsCurrent`, `ResponseFresh`, `HeardCurrent`): root rows,
  response and the payload that was patched step by step are those of a
  subscription opened now. Four faults of the code would each break one of them; a
  subscription that one of them has happened to is remembered in `slips`, and what
  the fault explains is excepted (section 5).
- `RollbackRestores`, `LostOnlyToStolenKeys`: none of the errors that
  `Journal::rollback` ignores happens to an undisturbed transaction; to a
  disturbed one they happen only for a unique key that somebody else took.

## 4. What is proved

TLAPS checks the following for every value of the constants that satisfies the
named assumptions: row ids are natural numbers; index names are distinct, and
not outcomes of a call; a column index gives a row one key; handle kinds are
disjoint; bounds are natural numbers; `Gone` is not a content; a plan reads
tables that exist; a table of a view has finitely many row ids, and its batches
write contents of that table or nothing (`<<>>`, a deletion); a query joins each
table to one that is there already, and rows have distinct ids and keys at first;
a node of a GraphQL selection lies below one that comes before it, a
subscription of the delta lane has neither order nor limit, and what stands for an
empty slot is not a row.

Journals, batches and row lists have any length. The library's induction
theorems take the property as an operator, which the installed provers cannot
instantiate, so `Iteration` has induction over a set of positions: a set of
natural numbers that is not empty has a least element, hence a set that has 0
and with each position the next has all of `0..N` (`StepByStep`). From that
follow that a recursive function over a sequence exists and has the type of its
steps, that two such functions agree on a common prefix, and that a set of
sequences closed under `Append` has all sequences. The folds of `TxStore`,
`LiveRuntime` and `Views` are recursive functions for this reason.

`StorageProofs`, first half. `TypeCorrect`, `SlotMapAlwaysExact`, `ScanAlwaysInIdOrder`.
The inductive invariant is the conjunction of the three. None is inductive
alone: removal finds the row it must repoint by a search in the scan order, and
insertion finds its place in the order through the slots. The binary search is
modelled by what it returns on a sorted order, so that such a position exists is
itself a lemma (`InsertPositionFacts`, by the least element of a set of natural
numbers), and so is that `swap_remove` followed by the two repairs is again a
bijection (`RemoveRowSlotInv`). From the same invariant follows the action
property `UntouchedRowsAlwaysSurvive`.

`RowStoreProofs`. `TypeCorrect`, `IndexesAlwaysExact`, `KeysAlwaysUnique`,
`StoreImplementsTable`, `RollbackRestores`. The code decides whether a key is free by asking an
index, so keys stay unique only because the indexes are exact; and the indexes
stay exact only because an accepted key really is free, since an entry shared by
two rows would be removed with the first of them. The invariant joins both.
`ExactNext` reduces each write to one statement about pairs. For the refinement,
`HoldsIsClash` and `BlocksIsClash` say that under the invariant an index lookup
answers what looking at all rows would, `FirstBadReported` that the reported
index is the one the abstract table reports, and `GoodIsTaken` with `LoadIsAfter`
that a batch, by whichever path, is its rows one at a time.

`TxStoreProofs`. `TxTypeCorrect`, `TxKeysUnique`, `DiffAlwaysNet`,
`LostOnlyToStolen`, `RollbackAlwaysRestores`. The replay of a journal applies
each inverse to whatever table is there by then and ignores refusals, so the
question is why none comes. The invariant (`Recorded`) says that a history
exists behind each open journal: one table for each position, from the one at
`begin` to the present one, each of them with unique keys, and entry n undoes
step n of it; rows that others wrote are left out of all of them. A write
appends a step to the history (`Undoes`); another writer removes a row from all
of it, which keeps every step. The replay then goes down the history: by
induction over the positions the table agrees, outside the rows of others, with
the table at that position, and since that one has unique keys an inverse is
refused only for a key that a row of others has. That row is the culprit that
`Stolen` names, or it came to the key during the replay itself, whose
contents are those of the journal (`HeldBy`). The diff needs only one step of
the history at a time.

`LiveRuntimeProofs`. `LiveTypeCorrect`, `FlushAlwaysOnItsWay`,
`StaleRowsAlwaysDue`, `DeltasAlwaysComplete`, `ObserversAlwaysAgree`,
`ClientsAlwaysAgree`. The second needs only that the number of microtasks is a
natural number. The third needs that a transaction that is not open has no
pending ids (`Shape`), or else a commit would forget ids of an earlier one; its
core is `FlushRefreshes`: after a flush every surviving query agrees with the
store on each id it was told of and has kept the others. For the deltas,
`DeltasComplete` is not inductive: that the concatenation of queued and pending
deltas leads to the store says nothing of where the queued ones lead alone, which
is what a rollback leaves over. `DeltaInv` splits the way at `Base`, the store as
it is without the open transaction: the queued deltas lead from each result to
`Query(Base)`, the pending ones from there to `Query(store)`. `Leads` says it
twice, by applying deltas in order and by counting rows, since the callback gets
two unordered lists; `SelectedConcat` and `AppliedConcat` (over sequences of any
length) put stretches together. `DeltasAlwaysComplete` assumes `Usage = {}`: each
of the four usages breaks it (a failing statement and a clear announce nothing,
the other two are in sections 5 and 6). `ClientsAlwaysAgree` assumes the same or that
nothing is traced; for `observe()` handles alone no assumption is needed.

`ViewsProofs`. `ViewTypeCorrect`, `BucketsAlwaysExact`, `MatchCountsAlwaysExact`,
`SidesAlwaysHoldTheTables`. The four parts of a side (slots, free list, buckets,
row index) support each other (`SideOK`), and match counts are sizes of the other
side's buckets (`CountsOK`); one insertion, deletion or update in place keeps both
(`ProcessInsertOK` and its siblings), a self-join of a table with itself included.
Of the groups, `ViewTypeCorrect` says that those without a record of their output
row are the silent ones; every batch keeps that, since whatever it outputs for a
group it records (`ProcessGroupOK`). But an insertion
of a row that is there already would leave a slot that nothing names, and no part
of the side excludes it: it is excluded by where deltas come from. So the
invariant also says that the sides hold the rows of the tables (`SidesHold`).
`Lawful` is the property of a delta sequence that carries it through a batch:
there is a history of contents, one for each position, in which insertions add an
absent id and deletions remove a present one with its content. The deltas of a
batch are lawful by construction (`WrittenLawful`), those that are left after the
filter too (`LeftDeltasLawful`). The join folds a deletion and a later insertion
of the same row into one update at the later place, so that in between the side
has rows that the history does not: `AppliedOK` says that it holds those of the
history and those that are held over (`Held`). `FilledOK` and `CountedOK` say the
same of the bootstrap, whose order of rows is any enumeration without repeats.

`StorageProofs`, second half. `HashNoEmptyKey` and `HashIsIndex`: the hash index refines
`KeyIndex` for every set of keys and batches. The invariant is that no key has
an empty set of rows; a unique index refuses by `contains_key`, and would refuse
a key whose last row was removed if the removal left the key behind.

`LiveAnswersProofs`. `AnswersTypeCorrect`, `AnswersAlwaysCurrent`, `WindowAlwaysDeep`,
`GroupsAlwaysCurrent`, `ChangesAlwaysKnown`, for every tree of joins in which a table comes
once, every order of statements and flushes, and any limits. The properties speak
of moments when nothing is queued; the invariant has to speak of the others. It
does so through a database that no variable holds (`Since`): the tables as the
last flush found them. For those, what is kept is right (`KeptOf`); and every row
that is another one by now has its id queued, with its contents before and after
(`Covered`). A flush replaces this database by the present one. What it needs is
that rows whose roots it does not look at have not changed (`AffectedSound`).
`DirtySettled` follows the worklist: after one round per distance to the root a
table gets no more dirty rows, since every edge leads closer, and no join of a
row that is not dirty, old or new, leads to one that is. `Transfer` then goes down the
joins: a root row that is not dirty yields the same output rows from both
databases. From there each way has its own argument. `PatchedAnswer`: the result
is the list of the shown rows, in the order of their ids, of a table in which
the ids patched so far are new and the others old. `MergedWindow`: what merging
cuts off lies behind at least `CandidateLimit` rows, and what is not drained is deep
enough; `VisibleWindow` counts the strays against the overscan. `RegroupedGroups`:
a root row has an affected key exactly if its id is affected, because
keys are unique before and after (`RegroupedKeys`), so that a group is replaced
as a whole or left as a whole. That sorting a finite set by a strict order has
exactly one outcome (`ArrangedFacts`, `ArrangedIs`), and that two output rows with
one sort key are the same row (`SameKey`), makes all of these statements about
sets of rows. `ChangesAlwaysKnown` says that `collect_affected_root_row_ids` never gives up for want
of deltas, so that a query without order and limit is executed once only. TLC
cannot enumerate the database of `Since`; what it says in quiet states, `KeptOf`
of the present tables, was checked on the instances of `MCLiveAnswers` before it
was proved.

`GraphqlLiveProofs` is about `GraphqlSpec` and goes on from `LiveAnswersProofs`. `CacheAlways`,
`BatchAlwaysCurrent`, and `BesideAlways` with `BesideAnswersCurrent`,
`BesideWindowDeep` and `BesideGroupsCurrent`, which say of the composition what was
proved of `Spec`: a subscription shares the tables with an `observe()` query and
changes nothing of it. `BatchCurrent` speaks of quiet moments too, and of one
flush; a subscription without a callback renders nothing for many of them, the
delta lane renders after each table, when the next ones have changed in the store
but have not been announced yet, and invalidation removes from a cache whose
objects still embed what was removed. `CacheInv` is what holds throughout. Its
core is `BatchOK`: each cached object is the one made of the cached objects and
buckets it shows, all of which are there. Rendering adds to cache and buckets and
never replaces (`Joint`, `RenderedFacts`, by induction over the nodes from the
root down and back up), so what was whole stays whole. Invalidation takes away
with each entry the entries that show it (`WithAncestors`): after as many rounds
as the tree has nodes no entry is left whose bucket or whose parts are gone
(`InvalidationFacts`). `BucketsCurrent` ties what was fetched to what is queued: a bucket
has what the table has for its key, or a queued row has or had that key, so that
invalidation by the keys of the deltas finds it (`FetchSame`: the rows of a key
are the same in two databases unless a changed row has it before or after). On
the delta lane the induction is over the order of the tables, with the deltas of
those that are still to come in place of the queue (`Remaining`). The argument
needs no assumption on the order or on which tables are nested where; one place
of the code escapes it, the early return of section 5, after which `BatchCurrent`
excepts what was fetched for keys.

`RootsAlwaysCurrent` rests on an invariant of each lane. `SnapshotAlways` is `Since`
again: there is a database from which only queued rows differ and whose answer the
root rows are. New is what two faults leave to hold after them (`RootsKept`): a
patch leaves the runtime behind, and a runtime that is behind is still shaped as
one (`RuntimeShape`), so that the list which it is put together to has each row
once and in groups, though not the right rows; `slips` says which part still
holds. `DeltaAlways` is about a queue instead. Of the deltas that wait, the last
one for an id decides (`LeadTo`): if it brings a row, that row is visible, and if
it takes one, none with its id is; a row whose id no delta has is in the view
exactly if it is visible (`BehindBy`). `AppliedCurrent` follows the view through
the deltas, with slots that are emptied and used again: `ViewOK` says that slots
marked free are empty, each marked once, and that no id has two slots, and
without its second part a row would be written over another one. The flush takes
the tables in any order; only the root's deltas change the view (`FlushedView`).

`ResponseAlwaysFresh` and `HeardAlwaysCurrent` go on from the root rows to what a
subscriber has; with `RootsAlwaysCurrent` they make `GraphqlAlwaysCurrent`, all of
`GraphqlCurrent`. Both rest on `ListAlways`. Its part `ListInv` says that each item of
the root list is the one cached for its row, except for rows that are dirty
(`ListOK`); that as long as the list may be patched in place, its rows that are not
dirty are unchanged and where they were (`Aligned`); that the payload has the items of
the list; and that a subscriber's payload is never dirty between steps (`Answering`).
`RenderList` then ends in a list whose every row has its cached item, by whichever of
its paths (`AlwaysListed`), and what is cached is fresh by `CacheAlways`.

The part of this that is not local is `Aligned` on the delta lane. The code takes a
list for one that keeps its positions when the deltas of the root take as many rows as they
bring, with the same ids (`output_deltas_preserve_root_positions`), and then looks at
the dirty positions only, although rows go into whichever slot was freed last. It is
right: rows that were away together can come back in each other's slots, which the
look at the dirty positions finds, but never in that of another row, and never in one that
was free before, since free slots are a stack (`RowsInPlace`). That needs each row to go before it
comes back (`TurnsWhenBack`), and to have been in the view: a row that goes first must be
there, unless the list was rendered from that view or is empty, which is `ExactInv`
(`StableAligned`).

For what was sent, a patch is reduced to a renaming of positions: the positions that
stay, in order, are those of the old list without the removed ones (`Renames`), and the
items there are the old ones unless they are updated (`Taken`). `Counts` says that a
sequence enumerates a set of positions in increasing order; removal keeps such an
enumeration (`WithoutLists`), a renaming carries it over (`Relisted`), and insertion at
the least positions first extends it until it enumerates all of them
(`AllInsertedLists`, `ListsAll`). Hence what `Array.splice` makes of the array that was sent
before is the list of items (`PatchedList`), and `RenderPatches` says that each path of
`RenderList` leaves such a patch, a splice that is applied again excepted (`spliced`).

Only model-checked. `BTree` and `Planner`: a tree of nodes, and plans within
plans, are recursive operators, in which the provers cannot be used. `ViewIsQuery`
and `DeltasExact`: they compare with `Executor`, and need that counts and sums
over groups are those of sets of rows, an induction over data for each aggregate.
`EventuallyTold`, liveness under fairness, which is out of the prover's reach.

## 5. Where the code disagrees with its own words

Each is a run that TLC must find violated; `PROJECT.json` quotes the line.

- `live_rollback`: rolling back while a subscribed `observe()` query watches the
  table flushes while the table cache is mutably borrowed; the query borrows it
  again, and the panic aborts the instance. The comment says it notifies.
- `live_handle`: a flush drops every query without a subscriber for good; a
  callback subscribed to the same handle afterwards is never called.
- `graphql_payload`: a root list that is served from the cache
  (`gql/src/batch_render.rs:628`) comes with the patch that led to it. If that was
  a splice, it is applied to the payload again: subscribers get a root row twice,
  or lose one, after a change that concerns none of the listed rows. The comment
  promises a payload whenever the response changes.

Further disagreements are not runs of their own. Some have a configuration
beside the runs, which shows the counterexample; the models of the runs leave
the case out, as said.

- `TxVersions.cfg` (`VersionsKeepIncrementing`): the undo of an update takes the
  next version from the journal entry it undoes and not from the row
  (`storage/src/journal.rs:300`). After two updates of one row, rollback gives the
  old content the version that the second update's content had. The comment
  promises versions that keep incrementing, and the JavaScript bridge reuses a
  cached row object when id and version agree (`js_surface.rs:773`).
- `LiveEarlyTrace.cfg` (`ClientsAgree`): `trace()` opened while a change is queued
  starts from a result that has it (`query_builder.rs:2327`); the flush delivers it
  again, and a client that applies deltas to `getResult()`, as the comment tells
  it to (`js_surface.rs:306`), ends with other rows.
- `RefreshWindow.cfg` (`WindowShowsAnswer`): a changed row that sorts behind the
  whole window is merged at its end, although rows before it are unknown. When
  rows of the front then leave, it becomes visible too early. The overscan has to
  be used up by such rows, so that in the code it takes more than 256 of them;
  the configuration has an overscan of 1.
- `IndexBatch.cfg` (`Reachable`): a batch insertion goes on from the leaf of the
  last key (`tree.rs:98`) and compares only with that leaf's greatest key, so a
  key can be stored in a leaf that lookups do not reach. `HintSafe` says when it
  cannot.
- `IndexReverse.cfg` (`ReverseFromIncluded`): a reverse scan with an included
  upper bound starts after that key's leaf position and loses the key's rows in
  some trees, against the contract of `visit_range`.
- `ViewNulls.cfg` (`ViewIsQuery`): the incremental join matches a null key with
  a null key (`materialize.rs`, `JoinKey`), the executor does not.
- `ViewGroups.cfg` (`OldGroupDeleted`): an aggregation deletes the old row of a
  group if `last_row_ids` has it, and the bootstrap fills that map only for an
  aggregation with a parent (`materialize.rs:2974`). The root has none, so the
  first output for a group of the bootstrap is an insertion alone, which a
  subscriber has to take for a replacement, and a group that loses its last row
  before that stays in the result. The comment on `process_deltas` (line 905)
  promises the deletion whenever the group existed; a test (line 4536) asserts
  the insertion alone.
- `GraphqlNesting.cfg` (`PayloadCurrent`): a flush that names the root table only
  and leaves the root list as it was returns before anything is invalidated
  (`graphql_observable.rs:206`). If the root table is also nested below the root,
  subscribers keep a response in which a nested row has its old contents.
- `PlanUnion.cfg` (`AnswerKept`): the fingerprint of a plan leaves out whether a
  union keeps duplicates (`plan_cache.rs:196`), so a UNION ALL can be served the
  plan of a UNION; the comment promises that structurally different plans differ.

`RootsCurrent`, `ResponseFresh` and `HeardCurrent` except by name (`slips`) what four
faults lead to. "spliced" and
"unseen" are those of `graphql_payload` and `GraphqlNesting.cfg`. "regrouped":
`refresh_root_rows` patches the root rows and leaves the runtime of the root
subset as it was (`graphql_observable.rs:288`); a later flush that changes root and
nested tables regroups from it, and a root row that was removed comes back.
"misplaced": the runtime keeps its groups in the order in which keys came, so a
key that another row takes over keeps its place, and the root rows are no longer
in the order of their ids; the next patch searches them by bisection
(`query/src/executor/runner.rs:1228`) and can miss the row, insert it twice or put
it anywhere. `Misplaced` leaves the outcome of the search open. Without either
exception `RootsCurrent` fails within eight steps.

Read off the code and kept out of the models' instances: polling `getResult()` of
a GraphQL subscription without a callback materializes the response, applies a
splice again and can take the change away from the next emission; a relation
filter below the root does not invalidate the keys fetched through it;
`COUNT(col)` and `AVG` count nulls, and `MIN` of no values is null, incrementally; a global aggregate
over no rows and `GROUP BY` without functions emit nothing; `extract_join_keys`
of the dataflow compiler drops join conditions that are not equalities; unknown
aggregates fall back to a count; an index range with one open end returns rows
whose column is null; `TopNPushdown` over an index scan with an offset returns
limit plus offset rows; `OuterJoinSimplification` takes every `IN` to reject
nulls and narrows a full join with a one-sided filter to the wrong side;
`JoinReorder` accepts a condition as soon as any of its tables is present.

## 6. Abstractions, and what is not modelled

- Contents of rows are values of a small set; a key, a predicate and a delta are
  what they say about a content. An update to equal content is left out of
  `LiveRuntime` (it has no effect on a result; it does queue its id).
- `LiveRuntime` has one table and queries that are filters. Joins and GraphQL are
  in `LiveAnswers` and `GraphqlLive`, which leave out microtasks, transactions
  and garbage collection.
- `LiveAnswers`: which of two compiled plans a root subset is executed with
  (`decide_refresh_for`), since both give the same rows; projections; unions and
  aggregates, which are always executed again. `RootSubsetRefreshRuntime::new`
  gives up on a result in which the rows of a root row are not together
  (`snapshot_refresh.rs:127`), and the query is executed again each time; in the
  model they are together, since `InOrder` lists rows by root row. `IsQuery` leaves out queries that
  join a table twice.
  Keys that get their ordinals in one flush are ordered by row id, where the code
  leaves it to a hash set.
- `GraphqlLive`: polling `getResult()`, relation filters,
  pruning of the caches, row versions, parsing and binding, mutations,
  and encoding other than the root list.
- Callbacks return without calling back into the library. What they may do when
  they do (unsubscribe, read, write, while the query is borrowed) is listed
  among the hazards.
- `trace()` handles opened inside an open transaction, and direct writes to a
  row that an open transaction has changed, break `DeltasComplete` for reasons
  that can be read off the code (`transaction.rs`: rollback clears the deltas);
  the runs of the delta lane leave them out, and the hazards list them.
- Reading: index and GIN lookups, scans with limits, `get_mut` (no caller), and
  the `_with_deltas` forms of the RowStore writes, whose deltas are those of
  `LiveRuntime.DeltasOf`.
- `BTree`: statistics, minimum and maximum, cost estimates: they only read.
- `Views`: projections, residual join conditions, computed columns and views
  over views; `IncrementalHashJoin`, which nothing uses.
- `Planner`: selection of composite and GIN indexes, aggregates inside plans,
  sort-merge joins, the compiled and streaming variants of the executor, cost
  formulas, hash collisions of fingerprints, and `invalidate_table`, which
  nothing calls.
- Not modelled at all yet: the components marked so in `PROJECT.json`. Encoders,
  decoders, schema building and value comparison are transformations of single
  values without state, for which round-trip tests do more than a model.

## 7. The plan

Done: `RowSlots`, `Table` and `RowStore`, `TxStore`, `LiveRuntime`, `BTree` and
`HashIndex`, `Views`, `Planner` with the plan cache, `LiveAnswers` and
`GraphqlLive`. Next, by how much of the system's correctness hangs on each:

1. `Gin`: posting lists and the bulk builder, beside the other two indexes.
2. `Subscriptions`: ObservableQuery and QueryRegistry with weak references,
   unsubscription by id, and callbacks that call back.
3. `LockManager` (requests fail instead of waiting; two holders that both upgrade
   each fail until one releases) and `ForeignKeys` (the delete check looks up the
   parent's value among the child's primary keys, `storage/src/constraint.rs:109`).
   Nothing in the write path uses either.

More proofs: that the visible rows of `Views` are those of a recomputation from
the sides, for which the match counts and `SidesAlwaysHoldTheTables` are the
ground; the parts of `BTree` that one call on one leaf decides; that `RowSlots`
implements the row map of `RowStore`.

## 8. Running

    tlc -config MCRowStore.cfg MCRowStore.tla     # a run: the cfg and module of PROJECT.json
    tlapm RowStoreProofs.tla                      # a proof module

Operators whose comment begins with "Mutant:" are plausible bugs. `PROJECT.json`
pairs each with the definition it replaces and the property that must then fail;
no specification uses them.
