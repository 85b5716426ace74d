---------------------------- MODULE LiveAnswers ----------------------------
(***************************************************************************)
(* A subscribed observe() query over several tables: ReQueryObservable     *)
(* (crates/database: reactive_bridge.rs) with the state it keeps to be     *)
(* refreshed cheaply.  Tables change at once; ids and deltas of the        *)
(* changed rows are queued, and one flush later on_change chooses between  *)
(* the patch, the window, the subset and a full execution of the plan.     *)
(* LiveRuntime models the queueing and the microtasks; here a flush may    *)
(* come at any time after a change.                                        *)
(***************************************************************************)
EXTENDS SnapshotRefresh

CONSTANTS Scenario, \* records [api, q, db, inserts, updates, max]: who asks, the query, the
                    \* tables at first, for each table the rows, without ids, to insert and
                    \* to update to, and a bound: how many statements change a row
          MaxId     \* bound: row ids in a table

ASSUME MaxIdAssumption == MaxId \in Nat

\* Every join brings in a table that is not there yet, by a table that is.
Column == {"id", "key", "ref", "v"}
IsQuery(p) ==
  /\ p.ordered \in BOOLEAN /\ p.offset \in Nat /\ p.limit \in Nat /\ p.overscan \in Nat
  /\ p.joins \in Seq([left : Tables(p), lcol : Column, table : Tables(p), col : Column, outer : BOOLEAN])
  /\ \A n \in DOMAIN p.joins :
       LET before == {p.root} \cup {p.joins[m].table : m \in 1..(n - 1)}
       IN  p.joins[n].left \in before /\ p.joins[n].table \notin before

WithId(c, i) == [id |-> i, key |-> c.key, ref |-> c.ref, v |-> c.v]

\* Rows are numbered from 1 on, and none of them is what stands for no row.
AreRows(rows, written) ==
  /\ IsFiniteSet(rows) /\ Cardinality(rows) <= MaxId
  /\ {r.id : r \in rows} = 1..Cardinality(rows)
  /\ \A r \in rows : r = WithId(r, r.id)
  /\ \A r, s \in rows : r # s => r.id # s.id /\ r.key # s.key
  /\ \A c \in rows \cup written : c.v \in Int /\ \A i \in 1..MaxId : WithId(c, i) # Absent

ASSUME ScenarioAssumption ==
  \A s \in Scenario :
    /\ s.api \in {"rows", "snapshot", "delta"} /\ IsQuery(s.q)
    /\ Tables(s.q) \subseteq DOMAIN s.db /\ DOMAIN s.inserts = DOMAIN s.db /\ DOMAIN s.updates = DOMAIN s.db
    /\ \A t \in DOMAIN s.db : AreRows(s.db[t], s.inserts[t] \cup s.updates[t])
    /\ s.max \in Nat

VARIABLES scenario, \* the query and its tables, chosen once
          db,       \* the tables
          nextId,   \* the next row id of each table
          ids,      \* pending_changes: ids of changed rows, of each table
          deltas,   \* pending_deltas: their contents before and after
          opened,   \* observe() has been called, and the result subscribed to
          result,   \* ReQueryObservable.result
          window,   \* partial_refresh.candidate_rows
          runtime,  \* root_subset_refresh
          told,     \* the rows that the callback was called with last
          changes   \* statements so far

tables == <<db, nextId, ids, deltas, changes>>
vars == <<scenario, db, nextId, ids, deltas, opened, result, window, runtime, told, changes>>

q == scenario.q

Patchable == q.joins = <<>> /\ ~q.ordered /\ q.limit = 0
Windowed == q.ordered /\ q.limit > 0
Subsettable == ~q.ordered /\ q.limit = 0

None == [t \in DOMAIN db |-> {}]

TypeOK ==
  /\ scenario \in Scenario /\ opened \in BOOLEAN /\ changes \in 0..scenario.max
  /\ \A t \in DOMAIN db :
       /\ \A r \in db[t] : r.id < nextId[t]
       /\ \A r, s \in db[t] : r # s => r.id # s.id /\ r.key # s.key
       /\ ids[t] \in SUBSET (1..MaxId) /\ nextId[t] \in 1..(MaxId + 1)
       /\ {r.id : r \in deltas[t]} = ids[t]
  /\ \A o \in ToSet(result) : DOMAIN o = Tables(q)
  /\ Windowed => Len(window) <= CandidateLimit(q)

Init ==
  /\ scenario \in Scenario /\ db = scenario.db
  /\ nextId = [t \in DOMAIN db |-> 1 + Cardinality(db[t])]
  /\ ids = None /\ deltas = None /\ changes = 0
  /\ opened = FALSE /\ result = <<>> /\ window = <<>> /\ runtime = Empty /\ told = <<>>

-----------------------------------------------------------------------------
(* Statements.  The row with this id becomes c, appears or goes.            *)
Write(t, old, new) ==
  /\ changes < scenario.max /\ changes' = changes + 1
  /\ \A r \in db[t] \ old, s \in new : r.key # s.key
  /\ db' = [db EXCEPT ![t] = (@ \ old) \cup new]
  /\ ids' = [ids EXCEPT ![t] = @ \cup {r.id : r \in old \cup new}]
  /\ deltas' = [deltas EXCEPT ![t] = @ \cup old \cup new]
  /\ UNCHANGED <<scenario, opened, result, window, runtime, told>>

Insert(t) ==
  /\ nextId[t] <= MaxId /\ nextId' = [nextId EXCEPT ![t] = @ + 1]
  /\ \E c \in scenario.inserts[t] : Write(t, {}, {WithId(c, nextId[t])})

Update(t) ==
  \E r \in db[t], c \in scenario.updates[t] :
    r # WithId(c, r.id) /\ Write(t, {r}, {WithId(c, r.id)}) /\ UNCHANGED nextId

Delete(t) == \E r \in db[t] : Write(t, {r}, {}) /\ UNCHANGED nextId

-----------------------------------------------------------------------------
(* observe() and subscribe(): the plan is executed, and what the refresh    *)
(* works from is built from its rows.  The window's plan has the candidate  *)
(* limit instead of the query's.  Changes may be queued from before.        *)
Rows(d) == IF Windowed THEN Candidates(d, q, AllRoots(d, q)) ELSE Answer(d, q)

Observe ==
  /\ ~opened /\ opened' = TRUE
  /\ result' = Answer(db, q) /\ told' = result'
  /\ window' = IF Windowed THEN Rows(db) ELSE <<>>
  /\ runtime' = IF Subsettable THEN NewRuntime(db, q, Rows(db)) ELSE Empty
  /\ UNCHANGED <<scenario, tables>>

(* The flush: on_change with the ids and deltas that are queued.            *)
Changed == {t \in DOMAIN db : ids[t] # {}}
Pending == Changed # {}
Roots == AffectedRoots(db, q, ids, deltas)
Known == Traceable(db, q, ids, deltas)

Drain ==
  /\ Pending
  /\ ids' = None /\ deltas' = None
  /\ UNCHANGED <<scenario, db, nextId, opened, changes>>

Flush == opened /\ Drain

\* The callback is called if the result differs, row by row.
Show(rows) == result' = rows /\ told' = IF rows # result THEN rows ELSE told

PatchRefresh ==
  /\ Patchable /\ Changed = {q.root} /\ Flush
  /\ Show(Patched(db, q, result, ids[q.root]))
  /\ UNCHANGED <<window, runtime>>

WindowMerges ==
  /\ Windowed /\ Known /\ ~TooManyAffected(q, window, Roots)
  /\ ~Drained(q, window, Merged(db, q, window, Roots))

WindowRefresh ==
  /\ WindowMerges /\ Roots # {} /\ Flush
  /\ window' = Merged(db, q, window, Roots)
  /\ Show(Visible(q, window'))
  /\ UNCHANGED runtime

\* refresh_existing: known root rows may have another key if their table has changed.
SubsetRefreshes == Subsettable /\ ~Patchable /\ Known

SubsetRefresh ==
  /\ SubsetRefreshes /\ Roots # {} /\ Flush
  /\ runtime' = Regrouped(db, q, runtime, Roots, q.root \in Changed)
  /\ Show(Ungrouped(runtime'))
  /\ UNCHANGED window

\* No root row is affected: nothing to do.
Unaffected ==
  /\ Windowed \/ SubsetRefreshes
  /\ Known /\ Roots = {} /\ Flush
  /\ UNCHANGED <<result, told, window, runtime>>

\* Everything else: the plan is executed.  A window is filled again.
Requery ==
  /\ ~Patchable /\ ~SubsetRefreshes /\ ~WindowMerges /\ Flush
  /\ window' = IF Windowed THEN Rows(db) ELSE window
  /\ Show(IF Windowed THEN Visible(q, window') ELSE Rows(db))
  /\ UNCHANGED runtime

Statement == \E t \in DOMAIN db : Insert(t) \/ Update(t) \/ Delete(t)

Next ==
  \/ Statement
  \/ Observe
  \/ PatchRefresh \/ WindowRefresh \/ SubsetRefresh \/ Unaffected \/ Requery

Spec == Init /\ [][Next]_vars

-----------------------------------------------------------------------------
(* Properties.                                                              *)
Quiet == opened /\ ~Pending

\* Rows that the window holds too early: there are rows of the answer before them
\* that it does not know.
Strays ==
  LET whole == Whole(db, q)
      good == {n \in 0..Len(window) : n <= Len(whole) /\ SubSeq(window, 1, n) = SubSeq(whole, 1, n)}
  IN  Len(window) - (CHOOSE n \in good : \A m \in good : m <= n)

\* Order matters if the query asks for one; otherwise a client has the rows of the
\* answer, each as often.
Tells(rows, answer) == IF q.ordered \/ Patchable THEN rows = answer ELSE ToBag(rows) = ToBag(answer)

\* Once nothing is queued, subscribers have been told the answer of the query,
\* whichever way on_change took (reactive_bridge.rs on_change_inner), whatever was
\* changed together or in turn, and although parts of the old result were kept.
\* A window is excepted that has come to hold too many rows out of their order.
AnswersCurrent == Quiet /\ (Windowed => Strays <= q.overscan) => Tells(told, Answer(db, q)) /\ told = result

\* The overscan is there for this: the window holds rows that are in the answer, as
\* they are, in order, and either as many as MinShadowWindow or all there are
\* (reactive_bridge.rs try_partial_refresh).
WindowDeep ==
  Quiet /\ Windowed =>
    /\ ToSet(window) \subseteq ToSet(Whole(db, q))
    /\ window = InOrder(q, ToSet(window))
    /\ Len(window) >= MinShadowWindow(q) \/ Len(window) = Len(Whole(db, q))

\* The keys and groups that the next subset refresh will start from are those of the
\* tables, also of root rows that the result does not show
\* (snapshot_refresh.rs collect_affected_root_keys, apply_subset_rows).
GroupsCurrent ==
  Quiet /\ SubsetRefreshes =>
    LET fresh == NewRuntime(db, q, Whole(db, q))
    IN  /\ runtime.groups = fresh.groups /\ runtime.keyOf = fresh.keyOf
        /\ ToSet(runtime.order) = DOMAIN runtime.groups
        /\ Len(runtime.order) = Cardinality(DOMAIN runtime.groups)

\* "Called when the table changes - re-executes the cached physical plan. Only
\* notifies subscribers if the result actually changed" (reactive_bridge.rs:227):
\* what subscribers see of a query with ORDER BY and LIMIT is its answer.
WindowShowsAnswer == Quiet /\ Windowed => told = Answer(db, q)
=============================================================================
