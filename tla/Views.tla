------------------------------- MODULE Views --------------------------------
(* A materialized view (incremental/src/materialize.rs): the join states,   *)
(* the groups and the visible rows it keeps, and what one batch of deltas   *)
(* of one table does to them.  The view's query is a source, an optional    *)
(* filter, an optional join with a second source (possibly the same table)  *)
(* and an optional aggregation; the result it must keep up with is the one  *)
(* the query executor computes from the tables.                             *)
EXTENDS Executor

CONSTANTS Table, RowIdsOf(_), ValuesOf(_), Plans, Batches(_)

ASSUME PlanAssumption ==
    \A p \in Plans : p.left \in Table /\ (p.join # "none" => p.right \in Table)
ASSUME ContentAssumption ==
    \A t \in Table : /\ RowIdsOf(t) \subseteq Nat /\ IsFiniteSet(RowIdsOf(t))
                    /\ <<>> \notin ValuesOf(t)
                    /\ Batches(t) \subseteq Seq(RowIdsOf(t) \X (ValuesOf(t) \cup {<<>>}))

VARIABLES
    plan,       \* the dataflow compiled for the query
    tables,     \* the tables as the deltas delivered so far made them
    sides,      \* JoinState: the left and the right JoinSideState
    groups,     \* GroupAggregateState.groups: key -> one state per function
    announced,  \* the keys of GroupAggregateState.last_row_ids
    visible,    \* VisibleResultStore: row id -> values
    emitted,    \* the output deltas of the last batch
    silent      \* history: the groups of the bootstrap not yet output since

vars == <<plan, tables, sides, groups, announced, visible, emitted, silent>>

Absent == <<>>      \* a row id of a table under which no row is stored
NoSlot == <<>>      \* a slot on the free list

Side == {"left", "right"}
Other(s) == IF s = "left" THEN "right" ELSE "left"

Joins      == plan.join # "none"
Aggregates == plan.functions # <<>>
Width      == 2
KeyColumn(s)   == IF s = "left" THEN plan.leftKey ELSE plan.rightKey
DependsOn(t)   == t = plan.left \/ (Joins /\ t = plan.right)

Delta(diff, row) == [diff |-> diff, row |-> row]
Insert(row) == Delta(1, row)
Delete(row) == Delta(-1, row)

-----------------------------------------------------------------------------
(* One side of a join: rows in slots, slot ids in one bucket for each key.  *)

EmptySide == [slots |-> <<>>, free |-> <<>>, buckets |-> <<>>, slotOf |-> <<>>]

Bucket(side, key) ==
    IF key \in DOMAIN side.buckets THEN side.buckets[key] ELSE <<>>

With(f, x, e)  == [y \in DOMAIN f \cup {x} |-> IF y = x THEN e ELSE f[y]]
Without(f, x)  == [y \in DOMAIN f \ {x} |-> f[y]]

InsertRow(side, row, key, matches) ==
    LET bucket == Bucket(side, key)
        slot   == [row |-> row, key |-> key, pos |-> Len(bucket) + 1, matches |-> matches]
        reused == side.free # <<>>
        id     == IF reused THEN Last(side.free) ELSE Len(side.slots) + 1
    IN  [slots   |-> IF reused THEN [side.slots EXCEPT ![id] = slot]
                     ELSE Append(side.slots, slot),
         free    |-> IF reused THEN Front(side.free) ELSE side.free,
         buckets |-> With(side.buckets, key, Append(bucket, id)),
         slotOf  |-> With(side.slotOf, row.id, id)]

(* A bucket that lost a slot is closed up by its last slot, which is told   *)
(* its new position (swap_remove).                                          *)
SwapRemove(bucket, pos) ==
    Front(IF pos = Len(bucket) THEN bucket ELSE [bucket EXCEPT ![pos] = Last(bucket)])

\* Mutant: the moved slot is not told.
NotMoved(slots, bucket, pos) == slots

Moved(slots, bucket, pos) ==
    IF pos \in DOMAIN bucket THEN [slots EXCEPT ![bucket[pos]].pos = pos] ELSE slots

\* Mutant: the slot of a removed row is never reused.
NotFreed(side, id) == side.free

Freed(side, id) == Append(side.free, id)

RemoveRow(side, rowId) ==
    LET id     == side.slotOf[rowId]
        slot   == side.slots[id]
        bucket == side.buckets[slot.key]
        pos    == IF slot.pos \in DOMAIN bucket /\ bucket[slot.pos] = id THEN slot.pos
                  ELSE CHOOSE p \in DOMAIN bucket : bucket[p] = id
        closed == SwapRemove(bucket, pos)
    IN  [slots   |-> Moved([side.slots EXCEPT ![id] = NoSlot], closed, pos),
         free    |-> Freed(side, id),
         buckets |-> IF closed = <<>> THEN Without(side.buckets, slot.key)
                     ELSE [side.buckets EXCEPT ![slot.key] = closed],
         slotOf  |-> Without(side.slotOf, rowId)]

\* Mutant: a flag in place of a count.
MatchedOnce(side, hits, change) ==
    LET run[n \in 0..Len(hits)] ==
            IF n = 0 THEN side
            ELSE [run[n - 1] EXCEPT !.slots[hits[n]].matches = Max({change, 0})]
    IN  run[Len(hits)]

(* The slots hits of a side have matched one row more, or one row less.     *)
Matched(side, hits, change) ==
    LET run[n \in 0..Len(hits)] ==
            IF n = 0 THEN side
            ELSE [run[n - 1] EXCEPT !.slots[hits[n]].matches = Max({@ + change, 0})]
    IN  run[Len(hits)]

-----------------------------------------------------------------------------
(* The join.  j is [left, right, out]; each operator handles both sides, as *)
(* process_left_* and process_right_* mirror each other.                    *)

Keeps(s) == IF s = "left" THEN KeepsLeft(plan.join) ELSE KeepsRight(plan.join)
Pair(s, own, their) == IF s = "left" THEN Joined(own, their) ELSE Joined(their, own)
Padded(s, row) == IF s = "left" THEN PadRight(row, Width) ELSE PadLeft(row, Width)

Emit(j, deltas) == [j EXCEPT !.out = @ \o deltas]

ProcessInsert(j, s, row) ==
    LET o    == Other(s)
        key  == row.vals[KeyColumn(s)]
        hits == Bucket(j[o], key)
        Hit(i) == j[o].slots[hits[i]]
        new  == [i \in DOMAIN hits |->
                    <<Insert(Pair(s, row, Hit(i).row))>> \o
                    (IF Keeps(o) /\ Hit(i).matches = 0
                     THEN <<Delete(Padded(o, Hit(i).row))>> ELSE <<>>)]
        lone == IF hits = <<>> /\ Keeps(s) THEN <<Insert(Padded(s, row))>> ELSE <<>>
    IN  Emit([j EXCEPT ![s] = InsertRow(@, row, key, Len(hits)),
                       ![o] = Matched(@, hits, 1)],
             FlattenSeq(new) \o lone)

ProcessDelete(j, s, row) ==
    LET o    == Other(s)
        slot == j[s].slots[j[s].slotOf[row.id]]
        hits == IF slot.matches = 0 THEN <<>> ELSE Bucket(j[o], slot.key)
        Hit(i) == j[o].slots[hits[i]]
        gone == [i \in DOMAIN hits |->
                    <<Delete(Pair(s, slot.row, Hit(i).row))>> \o
                    (IF Keeps(o) /\ Hit(i).matches = 1
                     THEN <<Insert(Padded(o, Hit(i).row))>> ELSE <<>>)]
        lone == IF slot.matches = 0 /\ Keeps(s) THEN <<Delete(Padded(s, slot.row))>> ELSE <<>>
    IN  IF row.id \notin DOMAIN j[s].slotOf THEN j
        ELSE Emit([j EXCEPT ![s] = RemoveRow(@, row.id),
                            ![o] = Matched(@, hits, -1)],
                  FlattenSeq(gone) \o lone)

ProcessSameKeyUpdate(j, s, old, new) ==
    LET o    == Other(s)
        id   == j[s].slotOf[new.id]
        slot == j[s].slots[id]
        hits == IF slot.matches = 0 THEN <<>> ELSE Bucket(j[o], slot.key)
        Theirs(i) == j[o].slots[hits[i]].row
        lone == IF slot.matches = 0 /\ Keeps(s)
                THEN <<Delete(Padded(s, old)), Insert(Padded(s, new))>> ELSE <<>>
    IN  IF new.id \notin DOMAIN j[s].slotOf THEN ProcessInsert(j, s, new)
        ELSE Emit([j EXCEPT ![s].slots[id].row = new],
                  FlattenSeq([i \in DOMAIN hits |->
                      <<Delete(Pair(s, old, Theirs(i))), Insert(Pair(s, new, Theirs(i)))>>])
                  \o lone)

(* normalize_join_side_deltas: a deletion and the next insertion of the     *)
(* same row under the same key become one update, in the deletion's place.  *)
Previous(deltas, i) ==
    Max({h \in 1..(i - 1) : deltas[h].row.id = deltas[i].row.id} \cup {0})

\* Mutant: the keys are not compared.
AnyUpdates(deltas, column) ==
    {i \in DOMAIN deltas : /\ deltas[i].diff = 1
                           /\ Previous(deltas, i) # 0
                           /\ deltas[Previous(deltas, i)].diff = -1}

Updates(deltas, column) ==
    {i \in DOMAIN deltas :
        /\ deltas[i].diff = 1
        /\ LET h == Previous(deltas, i)
           IN  /\ h # 0
               /\ deltas[h].diff = -1
               /\ deltas[h].row.vals[column] = deltas[i].row.vals[column]}

Processed(j, s, deltas, i) ==
    LET updates == Updates(deltas, KeyColumn(s))
        updateAt == {u \in updates : Previous(deltas, u) = i}
    IN  CASE i \in updates -> j
          [] updateAt # {} ->
                ProcessSameKeyUpdate(j, s, deltas[i].row, deltas[CHOOSE u \in updateAt : TRUE].row)
          [] i \notin updates /\ updateAt = {} /\ deltas[i].diff = 1 ->
                ProcessInsert(j, s, deltas[i].row)
          [] i \notin updates /\ updateAt = {} /\ deltas[i].diff # 1 ->
                ProcessDelete(j, s, deltas[i].row)

Applied(j, s, deltas) ==
    LET run[i \in 0..Len(deltas)] ==
            IF i = 0 THEN j ELSE Processed(run[i - 1], s, deltas, i)
    IN  run[Len(deltas)]

-----------------------------------------------------------------------------
(* The aggregation: for each function a count, a sum and the multiset of    *)
(* values; a function reads the part it needs.                              *)

NewState == [count |-> 0, sum |-> 0, values |-> <<>>]

Argument(function, row) == IF function[2] = 0 THEN Null ELSE row.vals[function[2]]

Apply(state, value, diff) ==
    LET known == IF value \in DOMAIN state.values THEN state.values[value] ELSE 0
    IN  [count  |-> state.count + diff,
         sum    |-> state.sum + value * diff,
         values |-> IF known + diff <= 0 THEN Without(state.values, value)
                    ELSE With(state.values, value, known + diff)]

ValueOf(name, state) ==
    CASE name = "count" -> state.count
      [] name = "sum"   -> state.sum
      [] name = "avg"   -> Average(state.sum, state.count)
      [] name = "min"   -> LowestOf(DOMAIN state.values)
      [] name = "max"   -> HighestOf(DOMAIN state.values)

IsEmpty(name, state) ==
    IF name \in {"min", "max"} THEN DOMAIN state.values = {} ELSE state.count = 0

GroupOutput(key, states) ==
    [id |-> GroupId(key),
     vals |-> key \o [f \in DOMAIN states |-> ValueOf(plan.functions[f][1], states[f])]]

States(gs, key) ==
    IF key \in DOMAIN gs THEN gs[key] ELSE [f \in DOMAIN plan.functions |-> NewState]

After(states, row, diff) ==
    [f \in DOMAIN states |-> Apply(states[f], Argument(plan.functions[f], row), diff)]

\* Mutant: the new row of a group silently replaces the old one.
NotDropped(g, key, row) == <<>>

Dropped(g, key, row) ==
    IF key \in g.announced \cap DOMAIN g.groups THEN <<Delete(row)>> ELSE <<>>

(* The old row of a group is deleted if it was announced, and the new one   *)
(* announced unless every state is empty.                                   *)
ProcessGroup(g, key, deltas) ==
    LET old == States(g.groups, key)
        new == FoldLeft(LAMBDA acc, d : After(acc, d.row, d.diff), old, deltas)
        over == \A f \in DOMAIN new : IsEmpty(plan.functions[f][1], new[f])
    IN  [groups    |-> IF over THEN Without(g.groups, key) ELSE With(g.groups, key, new),
         announced |-> IF over THEN g.announced \ {key} ELSE g.announced \cup {key},
         out       |-> g.out \o Dropped(g, key, GroupOutput(key, old))
                         \o (IF over THEN <<>> ELSE <<Insert(GroupOutput(key, new))>>)]

KeyOfDelta(d) == GroupKey(d.row, plan.groupBy)

Aggregated(g, deltas) ==
    LET keys == {KeyOfDelta(deltas[i]) : i \in DOMAIN deltas}
        Of(key) == SelectSeq(deltas, LAMBDA d : KeyOfDelta(d) = key)
        order == SetToSeq(keys)
        run[i \in 0..Len(order)] ==
            IF i = 0 THEN g ELSE ProcessGroup(run[i - 1], order[i], Of(order[i]))
    IN  run[Len(order)]

-----------------------------------------------------------------------------
(* The compiled program: sources, filter, join, aggregation.                *)

Passes(row) == plan.hidden = Null \/ row.vals[Width] # plan.hidden

Rows(table) ==
    LET ids == {n \in DOMAIN table : table[n] # Absent}
        Nth(n) == CHOOSE i \in ids : Cardinality({k \in ids : k < i}) = n - 1
    IN  [n \in 1..Cardinality(ids) |-> [id |-> Nth(n), vals |-> table[Nth(n)]]]

(* What a side of the join, or the aggregation, is given of a source.       *)
Kept(entries, places) ==
    LET kept[i \in 0..Len(entries)] ==
            IF i = 0 THEN <<>>
            ELSE IF i \in places THEN Append(kept[i - 1], entries[i]) ELSE kept[i - 1]
    IN  kept[Len(entries)]

LeftInput(rows) == Kept(rows, {i \in DOMAIN rows : Passes(rows[i])})
LeftDeltas(deltas) == Kept(deltas, {i \in DOMAIN deltas : Passes(deltas[i].row)})

(* The query as the executor runs it, for the first result of the view.     *)
Query(contents) ==
    LET left   == LeftInput(Rows(contents[plan.left]))
        joined == IF Joins THEN HashJoin(left, Rows(contents[plan.right]),
                                         plan.leftKey, plan.rightKey, plan.join, Width, Width)
                  ELSE left
    IN  IF Aggregates THEN HashAggregate(joined, plan.groupBy, plan.functions) ELSE joined

Visible(rows) ==
    [id \in {rows[i].id : i \in DOMAIN rows} |->
        LET i == CHOOSE i \in DOMAIN rows : rows[i].id = id IN rows[i].vals]

(* Bootstrap: every row of the sources is put into its side of the join and *)
(* the match counts are taken from the buckets; the joined rows make up the *)
(* groups.  The aggregation is the root of the program: it has no parent to *)
(* bootstrap, so it records no output row of these groups: none is          *)
(* announced.                                                               *)
Filled(s, rows) ==
    LET run[i \in 0..Len(rows)] ==
            IF i = 0 THEN EmptySide
            ELSE InsertRow(run[i - 1], rows[i], rows[i].vals[KeyColumn(s)], 0)
    IN  run[Len(rows)]

Counted(side, other) ==
    [side EXCEPT !.slots = [i \in DOMAIN @ |->
        [@[i] EXCEPT !.matches = Len(Bucket(other, side.slots[i].key))]]]

BootstrapSides(contents) ==
    LET left  == Filled("left", LeftInput(Rows(contents[plan.left])))
        right == Filled("right", Rows(contents[plan.right]))
    IN  IF Joins THEN [left |-> Counted(left, right), right |-> Counted(right, left)]
        ELSE [left |-> EmptySide, right |-> EmptySide]

BootstrapRows(contents, s) ==
    LET live(x) == SelectSeq(s[x].slots, LAMBDA slot : slot # NoSlot)
        Hits(slot) == Bucket(s.right, slot.key)
        OfLeft(slot) ==
            IF Hits(slot) # <<>>
            THEN [i \in DOMAIN Hits(slot) |-> Joined(slot.row, s.right.slots[Hits(slot)[i]].row)]
            ELSE IF KeepsLeft(plan.join) THEN <<PadRight(slot.row, Width)>> ELSE <<>>
        lone == IF KeepsRight(plan.join)
                THEN SelectSeq(live("right"), LAMBDA slot : slot.matches = 0) ELSE <<>>
    IN  IF Joins
        THEN FlattenSeq([i \in DOMAIN live("left") |-> OfLeft(live("left")[i])])
                 \o [i \in DOMAIN lone |-> PadLeft(lone[i].row, Width)]
        ELSE LeftInput(Rows(contents[plan.left]))

BootstrapGroups(rows) ==
    LET keys == IF Aggregates THEN {GroupKey(rows[i], plan.groupBy) : i \in DOMAIN rows}
                ELSE {}
        Of(key) == SelectSeq(rows, LAMBDA row : GroupKey(row, plan.groupBy) = key)
        fresh == [f \in DOMAIN plan.functions |-> NewState]
    IN  [key \in keys |-> FoldLeft(LAMBDA acc, row : After(acc, row, 1), fresh, Of(key))]

(* One batch of deltas of table t through the program: the left source      *)
(* feeds the join before the right one does.                                *)
Propagated(t, deltas) ==
    LET left  == IF t = plan.left THEN LeftDeltas(deltas) ELSE <<>>
        right == IF t = plan.right THEN deltas ELSE <<>>
        start == [left |-> sides.left, right |-> sides.right, out |-> <<>>]
        joined == IF Joins THEN Applied(Applied(start, "left", left), "right", right)
                  ELSE [start EXCEPT !.out = left]
        g == [groups |-> groups, announced |-> announced, out |-> <<>>]
    IN  [sides |-> [left |-> joined.left, right |-> joined.right],
         group |-> IF Aggregates THEN Aggregated(g, joined.out)
                   ELSE [g EXCEPT !.out = joined.out]]

(* VisibleResultStore.apply: an insertion replaces a row of the same id, a  *)
(* deletion of an id that is not there does nothing.                        *)
Shown(shown, delta) ==
    IF delta.diff = 1 THEN With(shown, delta.row.id, delta.row.vals)
    ELSE Without(shown, delta.row.id)

-----------------------------------------------------------------------------
(* The view is created over any contents of the tables; then batches of one *)
(* table arrive, sequences of writes that put other values, or none, under  *)
(* an id.  An id that was deleted may be inserted again: it stands for a    *)
(* new one.                                                                 *)

ContentsOf(t) == [RowIdsOf(t) -> ValuesOf(t) \cup {Absent}]
Contents == {c \in [Table -> UNION {ContentsOf(t) : t \in Table}] :
                \A t \in Table : c[t] \in ContentsOf(t)}

Init ==
    /\ plan \in Plans
    /\ tables \in Contents
    /\ sides = BootstrapSides(tables)
    /\ groups = BootstrapGroups(BootstrapRows(tables, sides))
    /\ announced = {}
    /\ silent = DOMAIN groups
    /\ visible = Visible(Query(tables))
    /\ emitted = <<>>

DeltasOf(id, old, new) ==
    (IF old = Absent THEN <<>> ELSE <<Delete([id |-> id, vals |-> old])>>)
        \o (IF new = Absent THEN <<>> ELSE <<Insert([id |-> id, vals |-> new])>>)

Write(acc, id, new) ==
    [content |-> [acc.content EXCEPT ![id] = new],
     deltas  |-> acc.deltas \o DeltasOf(id, acc.content[id], new),
     changes |-> acc.changes /\ acc.content[id] # new]

Written(content, writes) ==
    LET run[i \in 0..Len(writes)] ==
            IF i = 0 THEN [content |-> content, deltas |-> <<>>, changes |-> TRUE]
            ELSE Write(run[i - 1], writes[i][1], writes[i][2])
    IN  run[Len(writes)]

TableChange(t, writes) ==
    LET w == Written(tables[t], writes)
        p == Propagated(t, w.deltas)
    IN  /\ w.changes
        /\ tables' = [tables EXCEPT ![t] = w.content]
        /\ IF DependsOn(t)
           THEN /\ sides' = p.sides
                /\ groups' = p.group.groups
                /\ announced' = p.group.announced
                /\ emitted' = p.group.out
                /\ visible' = FoldLeft(Shown, visible, p.group.out)
                /\ silent' = silent \ p.group.announced
           ELSE UNCHANGED <<sides, groups, announced, visible, emitted, silent>>
        /\ UNCHANGED plan

Next == \E t \in Table : \E writes \in Batches(t) : TableChange(t, writes)

Spec == Init /\ [][Next]_vars

-----------------------------------------------------------------------------
(* Properties.                                                              *)

(* The state of the view has its shape: slots are rows or free, and every   *)
(* id the buckets and the row index name is the id of a slot; and the       *)
(* groups with an output row on record are those output since the           *)
(* bootstrap and not empty since (last_row_ids of GroupAggregateState).     *)
TypeOK ==
    /\ plan \in Plans
    /\ \A s \in Side :
          LET side == sides[s]
              used == {i \in DOMAIN side.slots : side.slots[i] # NoSlot}
          IN  /\ ToSet(side.free) = DOMAIN side.slots \ used
              /\ Cardinality(ToSet(side.free)) = Len(side.free)
              /\ DOMAIN side.slotOf = {side.slots[i].row.id : i \in used}
              /\ \A i \in used : side.slotOf[side.slots[i].row.id] = i
    /\ announced = DOMAIN groups \ silent

(* Every bucket holds exactly the slots of its key, each slot knows its own *)
(* place in it, and no empty bucket is kept: what makes the removal of a    *)
(* row find it at once, and the scan that repairs a bucket unnecessary.     *)
BucketsExact ==
    \A s \in Side :
        LET side == sides[s]
            used == {i \in DOMAIN side.slots : side.slots[i] # NoSlot}
        IN  /\ DOMAIN side.buckets = {side.slots[i].key : i \in used}
            /\ \A key \in DOMAIN side.buckets :
                  /\ ToSet(side.buckets[key]) = {i \in used : side.slots[i].key = key}
                  /\ \A p \in DOMAIN side.buckets[key] :
                        side.slots[side.buckets[key][p]].pos = p

(* match_count of a row is the number of rows of the other side with its    *)
(* key: the count that decides when an outer join shows a row padded with   *)
(* nulls, kept up to date by insertions, deletions and updates of both.     *)
MatchCountsExact ==
    \A s \in Side : \A i \in DOMAIN sides[s].slots :
        LET slot == sides[s].slots[i]
        IN  slot # NoSlot => slot.matches = Len(Bucket(sides[Other(s)], slot.key))

(* The rows of the groups in keys, and a result without them.               *)
GroupRows(keys) == {GroupId(key) : key \in keys}
Besides(shown, keys) == [id \in DOMAIN shown \ GroupRows(keys) |-> shown[id]]

(* The view shows what running its query on the tables would return: the    *)
(* promise of the incremental path, after every batch, for every query.     *)
(* Left out are exactly the rows of groups of the bootstrap that lost their *)
(* last row before anything was output for them: process_deltas finds no    *)
(* last_row_ids entry to delete, and the row stays (OldGroupDeleted).       *)
ViewIsQuery == Besides(visible, silent \ DOMAIN groups) = Visible(Query(tables))

(* The deltas handed to a subscriber can be replayed strictly: a row is     *)
(* inserted only if the subscriber does not have it and deleted only with   *)
(* the values it has, in the order of the batch (process_*_deltas).  The    *)
(* first output for a group of the bootstrap is an insertion alone, so a    *)
(* subscriber can count on this only for the other rows: those of the       *)
(* groups still silent are left out, before the batch and after it.         *)
Replayed(shown, deltas) ==
    FoldLeft(LAMBDA acc, d :
        [shown |-> Shown(acc.shown, d),
         exact |-> /\ acc.exact
                   /\ IF d.diff = 1 THEN d.row.id \notin DOMAIN acc.shown
                      ELSE d.row.id \in DOMAIN acc.shown /\ acc.shown[d.row.id] = d.row.vals],
        [shown |-> shown, exact |-> TRUE], deltas)

DeltasExact ==
    [][visible' # visible =>
          Replayed(Besides(visible, silent), emitted')
              = [shown |-> Besides(visible', silent'), exact |-> TRUE]]_vars

(* "Emit delete(old_aggregate_row) if group existed" (the comment on        *)
(* GroupAggregateState.process_deltas): a batch that changes a group the    *)
(* view has deletes the row it showed.  ViewGroups.cfg has TLC refute it.   *)
OldGroupDeleted ==
    [][\A key \in DOMAIN groups :
          States(groups', key) # groups[key] =>
              Delete(GroupOutput(key, groups[key])) \in ToSet(emitted')]_vars
=============================================================================
