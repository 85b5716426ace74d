------------------------------ MODULE Executor ------------------------------
(* The operators of the query executor (query/src/executor): what each      *)
(* physical operator returns for its inputs.  A relation is a sequence of   *)
(* entries [id, vals]; values are naturals and Null is 0, which is before   *)
(* every other value, as Value::Null is in the order of cynos_core.         *)
EXTENDS Integers, Sequences, FiniteSets, SequencesExt, FiniteSetsExt

Null == 0

(* Row ids of derived rows are hashes of what they are derived from.        *)
JoinId(l, r)  == [left |-> l, right |-> r]
LeftNullId(l) == [left |-> l]
RightNullId(r) == [right |-> r]
GroupId(key)  == [group |-> key]

Nulls(width) == [i \in 1..width |-> Null]
Joined(l, r) == [id |-> JoinId(l.id, r.id), vals |-> l.vals \o r.vals]
PadRight(l, width) == [id |-> LeftNullId(l.id), vals |-> l.vals \o Nulls(width)]
PadLeft(r, width)  == [id |-> RightNullId(r.id), vals |-> Nulls(width) \o r.vals]

JoinTypes == {"inner", "left", "right", "full"}
KeepsLeft(type)  == type \in {"left", "full"}
KeepsRight(type) == type \in {"right", "full"}

-----------------------------------------------------------------------------
(* Joins.                                                                   *)

BuildsLeft(left, right, type) ==
    \/ type = "right"
    \/ type \in {"inner", "full"} /\ Len(left) <= Len(right)

(* One side is hashed by its key, the other probes it; unmatched rows of    *)
(* the side the join type keeps are padded, those of the build side last.   *)
HashJoin(left, right, lk, rk, type, lw, rw) ==
    LET swap  == ~BuildsLeft(left, right, type)
        build == IF swap THEN right ELSE left
        probe == IF swap THEN left ELSE right
        bk    == IF swap THEN rk ELSE lk
        pk    == IF swap THEN lk ELSE rk
        Pair(p, b)   == IF swap THEN Joined(p, b) ELSE Joined(b, p)
        Padded(e, isLeft) == IF isLeft THEN PadRight(e, rw) ELSE PadLeft(e, lw)
        Keeps(isLeft) == IF isLeft THEN KeepsLeft(type) ELSE KeepsRight(type)
        Hits(p) == IF p.vals[pk] = Null THEN <<>>
                   ELSE SelectSeq(build, LAMBDA b : b.vals[bk] = p.vals[pk])
        Probed(p) ==
            IF Hits(p) # <<>> THEN [i \in DOMAIN Hits(p) |-> Pair(p, Hits(p)[i])]
            ELSE IF Keeps(swap) THEN <<Padded(p, swap)>> ELSE <<>>
        Unmatched(b) ==
            \A i \in DOMAIN probe :
                probe[i].vals[pk] = Null \/ probe[i].vals[pk] # b.vals[bk]
        leftover == IF Keeps(~swap) THEN SelectSeq(build, Unmatched) ELSE <<>>
    IN  FlattenSeq([i \in DOMAIN probe |-> Probed(probe[i])])
            \o [i \in DOMAIN leftover |-> Padded(leftover[i], ~swap)]

(* on[i][j]: the i-th row of the left and the j-th of the right satisfy the *)
(* join condition, which is tested for every pair.                          *)
NestedLoopJoin(left, right, on, type, lw, rw) ==
    LET places == [j \in DOMAIN right |-> j]
        Hits(i) == SelectSeq(places, LAMBDA j : on[i][j])
        Row(i)  == IF Hits(i) # <<>>
                   THEN [k \in DOMAIN Hits(i) |-> Joined(left[i], right[Hits(i)[k]])]
                   ELSE IF KeepsLeft(type) THEN <<PadRight(left[i], rw)>> ELSE <<>>
        Unmatched(j) == \A i \in DOMAIN left : ~on[i][j]
        leftover == IF KeepsRight(type) THEN SelectSeq(places, Unmatched) ELSE <<>>
    IN  FlattenSeq([i \in DOMAIN left |-> Row(i)])
            \o [k \in DOMAIN leftover |-> PadLeft(right[leftover[k]], lw)]

CrossProduct(left, right) ==
    FlattenSeq([i \in DOMAIN left |->
                   [j \in DOMAIN right |-> Joined(left[i], right[j])]])

(* UNION keeps the first entry with given values, UNION ALL keeps all.      *)
Union(left, right, all) ==
    LET both == left \o right
    IN  IF all THEN both
        ELSE LET Fresh(i) == \A j \in 1..(i - 1) : both[j].vals # both[i].vals
                 kept == SelectSeq([i \in DOMAIN both |-> i], Fresh)
             IN  [i \in DOMAIN kept |-> both[kept[i]]]

-----------------------------------------------------------------------------
(* Aggregates.  A function is <<name, column>>; column 0 is COUNT( * ).     *)

SumOf(values) == FoldLeft(LAMBDA total, v : total + v, 0, values)
Average(total, count) == IF count = 0 THEN Null ELSE <<total, count>>
LowestOf(values)  == IF values = {} THEN Null ELSE CHOOSE v \in values : \A w \in values : v <= w
HighestOf(values) == IF values = {} THEN Null ELSE CHOOSE v \in values : \A w \in values : v >= w

Aggregate(function, members) ==
    LET column == [i \in DOMAIN members |-> members[i].vals[function[2]]]
        known  == SelectSeq(column, LAMBDA v : v # Null)
    IN  CASE function[1] = "count" /\ function[2] = 0 -> Len(members)
          [] function[1] = "count" /\ function[2] # 0 -> Len(known)
          [] function[1] = "sum" -> SumOf(known)
          [] function[1] = "avg" -> Average(SumOf(known), Len(known))
          [] function[1] = "min" -> LowestOf(ToSet(known))
          [] function[1] = "max" -> HighestOf(ToSet(known))

GroupRow(key, members, functions) ==
    [id |-> GroupId(key),
     vals |-> key \o [f \in DOMAIN functions |-> Aggregate(functions[f], members)]]

GroupKey(entry, groupBy) == [i \in DOMAIN groupBy |-> entry.vals[groupBy[i]]]

KeyBefore(a, b) ==
    \E i \in DOMAIN a : a[i] < b[i] /\ \A j \in 1..(i - 1) : a[j] = b[j]

(* One row for each group, in the order of the keys; without GROUP BY one   *)
(* row for the whole input, the empty one included.                         *)
HashAggregate(input, groupBy, functions) ==
    LET keys == {GroupKey(input[i], groupBy) : i \in DOMAIN input}
        Members(key) == SelectSeq(input, LAMBDA e : GroupKey(e, groupBy) = key)
        Before(key) == {k \in keys : KeyBefore(k, key)}
        NthKey(n) == CHOOSE key \in keys : Cardinality(Before(key)) = n - 1
    IN  IF groupBy = <<>> THEN <<GroupRow(<<>>, input, functions)>>
        ELSE [n \in 1..Cardinality(keys) |-> GroupRow(NthKey(n), Members(NthKey(n)), functions)]

-----------------------------------------------------------------------------
(* Order and windows.  orderBy is a sequence of <<column, "asc" | "desc">>. *)

SortsBefore(orderBy, a, b) ==
    \E i \in DOMAIN orderBy :
        /\ \A j \in 1..(i - 1) : a.vals[orderBy[j][1]] = b.vals[orderBy[j][1]]
        /\ LET x == a.vals[orderBy[i][1]]
               y == b.vals[orderBy[i][1]]
           IN  IF orderBy[i][2] = "asc" THEN x < y ELSE x > y

(* A stable sort: equal entries keep the order they came in.                *)
Sort(input, orderBy) ==
    LET Rank(i) == Cardinality({j \in DOMAIN input :
                       \/ SortsBefore(orderBy, input[j], input[i])
                       \/ j < i /\ ~SortsBefore(orderBy, input[i], input[j])}) + 1
    IN  [r \in DOMAIN input |-> input[CHOOSE i \in DOMAIN input : Rank(i) = r]]

Limit(input, limit, offset) ==
    SubSeq(input, offset + 1, Min({offset + limit, Len(input)}))
=============================================================================
