------------------------------ MODULE MCViews -------------------------------
(* Two left rows with two keys and two values, two right rows; the queries  *)
(* cover every join type, a filter, a self-join and grouped aggregates.     *)
EXTENDS Views

(* The deltas of the last batch decide nothing about the next one.          *)
StateOfView == <<plan, tables, sides, groups, announced, visible, silent>>

MCTable == {"left", "right"}
MCRowIdsOf(t) == IF t = "left" THEN {1, 2} ELSE {3, 4}
MCValuesOf(t) == {<<1, 1>>, <<2, 1>>} \cup (IF t = "left" THEN {<<1, 2>>} ELSE {})

(* Every single write, every two writes to one row, and to both in order.   *)
MCBatches(t) ==
    LET values == ValuesOf(t) \cup {Absent}
    IN  {<<w>> : w \in RowIdsOf(t) \X values}
          \cup {p \in {<<<<i, v>>, <<j, w>>>> : i, j \in RowIdsOf(t), v, w \in values} :
                      p[1][1] <= p[2][1]}

Join(type, hidden) ==
    [left |-> "left", right |-> "right", leftKey |-> 1, rightKey |-> 1, join |-> type,
     hidden |-> hidden, groupBy |-> <<>>, functions |-> <<>>]
SelfJoin == [Join("left", 0) EXCEPT !.right = "left", !.rightKey = 2]
Totals == <<<<"count", 0>>, <<"sum", 2>>, <<"min", 2>>, <<"max", 2>>>>
Grouped(p) == [p EXCEPT !.groupBy = <<1>>, !.functions = Totals]

MCPlans == {Join("inner", 1), Join("left", 2), Join("full", 0), SelfJoin,
            Grouped(Join("right", 1)),
            Grouped([Join("none", 0) EXCEPT !.functions = <<>>])}

(* Null keys, for one inner join.                                           *)
NullValuesOf(t) == IF t = "left" THEN {0, 1} \X {1} ELSE {0, 1} \X {1}
NullPlans == {Join("inner", 0)}

(* Grouped aggregates alone.                                                *)
GroupPlans == {p \in MCPlans : p.functions # <<>>}
=============================================================================
