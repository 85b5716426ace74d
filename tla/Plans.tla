------------------------------- MODULE Plans --------------------------------
(***************************************************************************)
(* Query plans, logical and physical, and the rows they give.  A plan is a *)
(* tree of records with their inputs in kids; an expression is a tree of   *)
(* records with their operands in args.  A column is named by its table    *)
(* and its place there, an index by the column it is on.                   *)
(***************************************************************************)
EXTENDS Executor

CONSTANTS WidthOf,      \* the number of columns of a table
          IndexesOf     \* the indexes of a table: <<[col, unique, ordered], ...>>

None == -1              \* no limit, no bound, no offset, no anchor

-----------------------------------------------------------------------------
(* Expressions (ast/expr.rs) and their values (eval_accessor_expr).        *)

Yes == 2
No == 1
Truth(b) == IF b THEN Yes ELSE No

Exp(op, args) == [op |-> op, args |-> args]
Col(t, i) == [op |-> "col", args |-> <<>>, table |-> t, at |-> i]
Lit(v) == [op |-> "lit", args |-> <<>>, val |-> v]

Comparisons == {"eq", "ne", "lt", "le", "gt", "ge"}
IsBinary(e) == e.op \in Comparisons \cup {"and", "or"}
IsEquiJoin(e) == e.op = "eq" /\ e.args[1].op = "col" /\ e.args[2].op = "col"

RECURSIVE TablesIn(_)
TablesIn(e) ==
  IF e.op = "col" THEN {e.table} ELSE UNION {TablesIn(e.args[i]) : i \in DOMAIN e.args}

\* The operands of a chain of one operator, "and" or "or", from left to right.
RECURSIVE Operands(_, _)
Operands(op, e) ==
  IF e.op = op THEN Operands(op, e.args[1]) \o Operands(op, e.args[2]) ELSE <<e>>

AllOf(es) == FoldLeft(LAMBDA e, f : Exp("and", <<e, f>>), Head(es), Tail(es))

\* Where column at of table t is among the columns of the tables of layout.
Place(layout, t, at) ==
  LET nth == CHOOSE i \in DOMAIN layout : layout[i] = t
  IN  at + SumOf([i \in 1..(nth - 1) |-> WidthOf[layout[i]]])

Compare(op, x, y) ==
  CASE op = "eq" -> x = y [] op = "ne" -> x # y [] op = "lt" -> x < y
    [] op = "le" -> x <= y [] op = "gt" -> x > y [] op = "ge" -> x >= y

\* Comparisons pass NULL on; IN and BETWEEN take it as the least value.
RECURSIVE ValueOf(_, _, _)
ValueOf(e, layout, vals) ==
  LET v(i) == ValueOf(e.args[i], layout, vals)
      Listed == \E i \in 2..Len(e.args) : v(i) = v(1)
      Within == v(2) <= v(1) /\ v(1) <= v(3)
  IN  CASE e.op = "col" -> vals[Place(layout, e.table, e.at)]
        [] e.op = "lit" -> e.val
        [] e.op \in Comparisons ->
             IF Null \in {v(1), v(2)} THEN Null ELSE Truth(Compare(e.op, v(1), v(2)))
        [] e.op = "and" -> IF No \in {v(1), v(2)} THEN No
                           ELSE IF Null \in {v(1), v(2)} THEN Null ELSE Yes
        [] e.op = "or" -> IF Yes \in {v(1), v(2)} THEN Yes
                          ELSE IF Null \in {v(1), v(2)} THEN Null ELSE No
        [] e.op = "not" -> IF v(1) = Null THEN Null ELSE Truth(v(1) # Yes)
        [] e.op = "isNull" -> Truth(v(1) = Null)
        [] e.op = "isNotNull" -> Truth(v(1) # Null)
        [] e.op = "in" -> Truth(Listed)
        [] e.op = "notIn" -> Truth(~Listed)
        [] e.op = "between" -> Truth(Within)
        [] e.op = "notBetween" -> Truth(~Within)

-----------------------------------------------------------------------------
(* Plans (planner/logical.rs, planner/physical.rs).                        *)

Leaf(op, t) == [op |-> op, kids |-> <<>>, table |-> t]
Scan(t) == Leaf("scan", t)
IndexScan(t, index, range, limit, offset, reverse) ==
  [op |-> "indexScan", kids |-> <<>>, table |-> t, index |-> index, range |-> range,
   limit |-> limit, offset |-> offset, reverse |-> reverse]
IndexGet(t, index, key, limit) ==
  [op |-> "indexGet", kids |-> <<>>, table |-> t, index |-> index, key |-> key, limit |-> limit]
IndexInGet(t, index, keys) ==
  [op |-> "indexIn", kids |-> <<>>, table |-> t, index |-> index, keys |-> keys]
Filter(p, pred) == [op |-> "filter", kids |-> <<p>>, pred |-> pred]
Project(p, cols) == [op |-> "project", kids |-> <<p>>, cols |-> cols]
SortBy(p, by) == [op |-> "sort", kids |-> <<p>>, by |-> by]
LimitTo(p, limit, offset) == [op |-> "limit", kids |-> <<p>>, limit |-> limit, offset |-> offset]
TopN(p, by, limit, offset) ==
  [op |-> "topN", kids |-> <<p>>, by |-> by, limit |-> limit, offset |-> offset]
Cross(l, r) == [op |-> "cross", kids |-> <<l, r>>]
UnionOf(l, r, all) == [op |-> "union", kids |-> <<l, r>>, all |-> all]
JoinAs(op, l, r, on, type, tables) ==
  [op |-> op, kids |-> <<l, r>>, on |-> on, type |-> type, tables |-> tables]
IndexJoin(outer, table, index, on, type, outerIsLeft, tables) ==
  [op |-> "indexJoin", kids |-> <<outer>>, table |-> table, index |-> index, on |-> on,
   type |-> type, outerIsLeft |-> outerIsLeft, tables |-> tables]

JoinOps == {"join", "hashJoin", "nestedLoop", "indexJoin"}
LeafOps == {"scan", "indexScan", "indexGet", "indexIn"}

RECURSIVE OutputTables(_)
OutputTables(p) ==
  CASE p.op \in LeafOps -> <<p.table>>
    [] p.op \in JoinOps -> p.tables
    [] p.op \in {"cross", "union"} -> OutputTables(p.kids[1]) \o OutputTables(p.kids[2])
    [] OTHER -> OutputTables(p.kids[1])

Join(l, r, on, type) == JoinAs("join", l, r, on, type, OutputTables(l) \o OutputTables(r))

\* The tables that are read anywhere under p (collect_tables, extract_tables).
RECURSIVE TablesOf(_)
TablesOf(p) ==
  (IF p.op \in LeafOps \cup {"indexJoin"} THEN {p.table} ELSE {})
    \cup UNION {TablesOf(p.kids[i]) : i \in DOMAIN p.kids}

\* p with Rule applied to every node, inputs first; nodes in Stop stay as they are.
Everywhere(p, Rule(_), Stop) ==
  LET RECURSIVE Go(_)
      Go(q) ==
        IF q.op \in Stop THEN q
        ELSE Rule(CASE Len(q.kids) = 0 -> q
                    [] Len(q.kids) = 1 -> [q EXCEPT !.kids = <<Go(q.kids[1])>>]
                    [] OTHER -> [q EXCEPT !.kids = <<Go(q.kids[1]), Go(q.kids[2])>>])
  IN  Go(p)

-----------------------------------------------------------------------------
(* Indexes (context.rs).  A lookup gives a sequence: the index, or none.   *)

AllKeys == [lo |-> None, hi |-> None, loOut |-> FALSE, hiOut |-> FALSE]

InKeyRange(range, key) ==
  /\ range.lo = None \/ (IF range.loOut THEN key > range.lo ELSE key >= range.lo)
  /\ range.hi = None \/ (IF range.hiOut THEN key < range.hi ELSE key <= range.hi)

First(s) == IF s = <<>> THEN s ELSE <<Head(s)>>
FindIndex(t, col) == First(SelectSeq(IndexesOf[t], LAMBDA x : x.col = col))
FindOrderedIndex(t, col) == First(SelectSeq(IndexesOf[t], LAMBDA x : x.ordered /\ x.col = col))
FindPrimaryIndex(t) == First(SelectSeq(IndexesOf[t], LAMBDA x : x.unique /\ x.ordered))

-----------------------------------------------------------------------------
(* The rows of a plan over the contents of the tables (executor/runner.rs). *)

Window(rows, limit, offset) ==
  LET from == IF offset = None THEN 0 ELSE offset
  IN  Limit(rows, IF limit = None THEN Len(rows) ELSE limit, from)

\* An index keeps the rows without a value too, under the key NULL.
IndexRows(rows, index, range, reverse) ==
  Sort(SelectSeq(rows, LAMBDA e : InKeyRange(range, e.vals[index.col])),
       <<<<index.col, IF reverse THEN "desc" ELSE "asc">>>>)

PointRows(rows, index, key) == SelectSeq(rows, LAMBDA e : e.vals[index.col] = key)

\* The rows of a lookup for each of the keys, a row that was seen before left out.
InRows(rows, index, keys) ==
  FoldLeft(LAMBDA found, key :
             found \o SelectSeq(PointRows(rows, index, key),
                                LAMBDA e : e.id \notin {found[i].id : i \in DOMAIN found}),
           <<>>, keys)

\* The columns of the tables of layout, in the order of the tables of target.
Arranged(entries, layout, target) ==
  LET Columns(t) == [i \in 1..WidthOf[t] |-> Place(layout, t, i)]
      places == FlattenSeq([i \in DOMAIN target |-> Columns(target[i])])
  IN  [i \in DOMAIN entries |->
         [entries[i] EXCEPT !.vals = [c \in DOMAIN places |-> entries[i].vals[places[c]]]]]

WidthOfTables(layout) == SumOf([i \in DOMAIN layout |-> WidthOf[layout[i]]])

\* The column of an equality that belongs to the tables of layout.
KeyIn(on, layout) ==
  LET c == IF on.args[1].table \in ToSet(layout) THEN on.args[1] ELSE on.args[2]
  IN  Place(layout, c.table, c.at)

ByPlace(by, layout) == [i \in DOMAIN by |-> <<Place(layout, by[i][1].table, by[i][1].at), by[i][2]>>]

JoinRows(p, left, right, ll, rl) ==
  LET lw == WidthOfTables(ll)
      rw == WidthOfTables(rl)
      on == [i \in DOMAIN left |-> [j \in DOMAIN right |->
               ValueOf(p.on, ll \o rl, Joined(left[i], right[j]).vals) = Yes]]
  IN  Arranged(IF p.op = "hashJoin"
                 THEN HashJoin(left, right, KeyIn(p.on, ll), KeyIn(p.on, rl), p.type, lw, rw)
                 ELSE NestedLoopJoin(left, right, on, p.type, lw, rw),
               ll \o rl, p.tables)

\* Each row of the outer side looks its key up in the index of the inner table.
IndexJoinRows(p, outer, inner, ol) ==
  LET il == <<p.table>>
      ow == WidthOfTables(ol)
      key == KeyIn(p.on, ol)
      Pair(o, i) == IF p.outerIsLeft THEN Joined(o, i) ELSE Joined(i, o)
      Alone(o) == IF p.outerIsLeft THEN PadRight(o, WidthOf[p.table]) ELSE PadLeft(o, WidthOf[p.table])
      Hits(o) == IF o.vals[key] = Null THEN <<>> ELSE PointRows(inner, p.index, o.vals[key])
      Keeps == IF p.outerIsLeft THEN KeepsLeft(p.type) ELSE KeepsRight(p.type)
      Probed(o) == IF Hits(o) # <<>> THEN [i \in DOMAIN Hits(o) |-> Pair(o, Hits(o)[i])]
                   ELSE IF Keeps THEN <<Alone(o)>> ELSE <<>>
  IN  Arranged(FlattenSeq([i \in DOMAIN outer |-> Probed(outer[i])]),
               IF p.outerIsLeft THEN ol \o il ELSE il \o ol, p.tables)

RECURSIVE RowsOf(_, _)
RowsOf(p, T) ==
  LET rows(i) == RowsOf(p.kids[i], T)
      layout(i) == OutputTables(p.kids[i])
      Sorted == Sort(rows(1), ByPlace(p.by, layout(1)))
      Projected(e) ==
        [e EXCEPT !.vals = [c \in DOMAIN p.cols |-> ValueOf(p.cols[c], layout(1), e.vals)]]
  IN  CASE p.op = "scan" -> T[p.table]
        [] p.op = "indexScan" -> Window(IndexRows(T[p.table], p.index, p.range, p.reverse),
                                        p.limit, p.offset)
        [] p.op = "indexGet" -> Window(PointRows(T[p.table], p.index, p.key), p.limit, None)
        [] p.op = "indexIn" -> InRows(T[p.table], p.index, p.keys)
        [] p.op = "filter" ->
             SelectSeq(rows(1), LAMBDA e : ValueOf(p.pred, layout(1), e.vals) = Yes)
        [] p.op = "project" -> [i \in DOMAIN rows(1) |-> Projected(rows(1)[i])]
        [] p.op = "sort" -> Sorted
        [] p.op = "limit" -> Window(rows(1), p.limit, p.offset)
        [] p.op = "topN" -> Window(Sorted, p.limit, p.offset)
        [] p.op = "cross" -> CrossProduct(rows(1), rows(2))
        [] p.op = "union" -> Union(rows(1), rows(2), p.all)
        [] p.op = "indexJoin" -> IndexJoinRows(p, rows(1), T[p.table], layout(1))
        [] p.op \in {"join", "hashJoin", "nestedLoop"} ->
             JoinRows(p, rows(1), rows(2), layout(1), layout(2))
=============================================================================
