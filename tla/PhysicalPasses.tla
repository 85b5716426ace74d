--------------------------- MODULE PhysicalPasses ---------------------------
(***************************************************************************)
(* The choice of indexes, the lowering to a physical plan and the rewrites *)
(* of the physical plan (query/src/optimizer, planner/lowering.rs).  An    *)
(* operator that may find nothing gives a sequence: what it found, or <<>>. *)
(***************************************************************************)
EXTENDS LogicalPasses

-----------------------------------------------------------------------------
(* IndexSelection: a filter on a table becomes a lookup or a range scan,   *)
(* unless the table is one that a plan reads only by given row ids.        *)

Flipped == [eq |-> "eq", ne |-> "ne", lt |-> "gt", gt |-> "lt", le |-> "ge", ge |-> "le"]
RangeOps == {"lt", "le", "gt", "ge"}

\* A comparison of a column with a literal, turned so that the column is on the left.
AnalyzePredicate(e) ==
  IF e.op \notin Comparisons THEN <<>>
  ELSE CASE e.args[1].op = "col" /\ e.args[2].op = "lit" ->
              <<[col |-> e.args[1].at, op |-> e.op, val |-> e.args[2].val]>>
         [] e.args[1].op = "lit" /\ e.args[2].op = "col" ->
              <<[col |-> e.args[2].at, op |-> Flipped[e.op], val |-> e.args[1].val]>>
         [] OTHER -> <<>>

\* The column and the keys of an IN list, or of a chain of equalities by OR.
AnalyzeIn(e) ==
  LET eqs == Operands("or", e)
      info(i) == AnalyzePredicate(eqs[i])
      SameColumn == \A i \in DOMAIN eqs :
                      info(i) # <<>> /\ info(i)[1].op = "eq" /\ info(i)[1].col = info(1)[1].col
      Fresh(keys, k) == IF k \in ToSet(keys) THEN keys ELSE Append(keys, k)
  IN  IF e.op = "in"
        THEN IF e.args[1].op = "col" /\ \A i \in 2..Len(e.args) : e.args[i].op = "lit"
               THEN <<[col |-> e.args[1].at,
                       keys |-> [i \in 1..(Len(e.args) - 1) |-> e.args[i + 1].val]]>>
               ELSE <<>>
        ELSE IF Len(eqs) >= 2 /\ SameColumn
               THEN <<[col |-> info(1)[1].col,
                       keys |-> FoldLeft(Fresh, <<>>, [i \in DOMAIN eqs |-> info(i)[1].val])]>>
               ELSE <<>>

\* The range with one more bound, the tighter of two on the same side.
Tightened(range, info) ==
  LET out == info.op \in {"gt", "lt"}
  IN  IF info.op \in {"gt", "ge"}
        THEN CASE range.lo = None \/ info.val > range.lo ->
                    [range EXCEPT !.lo = info.val, !.loOut = out]
               [] range.lo # None /\ info.val = range.lo -> [range EXCEPT !.loOut = @ \/ out]
               [] OTHER -> range
        ELSE CASE range.hi = None \/ info.val < range.hi ->
                    [range EXCEPT !.hi = info.val, !.hiOut = out]
               [] range.hi # None /\ info.val = range.hi -> [range EXCEPT !.hiOut = @ \/ out]
               [] OTHER -> range

RangeScan(t, index, range) == IndexScan(t, index, range, None, None, FALSE)

\* The index that answers a comparison by itself.
IndexFor(t, e) ==
  LET info == AnalyzePredicate(e)
      index == IF info = <<>> THEN <<>> ELSE FindIndex(t, info[1].col)
  IN  SelectSeq(index, LAMBDA x : info[1].op = "eq" \/ (info[1].op \in RangeOps /\ x.ordered))

\* try_use_btree_with_and: one equality, or all the bounds on one column; the
\* other conjuncts stay in a filter, those that no index answers first.
IndexForAll(t, e) ==
  LET es == Operands("and", e)
      Indexable(x) == IndexFor(t, x) # <<>>
      info(x) == AnalyzePredicate(x)[1]
      points == SelectSeq(es, LAMBDA x : Indexable(x) /\ info(x).op = "eq")
      ranges == SelectSeq(es, LAMBDA x : Indexable(x) /\ info(x).op # "eq")
      On(col) == SelectSeq(ranges, LAMBDA x : info(x).col = col)
      Merged(col) == FoldLeft(LAMBDA r, x : Tightened(r, info(x)), AllKeys, On(col))
      cols == {info(ranges[i]).col : i \in DOMAIN ranges}
      Kind(col) == CASE Merged(col).lo # None /\ Merged(col).hi # None -> 1
                     [] Merged(col).lo # None /\ Merged(col).hi = None -> 2
                     [] OTHER -> 3
      best == CHOOSE c \in cols : \A d \in cols : Kind(c) <= Kind(d)
      Besides(used) == SelectSeq(es, LAMBDA x : ~Indexable(x))
                         \o SelectSeq(es, LAMBDA x : Indexable(x) /\ x \notin used)
  IN  CASE e.op # "and" -> <<>>
        [] e.op = "and" /\ points # <<>> ->
             <<WithFilter(IndexGet(t, IndexFor(t, points[1])[1], info(points[1]).val, None),
                          Besides({points[1]}))>>
        [] e.op = "and" /\ points = <<>> /\ ranges # <<>> ->
             <<WithFilter(RangeScan(t, IndexFor(t, On(best)[1])[1], Merged(best)),
                          Besides(ToSet(On(best))))>>
        [] OTHER -> <<>>

IndexPlan(t, e, restricted) ==
  LET in == AnalyzeIn(e)
      inIndex == IF in = <<>> THEN <<>> ELSE FindIndex(t, in[1].col)
      IsBetween == e.op = "between" /\ e.args[1].op = "col" /\ e.args[2].op = "lit" /\ e.args[3].op = "lit"
      between == IF IsBetween THEN SelectSeq(FindIndex(t, e.args[1].at), LAMBDA x : x.ordered) ELSE <<>>
      all == IndexForAll(t, e)
      index == IndexFor(t, e)
  IN  CASE t \in restricted -> <<>>
        [] t \notin restricted /\ inIndex # <<>> -> <<IndexInGet(t, inIndex[1], in[1].keys)>>
        [] t \notin restricted /\ inIndex = <<>> /\ between # <<>> ->
             <<RangeScan(t, between[1], [lo |-> e.args[2].val, hi |-> e.args[3].val,
                                         loOut |-> FALSE, hiOut |-> FALSE])>>
        [] t \notin restricted /\ inIndex = <<>> /\ between = <<>> /\ all # <<>> -> all
        [] t \notin restricted /\ inIndex = <<>> /\ between = <<>> /\ all = <<>> /\ index # <<>> ->
             LET info == AnalyzePredicate(e)[1]
             IN  IF info.op = "eq" THEN <<IndexGet(t, index[1], info.val, None)>>
                 ELSE <<RangeScan(t, index[1], Tightened(AllKeys, info))>>
        [] OTHER -> <<>>

IndexSelection(plan, restricted) ==
  LET Found(p) == IF p.op = "filter" /\ p.kids[1].op = "scan"
                    THEN IndexPlan(p.kids[1].table, p.pred, restricted) ELSE <<>>
      Rule(p) == IF Found(p) = <<>> THEN p ELSE Found(p)[1]
  IN  Everywhere(plan, Rule, Never)

-----------------------------------------------------------------------------
\* logical_to_physical: an equality of two columns is joined by hashing.
Lowered(plan) ==
  LET Rule(p) == IF p.op = "join" THEN [p EXCEPT !.op = IF IsEquiJoin(p.on) THEN "hashJoin"
                                                         ELSE "nestedLoop"] ELSE p
  IN  Everywhere(plan, Rule, Never)

-----------------------------------------------------------------------------
(* TopNPushdown: a limit over a sort, or over the rows of an index.        *)
TopNPushdown(plan) ==
  LET Rule(p) ==
        LET kid == p.kids[1]
            enough == p.limit + p.offset
        IN  CASE p.op # "limit" -> p
              [] p.op = "limit" /\ kid.op = "sort" -> TopN(kid.kids[1], kid.by, p.limit, p.offset)
              [] p.op = "limit" /\ kid.op = "indexGet" ->
                   IF p.offset = 0 THEN [kid EXCEPT !.limit = p.limit]
                   ELSE LimitTo([kid EXCEPT !.limit = enough], p.limit, p.offset)
              [] p.op = "limit" /\ kid.op = "indexScan" ->
                   IF kid.limit = None /\ kid.offset = None
                     THEN [kid EXCEPT !.limit = enough, !.offset = p.offset] ELSE p
              [] OTHER -> p
  IN  Everywhere(plan, Rule, Never)

-----------------------------------------------------------------------------
(* OrderByIndexPass: a sort is dropped when the rows come in its order, or *)
(* come in it once a table is read through an index.                       *)

\* The order that the rows of a physical plan are known to have.
RECURSIVE Ordering(_)
Ordering(p) ==
  CASE p.op = "indexScan" ->
         IF p.index.ordered
           THEN <<<<Col(p.table, p.index.col), IF p.reverse THEN "desc" ELSE "asc">>>> ELSE <<>>
    [] p.op \in {"filter", "limit"} -> Ordering(p.kids[1])
    [] p.op = "project" -> IF \A i \in DOMAIN Ordering(p.kids[1]) :
                                Ordering(p.kids[1])[i][1] \in ToSet(p.cols)
                             THEN Ordering(p.kids[1]) ELSE <<>>
    [] p.op \in {"sort", "topN"} -> p.by
    [] OTHER -> <<>>

Satisfies(p, by) == Len(by) <= Len(Ordering(p)) /\ SubSeq(Ordering(p), 1, Len(by)) = by

\* Whether an index on col gives the order by, forwards or backwards.
GivesOrder(col, by) == Len(by) = 1 /\ by[1][1].at = col
Reversed(by) == by[1][2] = "desc"

\* window: the limit and offset that the scan is to apply, or <<>>.
RECURSIVE RewriteForOrder(_, _, _)
RewriteForOrder(p, by, window) ==
  LET limit == IF window = <<>> THEN None ELSE window[1]
      offset == IF window = <<>> THEN None ELSE window[2]
      index == IF Len(by) = 1 THEN FindOrderedIndex(p.table, by[1][1].at) ELSE <<>>
      inner(w) == RewriteForOrder(p.kids[1], by, w)
      Over(kid) == [p EXCEPT !.kids = <<kid>>]
  IN  CASE p.op = "scan" ->
             IF index = <<>> THEN <<>>
             ELSE <<IndexScan(p.table, index[1], AllKeys, limit, offset, Reversed(by))>>
        [] p.op = "indexScan" ->
             IF \/ ~p.index.ordered \/ ~GivesOrder(p.index.col, by)
                \/ window # <<>> /\ (p.limit # None \/ p.offset > 0)
               THEN <<>>
             ELSE IF window = <<>> THEN <<[p EXCEPT !.reverse = Reversed(by)]>>
             ELSE <<[p EXCEPT !.reverse = Reversed(by), !.limit = limit, !.offset = offset]>>
        [] p.op = "project" -> IF inner(window) = <<>> THEN <<>> ELSE <<Over(inner(window)[1])>>
        [] p.op = "filter" -> IF inner(<<>>) = <<>> THEN <<>> ELSE <<Over(inner(<<>>)[1])>>
        [] OTHER -> <<>>

RECURSIVE TakesLimit(_)
TakesLimit(p) == p.op = "indexScan" \/ (p.op = "project" /\ TakesLimit(p.kids[1]))

OrderByIndex(plan) ==
  LET SortRule(p) ==
        LET found == RewriteForOrder(p.kids[1], p.by, <<>>)
        IN  IF Satisfies(p.kids[1], p.by) THEN p.kids[1]
            ELSE IF found # <<>> /\ Satisfies(found[1], p.by) THEN found[1] ELSE p
      TopNRule(p) ==
        LET found == RewriteForOrder(p.kids[1], p.by, <<p.limit, p.offset>>)
        IN  IF Satisfies(p.kids[1], p.by) THEN LimitTo(p.kids[1], p.limit, p.offset)
            ELSE IF found # <<>> /\ Satisfies(found[1], p.by)
              THEN IF TakesLimit(found[1]) THEN found[1]
                   ELSE LimitTo(found[1], p.limit, p.offset)
            ELSE p
      Rule(p) == CASE p.op = "sort" -> SortRule(p) [] p.op = "topN" -> TopNRule(p) [] OTHER -> p
  IN  Everywhere(plan, Rule, Never)

-----------------------------------------------------------------------------
(* IndexJoinPass: a join looks its keys up in an index of one of its       *)
(* sides.  What the costs allow is not modelled: cheap is the set of sides *)
(* that may be looked up.                                                  *)

IndexedSide(p, side) ==
  LET scan == p.kids[side]
      cs == {c \in {p.on.args[1], p.on.args[2]} :
               c.table \in TablesOf(scan) /\ c.table \notin TablesOf(p.kids[3 - side])}
  IN  IF scan.op # "scan" \/ Cardinality(cs) # 1 THEN <<>>
      ELSE FindIndex(scan.table, (CHOOSE c \in cs : TRUE).at)

IndexJoinPass(plan, cheap) ==
  LET Probes(p, side) == /\ IsEquiJoin(p.on) /\ side \in cheap /\ IndexedSide(p, side) # <<>>
                         /\ p.type \in {"inner", IF side = 2 THEN "left" ELSE "right"}
      Via(p, side) == IndexJoin(p.kids[3 - side], p.kids[side].table, IndexedSide(p, side)[1],
                                p.on, p.type, side = 2, p.tables)
      Rule(p) == CASE p.op # "hashJoin" -> p
                   [] p.op = "hashJoin" /\ Probes(p, 2) -> Via(p, 2)
                   [] p.op = "hashJoin" /\ ~Probes(p, 2) /\ Probes(p, 1) -> Via(p, 1)
                   [] OTHER -> p
  IN  Everywhere(plan, Rule, Never)

-----------------------------------------------------------------------------
\* LimitSkipByIndexPass: a limit moves into a scan without one; a table is then
\* read through its primary index.
RECURSIVE LimitedScan(_, _, _)
LimitedScan(p, limit, offset) ==
  LET inner == LimitedScan(p.kids[1], limit, offset)
      primary == FindPrimaryIndex(p.table)
  IN  CASE p.op = "indexScan" ->
             IF p.limit # None \/ p.offset > 0 THEN <<>>
             ELSE <<[p EXCEPT !.limit = limit, !.offset = offset]>>
        [] p.op = "project" -> IF inner = <<>> THEN <<>> ELSE <<[p EXCEPT !.kids = inner]>>
        [] p.op = "scan" -> IF primary = <<>> THEN <<>>
                            ELSE <<IndexScan(p.table, primary[1], AllKeys, limit, offset, FALSE)>>
        [] OTHER -> <<>>

LimitSkipByIndex(plan) ==
  LET Found(p) == LimitedScan(p.kids[1], p.limit, p.offset)
      Rule(p) == IF p.op = "limit" /\ Found(p) # <<>> THEN Found(p)[1] ELSE p
  IN  Everywhere(plan, Rule, Never)
=============================================================================
