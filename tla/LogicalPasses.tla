--------------------------- MODULE LogicalPasses ----------------------------
(***************************************************************************)
(* The rewrites of a logical plan (query/src/optimizer): one operator for  *)
(* each pass, from a plan to a plan.                                       *)
(***************************************************************************)
EXTENDS Plans

Never == {}

-----------------------------------------------------------------------------
(* NotSimplification: a negation is pushed to the comparisons under it.    *)
(* The pass does not look into a union.                                    *)

Opposite ==
  [eq |-> "ne", ne |-> "eq", lt |-> "ge", ge |-> "lt", le |-> "gt", gt |-> "le",
   in |-> "notIn", notIn |-> "in", between |-> "notBetween", notBetween |-> "between",
   isNull |-> "isNotNull", isNotNull |-> "isNull"]

RECURSIVE Negated(_)
Negated(e) ==
  CASE e.op = "not" -> e.args[1]
    [] e.op = "and" -> Exp("or", <<Negated(e.args[1]), Negated(e.args[2])>>)
    [] e.op = "or" -> Exp("and", <<Negated(e.args[1]), Negated(e.args[2])>>)
    [] e.op \in DOMAIN Opposite -> Exp(Opposite[e.op], e.args)
    [] OTHER -> Exp("not", <<e>>)

RECURSIVE Simplified(_)
Simplified(e) ==
  IF e.op = "not" THEN Negated(Simplified(e.args[1]))
  ELSE [e EXCEPT !.args = FoldLeft(LAMBDA done, x : Append(done, Simplified(x)), <<>>, e.args)]

NotSimplification(plan) ==
  LET Rule(p) == CASE p.op = "filter" -> [p EXCEPT !.pred = Simplified(@)]
                   [] p.op = "join" -> [p EXCEPT !.on = Simplified(@)]
                   [] OTHER -> p
  IN  Everywhere(plan, Rule, {"union"})

-----------------------------------------------------------------------------
\* AndPredicatePass: a filter for each conjunct, the first one outermost.
AndPredicatePass(plan) ==
  LET Rule(p) == IF p.op # "filter" THEN p
                 ELSE FoldRight(LAMBDA e, below : Filter(below, e),
                                Operands("and", p.pred), p.kids[1])
  IN  Everywhere(plan, Rule, Never)

-----------------------------------------------------------------------------
(* CrossProductPass: nested products become a tree of adjacent pairs.      *)

RECURSIVE Factors(_)
Factors(p) == IF p.op = "cross" THEN Factors(p.kids[1]) \o Factors(p.kids[2]) ELSE <<p>>

RECURSIVE Paired(_)
Paired(ps) ==
  IF Len(ps) = 1 THEN ps[1]
  ELSE Paired([i \in 1..((Len(ps) + 1) \div 2) |->
                 IF 2 * i <= Len(ps) THEN Cross(ps[2 * i - 1], ps[2 * i]) ELSE ps[2 * i - 1]])

CrossProductPass(plan) ==
  LET Rule(p) == IF p.op = "cross" THEN Paired(Factors(p)) ELSE p
  IN  Everywhere(plan, Rule, Never)

-----------------------------------------------------------------------------
\* ImplicitJoinsPass: a filter on both sides of a product makes it a join.
ImplicitJoinsPass(plan) ==
  LET Spans(e, p) == \A i \in 1..2 : TablesIn(e) \cap TablesOf(p.kids[i]) # {}
      Rule(p) == IF p.op = "filter" /\ p.kids[1].op = "cross" /\ Spans(p.pred, p.kids[1])
                   THEN Join(p.kids[1].kids[1], p.kids[1].kids[2], p.pred, "inner")
                   ELSE p
  IN  Everywhere(plan, Rule, Never)

-----------------------------------------------------------------------------
(* OuterJoinSimplification: a filter that drops the padded rows of an      *)
(* outer join makes it a narrower one.                                     *)

RECURSIVE RejectsNull(_, _)
RejectsNull(e, tables) ==
  LET On(i) == TablesIn(e.args[i]) \cap tables # {}
      IsLit(i) == e.args[i].op = "lit"
  IN  CASE e.op \in {"isNotNull", "in", "between"} -> On(1)
        [] e.op \in Comparisons -> (On(1) /\ (IsLit(2) \/ On(2))) \/ (On(2) /\ IsLit(1))
        [] e.op = "and" -> \E i \in 1..2 : RejectsNull(e.args[i], tables)
        [] e.op = "or" -> \A i \in 1..2 : RejectsNull(e.args[i], tables)
        [] e.op = "not" -> /\ e.args[1].op = "isNull"
                           /\ TablesIn(e.args[1]) \cap tables # {}
        [] OTHER -> FALSE

Narrowed(e, join) ==
  LET left == RejectsNull(e, TablesOf(join.kids[1]))
      right == RejectsNull(e, TablesOf(join.kids[2]))
  IN  CASE join.type = "left" /\ right -> "inner"
        [] join.type = "right" /\ left -> "inner"
        [] join.type = "full" /\ left /\ right -> "inner"
        [] join.type = "full" /\ ~left /\ right -> "left"
        [] join.type = "full" /\ left /\ ~right -> "right"
        [] OTHER -> join.type

OuterJoinSimplification(plan) ==
  LET Rule(p) == IF p.op = "filter" /\ p.kids[1].op = "join"
                   THEN Filter([p.kids[1] EXCEPT !.type = Narrowed(p.pred, p.kids[1])], p.pred)
                   ELSE p
  IN  Everywhere(plan, Rule, Never)

-----------------------------------------------------------------------------
(* PredicatePushdown: a filter moves below a sort, joins the filter under  *)
(* it, and a conjunct about one side of a join moves to that side unless   *)
(* the join pads that side.                                                *)

WithFilter(p, es) == IF es = <<>> THEN p ELSE Filter(p, AllOf(es))

RECURSIVE PushedFilter(_, _)
PushedFilter(p, e) ==
  LET es == Operands("and", e)
      About(x, i) == TablesIn(x) \cap TablesOf(p.kids[i]) # {}
      ToLeft(x) == About(x, 1) /\ ~About(x, 2) /\ p.type \in {"inner", "left"}
      ToRight(x) == About(x, 2) /\ ~About(x, 1) /\ p.type \in {"inner", "right"}
      Pushed(i, xs) == IF xs = <<>> THEN p.kids[i] ELSE PushedFilter(p.kids[i], AllOf(xs))
  IN  CASE p.op = "sort" -> SortBy(PushedFilter(p.kids[1], e), p.by)
        [] p.op = "filter" -> Filter(p.kids[1], Exp("and", <<p.pred, e>>))
        [] p.op = "join" ->
             WithFilter([p EXCEPT !.kids = <<Pushed(1, SelectSeq(es, ToLeft)),
                                             Pushed(2, SelectSeq(es, ToRight))>>],
                        SelectSeq(es, LAMBDA x : ~ToLeft(x) /\ ~ToRight(x)))
        [] OTHER -> Filter(p, e)

PredicatePushdown(plan) ==
  LET Rule(p) == IF p.op = "filter" THEN PushedFilter(p.kids[1], p.pred) ELSE p
  IN  Everywhere(plan, Rule, Never)

-----------------------------------------------------------------------------
(* JoinReorder: the inputs of nested inner joins are joined again, the     *)
(* smallest first, or the anchor of a root subset, then the smallest one   *)
(* that a condition connects.  counts is what the statistics say of the    *)
(* size of the tables.                                                     *)

\* The tables that the reordering finds in an operand of a condition.
RECURSIVE OperandTables(_)
OperandTables(e) ==
  CASE e.op = "col" -> {e.table}
    [] IsBinary(e) \/ e.op \in {"not", "isNull", "isNotNull"} ->
         UNION {OperandTables(e.args[i]) : i \in DOMAIN e.args}
    [] OTHER -> {}

Condition(on) ==
  [on |-> on, left |-> IF IsBinary(on) THEN OperandTables(on.args[1]) ELSE {},
   right |-> IF IsBinary(on) THEN OperandTables(on.args[2]) ELSE {}]

RECURSIVE Island(_)
Island(p) ==
  IF p.op = "join" /\ p.type = "inner"
    THEN LET l == Island(p.kids[1])
             r == Island(p.kids[2])
         IN  [nodes |-> l.nodes \o r.nodes, conds |-> l.conds \o r.conds \o <<Condition(p.on)>>]
    ELSE [nodes |-> <<p>>, conds |-> <<>>]

\* The guess for an input of no known size.
RECURSIVE GuessedSize(_)
GuessedSize(p) ==
  CASE p.op = "filter" -> GuessedSize(p.kids[1]) \div 10
    [] p.op = "limit" -> p.limit
    [] OTHER -> 1000

\* estimate_cardinality; no plan has an index yet when the joins are reordered.
SizeOf(p, counts) ==
  LET known == {counts[t] : t \in TablesOf(p)} \ {0}
  IN  IF Cardinality(TablesOf(p)) = 1 /\ known # {} THEN Max(known) ELSE GuessedSize(p)

\* Mutant: a condition is taken for a join that has one of its two sides.
AppliesEarly(cond, tables) == (cond.left \cup cond.right) \cap tables # {}
Applies(cond, tables) == cond.left \cap tables # {} /\ cond.right \cap tables # {}

\* The first element of s that passes Test: its place, or 0.
FirstPlace(s, Test(_)) ==
  LET at == {i \in DOMAIN s : Test(s[i])} IN IF at = {} THEN 0 ELSE Min(at)

\* The next input to join with plan and the condition to join it on, if there is one.
NextJoin(plan, nodes, conds, counts) ==
  LET On(i) == FirstPlace(conds, LAMBDA c : Applies(c, TablesOf(plan) \cup TablesOf(nodes[i])))
      Score(i) == IF On(i) = 0 THEN 10 * SizeOf(nodes[i], counts) ELSE SizeOf(nodes[i], counts)
      best == CHOOSE i \in DOMAIN nodes :
                \A j \in DOMAIN nodes : Score(i) < Score(j) \/ (Score(i) = Score(j) /\ i <= j)
      Links(c, p) == \/ c.left \cap TablesOf(plan) # {} /\ c.right \cap TablesOf(p) # {}
                     \/ c.right \cap TablesOf(plan) # {} /\ c.left \cap TablesOf(p) # {}
      linked == FirstPlace(nodes, LAMBDA p : \E j \in DOMAIN conds : Links(conds[j], p))
  IN  IF On(best) # 0 THEN <<best, On(best)>>
      ELSE IF linked # 0
        THEN <<linked, FirstPlace(conds, LAMBDA c : Links(c, nodes[linked]))>>
        ELSE <<1, 0>>

RECURSIVE Greedy(_, _, _, _, _)
Greedy(plan, nodes, conds, tables, counts) ==
  LET next == NextJoin(plan, nodes, conds, counts)
      node == nodes[next[1]]
      joined == TablesOf(plan) \cup TablesOf(node)
  IN  IF nodes = <<>>
        THEN FoldLeft(LAMBDA p, c : Filter(p, c.on), plan, conds)
        ELSE Greedy(JoinAs("join", plan, node,
                           IF next[2] = 0 THEN Lit(Yes) ELSE conds[next[2]].on, "inner",
                           SelectSeq(tables, LAMBDA t : t \in joined)),
                    RemoveAt(nodes, next[1]),
                    IF next[2] = 0 THEN conds ELSE RemoveAt(conds, next[2]), tables, counts)

Reordered(p, counts, anchor) ==
  LET island == Island(p)
      rank(i) == Cardinality({j \in DOMAIN island.nodes :
                   \/ SizeOf(island.nodes[j], counts) < SizeOf(island.nodes[i], counts)
                   \/ SizeOf(island.nodes[j], counts) = SizeOf(island.nodes[i], counts) /\ j <= i})
      bySize == [r \in DOMAIN island.nodes |-> island.nodes[CHOOSE i \in DOMAIN island.nodes : rank(i) = r]]
      anchored == FirstPlace(bySize, LAMBDA n : anchor \cap TablesOf(n) # {})
      start == IF anchored = 0 THEN 1 ELSE anchored
  IN  IF Len(bySize) = 2
        THEN JoinAs("join", bySize[1], bySize[2], island.conds[1].on, "inner", p.tables)
        ELSE Greedy(bySize[start], RemoveAt(bySize, start), island.conds, p.tables, counts)

JoinReorder(plan, counts, anchor) ==
  LET Rule(p) == IF p.op = "join" /\ p.type = "inner" THEN Reordered(p, counts, anchor) ELSE p
  IN  Everywhere(plan, Rule, Never)

-----------------------------------------------------------------------------
(* OuterJoinRemoval: the padded side of an outer join is dropped when no   *)
(* table above needs it and it adds at most one row to each row kept.      *)

\* The columns of t that an equality in e fixes: to a literal or another table.
FixedColumns(e, t, OnlyLiterals) ==
  LET Fixes(c, other) == /\ c.op = "col" /\ c.table = t
                         /\ IF OnlyLiterals THEN other.op = "lit" ELSE t \notin TablesIn(other)
      eqs == {x \in ToSet(Operands("and", e)) : x.op = "eq"}
  IN  {x.args[1].at : x \in {y \in eqs : Fixes(y.args[1], y.args[2])}}
        \cup {x.args[2].at : x \in {y \in eqs : Fixes(y.args[2], y.args[1])}}

\* A side that reads one table, with filters and sorts over it: what it filters on.
RECURSIVE LocalPredicates(_), SingleSource(_)
SingleSource(p) ==
  p.op \in LeafOps \/ (p.op \in {"filter", "sort"} /\ SingleSource(p.kids[1]))
LocalPredicates(p) ==
  CASE p.op \in LeafOps -> {}
    [] p.op = "filter" -> {p.pred} \cup LocalPredicates(p.kids[1])
    [] OTHER -> LocalPredicates(p.kids[1])
RECURSIVE SourceOf(_)
SourceOf(p) == IF p.op \in LeafOps THEN p ELSE SourceOf(p.kids[1])

\* Mutant: a side is dropped without a look at the unique indexes.
CanRemoveAny(kept, side, on) == SingleSource(side) /\ SourceOf(side).table \notin TablesOf(kept)
CanRemove(kept, side, on) ==
  LET t == SourceOf(side).table
      fixed == FixedColumns(on, t, FALSE)
                 \cup UNION {FixedColumns(e, t, TRUE) : e \in LocalPredicates(side)}
  IN  /\ SingleSource(side)
      /\ t \notin TablesOf(kept)
      /\ \/ SourceOf(side).op = "indexGet" /\ SourceOf(side).index.unique
         \/ \E i \in DOMAIN IndexesOf[t] : IndexesOf[t][i].unique /\ IndexesOf[t][i].col \in fixed

ColumnTables(by) == UNION {TablesIn(by[i][1]) : i \in DOMAIN by}

RECURSIVE RootTables(_)
RootTables(p) ==
  CASE p.op = "project" -> UNION {TablesIn(p.cols[i]) : i \in DOMAIN p.cols}
    [] p.op = "filter" -> RootTables(p.kids[1]) \cup TablesIn(p.pred)
    [] p.op = "sort" -> RootTables(p.kids[1]) \cup ColumnTables(p.by)
    [] p.op = "limit" -> RootTables(p.kids[1])
    [] OTHER -> ToSet(OutputTables(p))

RECURSIVE WithoutUnused(_, _)
WithoutUnused(p, needed) ==
  LET Kid(i, more) == WithoutUnused(p.kids[i], (needed \cup more) \cap TablesOf(p.kids[i]))
      Unused(i, type) ==
        /\ p.type = type
        /\ needed \cap TablesOf(p.kids[i]) = {}
        /\ CanRemove(p.kids[3 - i], p.kids[i], p.on)
      left == Kid(1, TablesIn(p.on))
      right == Kid(2, TablesIn(p.on))
      present == ToSet(OutputTables(left)) \cup ToSet(OutputTables(right))
  IN  CASE p.op \in LeafOps -> p
        [] p.op = "filter" -> [p EXCEPT !.kids = <<Kid(1, TablesIn(p.pred))>>]
        [] p.op = "sort" -> [p EXCEPT !.kids = <<Kid(1, ColumnTables(p.by))>>]
        [] p.op = "project" -> [p EXCEPT !.kids = <<WithoutUnused(p.kids[1], RootTables(p))>>]
        [] p.op = "limit" -> [p EXCEPT !.kids = <<Kid(1, {})>>]
        [] p.op \in {"cross", "union"} -> [p EXCEPT !.kids = <<Kid(1, {}), Kid(2, {})>>]
        [] p.op = "join" -> IF Unused(2, "left") THEN Kid(1, {})
                            ELSE IF Unused(1, "right") THEN Kid(2, {})
                            ELSE JoinAs("join", left, right, p.on, p.type,
                                        SelectSeq(p.tables, LAMBDA t : t \in present))

OuterJoinRemoval(plan) == WithoutUnused(plan, RootTables(plan))
=============================================================================
