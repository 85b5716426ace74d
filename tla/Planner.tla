------------------------------ MODULE Planner -------------------------------
(***************************************************************************)
(* The query planner and the plan cache (planner/query_planner.rs,         *)
(* plan_cache.rs, database/src/query_builder.rs).  A session asks for the  *)
(* results of a sequence of queries.  A query whose fingerprint the cache  *)
(* knows is served its plan; for any other one the plan that the query     *)
(* builder makes goes through the passes of the planner, one step for each *)
(* pass, and the last step puts the compiled plan in the cache.            *)
(***************************************************************************)
EXTENDS PhysicalPasses

CONSTANTS
  Queries,        \* [source, where, by, limit, offset, cols], in a sequence
  Sessions,       \* the sequences of queries, by their places in Queries
  Contents,       \* contents of the tables that an answer is compared on
  Statistics,     \* row counts of the tables that the statistics may report
  CacheSize       \* max_size of the plan cache

VARIABLES
  session,        \* the queries still to be asked; the first one is in hand
  plan,           \* the plan of that query, as far as it is made
  step,           \* the place of the next pass in Pipeline; 0: not looked up yet
  counts,         \* the row counts the planner is given
  variant,        \* CompilePlanProfile: the default or a variant of root-subset plan
  cache           \* the cached plans, [key, plan], from least to most recently used

vars == <<session, plan, step, counts, variant, cache>>

-----------------------------------------------------------------------------
(* The query builder: source, WHERE, ORDER BY, LIMIT and the projection.   *)

NoLimit == 99           \* a limit above every size, for OFFSET without LIMIT

Selected(q) == IF q.where = <<>> THEN q.source ELSE Filter(q.source, q.where[1])
Projected(q, p) == IF q.cols = <<>> THEN p ELSE Project(p, q.cols)

Built(q) ==
  LET sorted == IF q.by = <<>> THEN Selected(q) ELSE SortBy(Selected(q), q.by)
      limited == IF q.limit = None /\ q.offset = 0 THEN sorted
                 ELSE LimitTo(sorted, IF q.limit = None THEN NoLimit ELSE q.limit, q.offset)
  IN  Projected(q, limited)

Asked == Queries[Head(session)]
Root(q) == Head(OutputTables(q.source))

\* register_restricted_relation_intent: a root-subset plan starts from the root table
\* (unless it is a plan for many rows of an empty table), and one for few rows
\* reads them by their ids, so no index is chosen for it.
Variants == {"default", "small", "large"}
Anchor ==
  IF variant = "default" \/ (variant = "large" /\ counts[Root(Asked)] = 0) THEN {}
  ELSE {Root(Asked)}
Restricted == IF variant = "small" THEN {Root(Asked)} ELSE {}

-----------------------------------------------------------------------------
(* The plan cache.                                                         *)

\* hash_logical_plan: the whole plan, but for the kind of a union.
Fingerprint(p) ==
  LET Rule(x) == IF x.op = "union" THEN [op |-> "union", kids |-> x.kids] ELSE x
  IN  Everywhere(p, Rule, Never)

CacheKey(kind) == <<Fingerprint(Built(Asked)), kind>>

Cached(key) == SelectSeq(cache, LAMBDA entry : entry.key = key)
Touched(key) == SelectSeq(cache, LAMBDA entry : entry.key # key) \o Cached(key)
\* Mutant: the cache is let grow one plan past its size.
EvictedLate == IF Len(cache) > CacheSize THEN Tail(cache) ELSE cache
Evicted == IF Len(cache) >= CacheSize THEN Tail(cache) ELSE cache

-----------------------------------------------------------------------------

Pipeline ==
  <<"not", "and", "cross", "implicit", "outer", "push", "outer", "push", "outer", "reorder",
    "push", "index", "remove", "lower", "topN", "order", "indexJoin", "limitSkip">>

Served == Len(Pipeline) + 1

Init ==
  /\ session \in Sessions
  /\ plan = Built(Asked)
  /\ step = 0
  /\ counts \in Statistics
  /\ variant = "default"
  /\ cache = <<>>

\* get_or_insert_compiled_with: a hit is served, a miss is planned.
LookUp ==
  /\ step = 0
  /\ variant' \in Variants
  /\ LET key == CacheKey(variant')
     IN  IF Cached(key) # <<>>
           THEN /\ plan' = Cached(key)[1].plan
                /\ cache' = Touched(key)
                /\ step' = Served
           ELSE /\ step' = 1
                /\ UNCHANGED <<plan, cache>>
  /\ UNCHANGED <<session, counts>>

\* One pass of the planner over the whole plan.
Pass(name, result) ==
  /\ step \in DOMAIN Pipeline
  /\ Pipeline[step] = name
  /\ plan' = result
  /\ step' = step + 1
  /\ UNCHANGED <<session, counts, variant>>

SimplifyNegations == Pass("not", NotSimplification(plan)) /\ UNCHANGED cache
BreakConjunctions == Pass("and", AndPredicatePass(plan)) /\ UNCHANGED cache
PairProducts == Pass("cross", CrossProductPass(plan)) /\ UNCHANGED cache
MakeJoins == Pass("implicit", ImplicitJoinsPass(plan)) /\ UNCHANGED cache
NarrowOuterJoins == Pass("outer", OuterJoinSimplification(plan)) /\ UNCHANGED cache
PushFilters == Pass("push", PredicatePushdown(plan)) /\ UNCHANGED cache
ReorderJoins == Pass("reorder", JoinReorder(plan, counts, Anchor)) /\ UNCHANGED cache
SelectIndexes == Pass("index", IndexSelection(plan, Restricted)) /\ UNCHANGED cache
RemoveOuterJoins == Pass("remove", OuterJoinRemoval(plan)) /\ UNCHANGED cache
Lower == Pass("lower", Lowered(plan)) /\ UNCHANGED cache
PushTopN == Pass("topN", TopNPushdown(plan)) /\ UNCHANGED cache
OrderThroughIndexes == Pass("order", OrderByIndex(plan)) /\ UNCHANGED cache
JoinThroughIndexes ==
  \E cheap \in SUBSET {1, 2} : Pass("indexJoin", IndexJoinPass(plan, cheap)) /\ UNCHANGED cache

\* The last pass, and the insertion of the plan it leaves.
LimitThroughIndexes ==
  /\ Pass("limitSkip", LimitSkipByIndex(plan))
  /\ cache' = Append(Evicted, [key |-> CacheKey(variant), plan |-> plan'])

\* The next query of the session, with the statistics of that moment.
AskNext ==
  /\ step = Served
  /\ Len(session) > 1
  /\ session' = Tail(session)
  /\ plan' = Built(Queries[Head(Tail(session))])
  /\ step' = 0
  /\ counts' \in Statistics
  /\ variant' = "default"
  /\ UNCHANGED cache

Next ==
  \/ LookUp \/ AskNext
  \/ SimplifyNegations \/ BreakConjunctions \/ PairProducts \/ MakeJoins
  \/ NarrowOuterJoins \/ PushFilters \/ ReorderJoins \/ SelectIndexes \/ RemoveOuterJoins
  \/ Lower \/ PushTopN \/ OrderThroughIndexes \/ JoinThroughIndexes \/ LimitThroughIndexes

Spec == Init /\ [][Next]_vars

-----------------------------------------------------------------------------

PlanOps == JoinOps \cup LeafOps \cup {"filter", "project", "sort", "limit", "topN", "cross", "union"}

RECURSIVE Nodes(_)
Nodes(p) == {p} \cup UNION {Nodes(p.kids[i]) : i \in DOMAIN p.kids}

(* The state is of its type: a served plan has no operator left that only  *)
(* a logical plan has (lowering.rs gives every join an algorithm), and the *)
(* cache has at most CacheSize plans, each under one key.                  *)
TypeOK ==
  /\ step \in 0..Served
  /\ variant \in Variants
  /\ counts \in Statistics
  /\ \A p \in Nodes(plan) : p.op \in PlanOps /\ (step = Served => p.op # "join")
  /\ Len(cache) <= CacheSize
  /\ \A i, j \in DOMAIN cache : cache[i].key = cache[j].key => i = j

Values(entries) == [i \in DOMAIN entries |-> entries[i].vals]
Occurrences(x, s) == Cardinality({i \in DOMAIN s : s[i] = x})

\* The values of the sort columns in a row of the answer to q.
SortKey(q, vals) ==
  LET at(c) == IF q.cols = <<>> THEN Place(OutputTables(q.source), c.table, c.at)
               ELSE CHOOSE i \in DOMAIN q.cols : q.cols[i] = c
  IN  [i \in DOMAIN q.by |-> vals[at(q.by[i][1])]]

SortKeys(q, rows) == [i \in DOMAIN rows |-> SortKey(q, rows[i])]

\* The rows of p answer q: they are among the rows that q selects, as many as its
\* limit and offset leave, with the sort keys that are due at those places.
Answers(p, q, T) ==
  LET all == Values(RowsOf(Projected(q, Selected(q)), T))
      rows == Values(RowsOf(p, T))
      sorted == Values(RowsOf(Projected(q, SortBy(Selected(q), q.by)), T))
      wanted == Window(sorted, q.limit, q.offset)
  IN  /\ Len(rows) = Len(wanted)
      /\ \A i \in DOMAIN rows : Occurrences(rows[i], rows) <= Occurrences(rows[i], all)
      /\ SortKeys(q, rows) = SortKeys(q, wanted)

(* Every pass, and every plan that the cache serves, gives the answer of   *)
(* the query that was asked, whatever the tables contain, the statistics   *)
(* say and the costs allow.                                                *)
AnswerKept == \A T \in Contents : Answers(plan, Asked, T)

(* Every plan can be executed: the keys of a hash or index join are on two *)
(* different sides (extract_join_keys), and no filter, projection or sort  *)
(* reads a column of a table that its input does not have.                 *)
Executable ==
  \A p \in Nodes(plan) :
    /\ p.op \in {"hashJoin", "indexJoin"} =>
         Cardinality({i \in 1..2 : p.on.args[i].table \in ToSet(OutputTables(p.kids[1]))}) = 1
    /\ p.op \in {"join", "hashJoin", "nestedLoop"} =>
         /\ TablesIn(p.on) \subseteq ToSet(OutputTables(p.kids[1]) \o OutputTables(p.kids[2]))
         /\ ToSet(p.tables) = ToSet(OutputTables(p.kids[1]) \o OutputTables(p.kids[2]))
    /\ p.op = "filter" => TablesIn(p.pred) \subseteq ToSet(OutputTables(p))
    /\ p.op \in {"sort", "topN"} => ColumnTables(p.by) \subseteq ToSet(OutputTables(p))
    /\ p.op = "project" =>
         UNION {TablesIn(p.cols[i]) : i \in DOMAIN p.cols} \subseteq ToSet(OutputTables(p))
=============================================================================
