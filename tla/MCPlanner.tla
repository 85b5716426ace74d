----------------------------- MODULE MCPlanner ------------------------------
(* Tables a -> b -> c and d: every pass changes the plan of some query.    *)
EXTENDS Planner

MCWidthOf == [a |-> 3, b |-> 2, c |-> 2, d |-> 1]
Unique(col) == [col |-> col, unique |-> TRUE, ordered |-> TRUE]
Ordered(col) == [col |-> col, unique |-> FALSE, ordered |-> TRUE]
Hashed(col) == [col |-> col, unique |-> FALSE, ordered |-> FALSE]
MCIndexesOf == [a |-> <<Unique(1), Hashed(2), Ordered(3)>>, b |-> <<Unique(1)>>, c |-> <<Unique(1)>>, d |-> <<>>]

A(i) == Col("a", i)
B(i) == Col("b", i)
C(i) == Col("c", i)
D(i) == Col("d", i)
Eq(x, y) == Exp("eq", <<x, y>>)
And(x, y) == Exp("and", <<x, y>>)
Or(x, y) == Exp("or", <<x, y>>)
Not(x) == Exp("not", <<x>>)
Cmp(op, x, v) == Exp(op, <<x, Lit(v)>>)
Asc(c) == <<c, "asc">>
Desc(c) == <<c, "desc">>

Query(source, where) ==
  [source |-> source, where |-> where, by |-> <<>>, limit |-> None, offset |-> 0, cols |-> <<>>]
Sorted(q, by, limit, offset) == [q EXCEPT !.by = by, !.limit = limit, !.offset = offset]
Only(q, cols) == [q EXCEPT !.cols = cols]

AB(type) == Join(Scan("a"), Scan("b"), Eq(A(2), B(1)), type)
ABC(type1, type2) == Join(AB(type1), Scan("c"), Eq(B(2), C(1)), type2)
BA == Join(Scan("b"), Scan("a"), Eq(A(2), B(1)), "left")
DCBA == Join(Scan("d"), Join(Scan("c"), Join(Scan("b"), Scan("a"), Eq(A(2), B(1)), "left"),
                             Eq(B(2), C(1)), "left"), Eq(C(2), D(1)), "left")
Products == Cross(Scan("a"), Cross(Scan("b"), Scan("c")))
Unions(all) == UnionOf(Project(Scan("a"), <<A(3)>>), Project(Scan("b"), <<B(2)>>), all)

MCQueries == <<
  Query(Scan("a"), <<And(Cmp("ge", A(3), 1), And(Cmp("lt", A(3), 3), Cmp("ne", A(2), 2)))>>),
  Query(Scan("a"), <<And(Cmp("eq", A(2), 1), Cmp("gt", A(3), 1))>>),
  Query(Scan("a"), <<Or(Cmp("eq", A(3), 1), Cmp("eq", A(3), 2))>>),
  Sorted(Query(Scan("a"), <<Exp("in", <<A(1), Lit(3), Lit(1)>>)>>), <<Asc(A(1))>>, None, 0),
  Sorted(Query(Scan("a"), <<Not(Or(Cmp("lt", A(3), 2), Exp("isNull", <<A(2)>>)))>>), <<Desc(A(3))>>, 2, 0),
  Sorted(Query(Scan("a"), <<Exp("between", <<A(3), Lit(1), Lit(2)>>)>>), <<Asc(A(3))>>, None, 0),
  Sorted(Query(Scan("a"), <<Cmp("gt", A(3), 1)>>), <<Desc(A(1))>>, 1, 1),
  Sorted(Query(Scan("a"), <<Cmp("ne", A(2), 2)>>), <<Desc(A(1))>>, 1, 0),
  Sorted(Query(Scan("a"), <<>>), <<Asc(A(3)), Asc(A(1))>>, 2, 1),
  Sorted(Query(Scan("a"), <<>>), <<Desc(A(3))>>, 1, 1),
  Sorted(Query(Scan("a"), <<>>), <<>>, None, 1),
  Only(Sorted(Query(Scan("a"), <<>>), <<>>, 1, 1), <<A(3)>>),
  Only(Sorted(Query(Scan("a"), <<Cmp("eq", A(2), 1)>>), <<>>, 1, 1), <<A(1)>>),
  Only(Query(AB("left"), <<>>), <<A(1), A(3)>>),
  Query(AB("left"), <<And(Cmp("gt", B(2), 0), Cmp("eq", A(3), 1))>>),
  Query(AB("left"), <<Exp("isNull", <<B(1)>>)>>),
  Query(AB("right"), <<Or(Cmp("ge", A(3), 2), Cmp("ge", B(2), 1))>>),
  Query(AB("full"), <<And(Cmp("ge", A(3), 1), Cmp("ge", B(2), 1))>>),
  Query(AB("full"), <<Or(Exp("isNull", <<A(1)>>), Cmp("ge", B(2), 1))>>),
  Only(Query(BA, <<>>), <<B(2)>>),
  Query(BA, <<Exp("isNotNull", <<A(1)>>)>>),
  Sorted(Query(AB("inner"), <<Cmp("gt", A(3), 1)>>), <<Asc(A(3))>>, 2, 0),
  Only(Query(ABC("left", "left"), <<Cmp("eq", B(2), 1)>>), <<A(1), B(2)>>),
  Sorted(Query(ABC("inner", "inner"), <<Cmp("le", C(2), 2)>>), <<Asc(A(1))>>, 2, 0),
  Query(ABC("left", "left"), <<Cmp("gt", C(2), 1)>>),
  Query(ABC("inner", "left"), <<And(Cmp("gt", A(1), 1), Exp("isNull", <<C(1)>>))>>),
  Query(ABC("left", "inner"), <<Or(Exp("isNull", <<B(1)>>), Cmp("eq", A(3), 1))>>),
  Query(Join(AB("inner"), Scan("c"), Exp("ge", <<A(3), B(2)>>), "inner"), <<>>),
  Query(DCBA, <<Cmp("gt", A(3), 1)>>),
  Query(Products, <<And(Eq(A(2), B(1)), Eq(B(2), C(1)))>>),
  Query(Unions(FALSE), <<>>),
  Query(Unions(TRUE), <<>>)>>

MCSessions == {<<i>> : i \in DOMAIN MCQueries} \cup [1..4 -> {1, 2, 10}]

(* UNION and then UNION ALL of the same queries.                           *)
UnionSessions == {<<Len(MCQueries) - 1, Len(MCQueries)>>}

Row(t, i, vals) == [id |-> <<t, i>>, vals |-> vals]
MCContents ==
  {[a |-> <<Row("a", 1, <<1, 1, 2>>), Row("a", 2, <<2, 1, 1>>), Row("a", 3, <<3, 2, 3>>)>>,
    b |-> <<Row("b", 1, <<1, 1>>), Row("b", 2, <<2, 0>>)>>,
    c |-> <<Row("c", 1, <<1, 2>>)>>,
    d |-> <<Row("d", 1, <<2>>), Row("d", 2, <<2>>)>>],
   [a |-> <<Row("a", 1, <<1, 0, 1>>), Row("a", 2, <<2, 2, 1>>), Row("a", 3, <<3, 3, 2>>)>>,
    b |-> <<Row("b", 1, <<2, 2>>), Row("b", 2, <<3, 1>>)>>,
    c |-> <<Row("c", 1, <<2, 1>>), Row("c", 2, <<3, 2>>)>>,
    d |-> <<Row("d", 1, <<1>>)>>],
   [a |-> <<Row("a", 1, <<1, 1, 2>>)>>, b |-> <<>>, c |-> <<>>, d |-> <<Row("d", 1, <<0>>)>>]}

MCStatistics == {[a |-> 3, b |-> 2, c |-> 1, d |-> 1], [a |-> 0, b |-> 2, c |-> 120, d |-> 2]}
=============================================================================
