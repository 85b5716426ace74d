--------------------------- MODULE MCLiveAnswers ---------------------------
(***************************************************************************)
(* Small instances of LiveAnswers: a filtered table, the first row of an   *)
(* ordered table, the first row of an ordered join, the second row of an   *)
(* unordered join, and two joins to tables that the root refers to and     *)
(* that refer to it.                                                       *)
(***************************************************************************)
EXTENDS LiveAnswers

C(key, ref, v) == [key |-> key, ref |-> ref, v |-> v]
Table(cs) == {WithId(cs[n], n) : n \in DOMAIN cs}

JoinOn(left, lcol, table, col, outer) ==
  [left |-> left, lcol |-> lcol, table |-> table, col |-> col, outer |-> outer]

Query(joins, hidden, ordered, limit) ==
  [root |-> "root", nested |-> <<>>, joins |-> joins, hidden |-> hidden, ordered |-> ordered,
   offset |-> 0, limit |-> limit, overscan |-> 1]

\* WHERE v <> 1: rows leave and enter the result.
Filtered ==
  [api |-> "rows", q |-> Query(<<>>, {1}, FALSE, 0),
   db |-> [root |-> Table(<<C(1, Null, 2), C(2, Null, 1), C(3, Null, 2)>>)],
   inserts |-> [root |-> {C(4, Null, 1), C(4, Null, 2)}],
   updates |-> [root |-> {C(k, Null, v) : k \in {1, 2, 3}, v \in {1, 2}}],
   max |-> 4]

\* ORDER BY v LIMIT 1: the window has room for three of five rows.
First ==
  [api |-> "rows", q |-> Query(<<>>, {}, TRUE, 1),
   db |-> [root |-> Table(<<C(1, Null, 1), C(2, Null, 2), C(3, Null, 3), C(4, Null, 4), C(5, Null, 5)>>)],
   inserts |-> [root |-> {C(6, Null, 3)}],
   updates |-> [root |-> {C(k, Null, v) : k \in 1..3, v \in {0, 9}}],
   max |-> 4]

\* The same over an inner join: a change to mid affects several root rows.
FirstJoined ==
  [api |-> "rows", q |-> Query(<<JoinOn("root", "ref", "mid", "key", FALSE)>>, {}, TRUE, 1),
   db |-> [root |-> Table(<<C(1, 1, 1), C(2, 1, 2), C(3, 2, 3), C(4, 2, 4)>>),
           mid |-> Table(<<C(1, Null, 0), C(2, Null, 0)>>)],
   inserts |-> [root |-> {}, mid |-> {C(1, Null, 0)}],
   updates |-> [root |-> {C(k, r, k) : k \in 1..4, r \in {1, 2}},
                mid |-> {C(k, Null, 0) : k \in {1, 2, 3}}],
   max |-> 3]

\* LIMIT 1 OFFSET 1 without an order: executed again after each flush.
Second ==
  [api |-> "rows",
   q |-> [Query(<<JoinOn("root", "ref", "mid", "key", FALSE)>>, {}, FALSE, 1) EXCEPT !.offset = 1],
   db |-> [root |-> Table(<<C(1, 1, 0), C(2, 1, 0), C(3, 1, 0)>>), mid |-> Table(<<C(1, Null, 0)>>)],
   inserts |-> [root |-> {}, mid |-> {C(1, Null, 0)}],
   updates |-> [root |-> {C(1, 2, 0), C(2, 2, 0)}, mid |-> {C(1, Null, 1)}],
   max |-> 3]

\* Root rows, the mid row that each refers to, and the far rows that refer to that.
Fan(outer) ==
  [api |-> "rows", q |-> Query(<<JoinOn("root", "ref", "mid", "key", outer), JoinOn("mid", "key", "far", "ref", outer)>>,
               {}, FALSE, 0),
   db |-> [root |-> Table(<<C(1, 1, 0), C(2, 1, 0)>>),
           mid |-> Table(<<C(1, Null, 0)>>),
           far |-> Table(<<C(1, 1, 0), C(2, 2, 0)>>)],
   inserts |-> [root |-> {C(1, 1, 0), C(3, 2, 0)}, mid |-> {C(2, Null, 0)}, far |-> {}],
   updates |-> [root |-> {C(1, 2, 0), C(2, 1, 0), C(3, 1, 0)}, mid |-> {C(1, Null, 0), C(2, Null, 0)},
                far |-> {C(1, 2, 0), C(2, 1, 0)}],
   max |-> 3]

MCScenario == {Filtered, First, FirstJoined, Second, Fan(TRUE), Fan(FALSE)}
MCFirst == {First}
=============================================================================
