--------------------------- MODULE MCGraphqlLive ---------------------------
(***************************************************************************)
(* Small instances of GraphqlLive, with those of LiveAnswers: root rows    *)
(* with the mid row that each refers to, and the far rows that refer to    *)
(* that one, on the delta lane; the same with a limit on far rows, or with *)
(* an ordered and limited root, on the snapshot lane.                      *)
(***************************************************************************)
EXTENDS GraphqlLive, MCLiveAnswers

\* A node under the node parent: root, mid, far.
Node(parent, table, pcol, ccol, many, limit) ==
  [root |-> table, nested |-> <<>>, joins |-> <<>>, hidden |-> {}, ordered |-> limit > 0, offset |-> 0,
   limit |-> limit, overscan |-> 0, parent |-> parent, pcol |-> pcol, ccol |-> ccol, many |-> many]

Selection(ordered, limit, farLimit, hidden) ==
  [Query(<<>>, hidden, ordered, limit) EXCEPT
     !.nested = <<Node(0, "mid", "ref", "key", FALSE, 0), Node(1, "far", "key", "ref", TRUE, farLimit)>>]

Nested(api, selection, max) ==
  [api |-> api, q |-> selection,
   db |-> [root |-> Table(<<C(1, 1, 0), C(2, 2, 2), C(3, 1, 3)>>),
           mid |-> Table(<<C(1, Null, 0), C(2, Null, 0)>>),
           far |-> Table(<<C(1, 1, 1), C(2, 1, 0)>>)],
   inserts |-> [root |-> {C(4, 2, 0)}, mid |-> {}, far |-> {}],
   updates |-> [root |-> {C(1, 1, 1), C(3, 2, 0)}, mid |-> {C(1, Null, 1)}, far |-> {C(2, 2, 2)}],
   max |-> max]

DeltaLane == Nested("delta", Selection(FALSE, 0, 0, {1}), 3)
NestedLimit == Nested("snapshot", Selection(FALSE, 0, 1, {1}), 3)
OrderedRoot == Nested("snapshot", Selection(TRUE, 2, 0, {}), 2)

\* Keys of a row that WHERE excludes move from row to row, so that regrouped root
\* rows are out of the order of their ids.
Moved ==
  [Nested("snapshot", [Selection(FALSE, 0, 0, {1}) EXCEPT !.nested = <<Node(0, "mid", "key", "ref", TRUE, 1)>>], 4) EXCEPT
     !.db = [root |-> Table(<<C(1, Null, 0), C(2, Null, 0)>>), mid |-> Table(<<C(1, 1, 0)>>)],
     !.inserts = [root |-> {}, mid |-> {}],
     !.updates = [root |-> {C(9, Null, 1), C(1, Null, 0)}, mid |-> {C(1, 1, 1), C(1, 2, 0)}]]

\* Each row with the rows, or the first row, of the same table that refer to it.
Nesting(api, limit) ==
  [Nested(api, [Selection(FALSE, 0, 0, {1}) EXCEPT !.nested = <<Node(0, "root", "key", "ref", TRUE, limit)>>], 2) EXCEPT
     !.db = [root |-> Table(<<C(1, Null, 0), C(2, 1, 1)>>)],
     !.inserts = [root |-> {C(3, 1, 1)}],
     !.updates = [root |-> {C(2, 1, 2), C(2, 3, 1)}]]

MCGraphqlScenario == MCScenario \cup {DeltaLane, NestedLimit, OrderedRoot, Moved, Nesting("snapshot", 1), Nesting("delta", 0)}
MCDeltaLane == {DeltaLane}
MCNesting == {Nesting("snapshot", 1)}
MCSnapshotLane == {NestedLimit, OrderedRoot}
=============================================================================
