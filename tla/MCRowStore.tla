----------------------------- MODULE MCRowStore -----------------------------
(* Model checking of RowStore: a primary key, a unique index on either side *)
(* of a plain one in name order, and a GIN index whose documents share keys. *)
EXTENDS RowStore, TLC

CONSTANTS pk, byEmail, byGroup, byName, byDoc, c1, c2, c3, c4, c5

MCRowId == 1..3
MCContent == {c1, c2, c3, c4, c5}
MCPk == {pk}
MCSec == <<byEmail, byGroup, byName>>
MCUnique == {byEmail, byName}
MCGin == {byDoc}

Row(k, email, group, name, doc) ==
  (pk :> {k}) @@ (byEmail :> {email}) @@ (byGroup :> {group}) @@ (byName :> {name}) @@ (byDoc :> doc)

Columnwise ==
  (c1 :> Row(1, 1, 1, 1, {1, 2})) @@ (c2 :> Row(1, 2, 1, 2, {2, 3})) @@ (c3 :> Row(2, 1, 2, 3, {}))
  @@ (c4 :> Row(2, 3, 1, 1, {1, 3})) @@ (c5 :> Row(3, 4, 2, 4, {1}))

MCKeys == [ix \in IndexName |-> [c \in Content |-> Columnwise[c][ix]]]
=============================================================================
