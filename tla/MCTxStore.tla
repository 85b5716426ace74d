----------------------------- MODULE MCTxStore -----------------------------
(* Model checking of TxStore: one transaction over rows whose content is    *)
(* their primary key, so that equal contents collide.  Row 2 is also        *)
(* written by others while the transaction is active.                       *)
EXTENDS TxStore, TLC

CONSTANTS pk, c1, c2, t1

MCRowId == 1..2
MCContent == {c1, c2}
MCPk == {pk}
MCTx == {t1}
MCSec == <<>>
MCKeys == (pk :> [c \in Content |-> {c}])
=============================================================================
