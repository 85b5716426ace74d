----------------------------- MODULE MCRowSlots -----------------------------
(* Model checking of RowSlots: enough rows for a removal to move a row that *)
(* is scanned before, and one that is scanned after, the removed one.       *)
EXTENDS RowSlots

CONSTANTS a, b

MCRowId == 1..5
MCContent == {a, b}
=============================================================================
