--------------------------- MODULE MCLiveRuntime ---------------------------
(* Model checking of LiveRuntime: two rows, contents in and alt that the    *)
(* queries select and out that they do not.                                 *)
EXTENDS LiveRuntime

CONSTANTS in, alt, out, p, q, d

MCRowId == 1..2
MCContent == {in, alt, out}
MCMatch == {in, alt}
MCSelectOne == {in}
MCInOut == {in, out}
AllUsage == {"mixed", "early_trace", "failing", "clear"}
=============================================================================
