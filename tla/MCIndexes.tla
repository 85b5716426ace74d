------------------------------ MODULE MCIndexes -----------------------------
\* Six keys in nodes of at most two: three levels.  Key 3 may have two rows.
EXTENDS Indexes

MCKey == 1..6
MCRowsOf == [k \in MCKey |-> IF k = 3 THEN {3, 13} ELSE {k}]
=============================================================================
