---------------------------- MODULE TableSchema ----------------------------
(***************************************************************************)
(* The parameters of a table, shared by Table (what a table promises) and  *)
(* RowStore (how it is kept): its indexes, and what a row's keys are.      *)
(***************************************************************************)
EXTENDS Integers, Sequences

CONSTANTS RowId,      \* row ids
          Content,    \* the contents a row may have
          Pk,         \* the primary-key index: a set of one name, or empty
          Sec,        \* the other column indexes, in the order of their names
          Unique,     \* those of Sec that are unique
          Gin,        \* the GIN indexes
          Keys,       \* Keys[ix][c]: the keys under which c appears in ix
          MaxBatch    \* bound: the longest batch

Columns == Pk \cup {Sec[j] : j \in DOMAIN Sec}
IndexName == Columns \cup Gin
Constrained == Pk \cup Unique
Key == UNION {Keys[ix][c] : ix \in IndexName, c \in Content}

ASSUME RowIdAssumption == RowId \subseteq Nat
ASSUME MaxBatchAssumption == MaxBatch \in Nat

\* Index names are distinct, and a column index has one key for a row.
ASSUME IndexAssumption ==
  /\ \A p, q \in Pk : p = q
  /\ Sec \in Seq({Sec[j] : j \in DOMAIN Sec})
  /\ \A i, j \in DOMAIN Sec : Sec[i] = Sec[j] => i = j
  /\ Pk \cap {Sec[j] : j \in DOMAIN Sec} = {} /\ Gin \cap Columns = {}
  /\ Unique \subseteq {Sec[j] : j \in DOMAIN Sec}
  /\ \A ix \in Columns, c \in Content : \E k \in Keys[ix][c] : Keys[ix][c] = {k}

\* The outcomes of a call are not index names: the code keeps them apart in a Result.
ASSUME OutcomeAssumption ==
  IndexName \cap {"ok", "id_exists", "not_found", "not_empty", "unsorted", "overflow"} = {}

BatchRow == [id : RowId, c : Content]
Batches == UNION {[1..n -> BatchRow] : n \in 1..MaxBatch}
=============================================================================
