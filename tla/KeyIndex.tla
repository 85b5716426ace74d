------------------------------ MODULE KeyIndex ------------------------------
(***************************************************************************)
(* What an index promises the table that keeps it: a set of entries, each  *)
(* a key with the id of a row that has it, and for a unique index at most  *)
(* one entry for a key.  This is the contract of the traits Index and      *)
(* RangeIndex (traits.rs) without any data structure behind it; BTree and  *)
(* HashIndex implement it.                                                 *)
(***************************************************************************)
EXTENDS FiniteSets, TLC

CONSTANT Batch     \* the sets of entries that calls are made with, one entry or many

VARIABLES entries,    \* the stored pairs of a key and a row id
          unique,     \* whether the index was created as a unique one
          result      \* what the last operation returned

vars == <<entries, unique, result>>

Init == entries = {} /\ unique \in BOOLEAN /\ result = "ok"

-----------------------------------------------------------------------------
KeysOf(E) == {e[1] : e \in E}

\* Adding the entries of batch to E would give a key a second row.
Clashes(E, batch) ==
  \/ KeysOf(batch) \cap KeysOf(E) # {}
  \/ \E e, f \in batch : e # f /\ e[1] = f[1]

\* All of the batch is added, or none of it: Index::add and Index::add_batch.
AddAll(batch) ==
  /\ UNCHANGED unique
  /\ \/ /\ unique /\ Clashes(entries, batch)
        /\ result' = "duplicate"
        /\ UNCHANGED entries
     \/ /\ ~(unique /\ Clashes(entries, batch))
        /\ result' = "ok"
        /\ entries' = entries \cup batch

\* Index::set: the only row of the key from now on.
Set(k, r) ==
  /\ entries' = {e \in entries : e[1] # k} \cup {<<k, r>>}
  /\ result' = "ok"
  /\ UNCHANGED unique

\* Index::remove of one row, Index::remove_batch.
RemoveAll(gone) ==
  /\ entries' = entries \ gone
  /\ result' = "ok"
  /\ UNCHANGED unique

\* Index::remove with no row given: the whole key.
RemoveKey(k) ==
  /\ entries' = {e \in entries : e[1] # k}
  /\ result' = "ok"
  /\ UNCHANGED unique

Clear == entries' = {} /\ result' = "ok" /\ UNCHANGED unique

Next ==
  \/ \E batch \in Batch : AddAll(batch) \/ RemoveAll(batch)
  \/ \E e \in UNION Batch : Set(e[1], e[2]) \/ RemoveKey(e[1])
  \/ Clear

Spec == Init /\ [][Next]_vars
=============================================================================
