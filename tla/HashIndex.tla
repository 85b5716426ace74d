----------------------------- MODULE HashIndex ------------------------------
(***************************************************************************)
(* The hash index of a table (crates/index/src/hash.rs): a map from keys   *)
(* to their row ids.  The ids of a key are a set here; the code keeps them *)
(* in the order in which they were added.                                  *)
(***************************************************************************)
EXTENDS FiniteSets, TLC

CONSTANT Batch      \* the sets of entries that calls are made with, one entry or many

VARIABLES map,      \* from a key to the ids of its rows
          unique, result

vars == <<map, unique, result>>

ContainsKey(k) == k \in DOMAIN map

Rows(k) == IF ContainsKey(k) THEN map[k] ELSE {}

RowsIn(batch, k) == {e[2] : e \in {f \in batch : f[1] = k}}

-----------------------------------------------------------------------------
Init == map = [k \in {} |-> {}] /\ unique \in BOOLEAN /\ result = "ok"

Add(k, r) ==
  /\ UNCHANGED unique
  /\ \/ unique /\ ContainsKey(k) /\ result' = "duplicate" /\ UNCHANGED map
     \/ /\ ~(unique /\ ContainsKey(k))
        /\ result' = "ok"
        /\ map' = [l \in DOMAIN map \cup {k} |-> IF l = k THEN Rows(k) \cup {r} ELSE map[l]]

\* Mutant: the keys that are free are stored even when another one is refused.
AddBatchPartly(batch) ==
  LET free == {e \in batch : ~unique \/ ~ContainsKey(e[1])}
      keys == {e[1] : e \in free}
  IN  /\ UNCHANGED unique
      /\ result' = IF free = batch THEN "ok" ELSE "duplicate"
      /\ map' = [l \in DOMAIN map \cup keys |-> Rows(l) \cup RowsIn(free, l)]

\* A unique index first looks at every key of the batch, then stores them all.
AddBatch(batch) ==
  LET refused == \E e \in batch : ContainsKey(e[1]) \/ \E f \in batch \ {e} : f[1] = e[1]
      keys == {e[1] : e \in batch}
  IN  /\ UNCHANGED unique
      /\ \/ unique /\ refused /\ result' = "duplicate" /\ UNCHANGED map
         \/ /\ ~(unique /\ refused)
            /\ result' = "ok"
            /\ map' = [l \in DOMAIN map \cup keys |-> Rows(l) \cup RowsIn(batch, l)]

Set(k, r) ==
  /\ map' = [l \in DOMAIN map \cup {k} |-> IF l = k THEN {r} ELSE map[l]]
  /\ result' = "ok"
  /\ UNCHANGED unique

\* The store removes a batch entry by entry; a key without rows leaves the map.
RemoveBatch(batch) ==
  /\ map' = [l \in {k \in DOMAIN map : map[k] \ RowsIn(batch, k) # {}} |->
               map[l] \ RowsIn(batch, l)]
  /\ result' = "ok"
  /\ UNCHANGED unique

RemoveKey(k) ==
  /\ map' = [l \in DOMAIN map \ {k} |-> map[l]]
  /\ result' = "ok"
  /\ UNCHANGED unique

Clear == map' = [k \in {} |-> {}] /\ result' = "ok" /\ UNCHANGED unique

Next ==
  \/ \E batch \in Batch : AddBatch(batch) \/ RemoveBatch(batch)
  \/ \E e \in UNION Batch : Set(e[1], e[2]) \/ RemoveKey(e[1])
  \/ \E e \in UNION Batch : {e} \in Batch /\ Add(e[1], e[2])
  \/ Clear

Spec == Init /\ [][Next]_vars

-----------------------------------------------------------------------------
\* A key is in the map as long as it has a row: contains_key and the uniqueness
\* check rest on it.
NoEmptyKey == \A k \in DOMAIN map : map[k] # {}

\* The map is an index: every call changes the entries as the contract says.
Contract == INSTANCE KeyIndex WITH
              entries <- UNION {{<<k, r>> : r \in map[k]} : k \in DOMAIN map}
=============================================================================
