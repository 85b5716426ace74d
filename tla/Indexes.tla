------------------------------ MODULE Indexes -------------------------------
(***************************************************************************)
(* The two structures a table may keep a secondary index in, given the     *)
(* same calls: the B+tree and the hash index implement one contract        *)
(* (row_store.rs, SecondaryIndexStore).                                    *)
(***************************************************************************)
EXTENDS BTree

VARIABLE hash       \* the map of the hash index

Hash == INSTANCE HashIndex WITH map <- hash, Batch <- Batches

IndexesInit == Init /\ hash = [k \in {} |-> {}]

IndexesNext ==
  \/ \E key \in Key : \E row \in RowsOf[key] :
       \/ Add(key, row) /\ Hash!Add(key, row)
       \/ Set(key, row) /\ Hash!Set(key, row)
       \/ RemoveKey(key, {row}) /\ Hash!RemoveBatch({<<key, row>>})
  \/ \E key \in Key : RemoveKey(key, RowsOf[key]) /\ Hash!RemoveKey(key)
  \/ \E batch \in Batches :
       \/ AddBatch(batch) /\ Hash!AddBatch(batch)
       \/ RemoveBatch(batch) /\ Hash!RemoveBatch(batch)
  \/ Clear /\ Hash!Clear

IndexesSpec == IndexesInit /\ [][IndexesNext]_<<vars, hash>>

-----------------------------------------------------------------------------
\* The hash index is an index too: its calls change the entries and refuse a
\* duplicate as the contract says.
HashImplementsIndex == Hash!Contract!Spec
=============================================================================
