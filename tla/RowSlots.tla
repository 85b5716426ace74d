------------------------------ MODULE RowSlots ------------------------------
(***************************************************************************)
(* The dense row storage of one table (crates/storage/src/row_store.rs):   *)
(* three structures that describe the same set of rows.                    *)
(*                                                                         *)
(*   slots   row_slots  : the rows, packed, in no particular order         *)
(*   slotOf  rows       : row id -> index into row_slots                   *)
(*   scan    scan_order : slot indices in row-id order, walked by scans    *)
(*                                                                         *)
(* A removal is a swap_remove: the last row moves into the freed slot, so  *)
(* the other two structures must be repaired.  The component's operations  *)
(* are the private helpers through which every table write goes.  Slots    *)
(* are numbered from 1, where the code counts from 0.                      *)
(***************************************************************************)
EXTENDS Integers, Sequences

CONSTANTS RowId,    \* row ids, a set of integers: the order of ids matters
          Content,  \* the contents a row may have
          MaxBulk   \* bound: the longest input of one bulk load

ASSUME RowIdAssumption == RowId \subseteq Nat
ASSUME MaxBulkAssumption == MaxBulk \in Nat

VARIABLES slots, slotOf, scan

vars == <<slots, slotOf, scan>>

Slot == [id : RowId, c : Content]

TypeOK ==
  /\ slots \in Seq(Slot)
  /\ DOMAIN slotOf \in SUBSET RowId
  /\ slotOf \in [DOMAIN slotOf -> 1..Len(slots)]
  /\ scan \in Seq(1..Len(slots))

Init == slots = <<>> /\ slotOf = <<>> /\ scan = <<>>

-----------------------------------------------------------------------------
(* binary_search over scan_order.  The code relies on the order being      *)
(* sorted: the position of an id is the number of ids before it, plus one. *)

IdAt(p) == slots[scan[p]].id

\* Err(pos) of a failed search, for an id that is not in the scan order.
InsertPosition(id) ==
  CHOOSE p \in 1..(Len(scan) + 1) :
    /\ \A q \in 1..(p - 1) : IdAt(q) < id
    /\ \A q \in p..Len(scan) : IdAt(q) > id

\* Ok(pos) of a successful search.
ScanPosition(id) == CHOOSE p \in 1..Len(scan) : IdAt(p) = id

Put(f, k, v) == [x \in DOMAIN f \cup {k} |-> IF x = k THEN v ELSE f[x]]

InsertAtPos(s, p, e) == [q \in 1..(Len(s) + 1) |-> IF q < p THEN s[q] ELSE IF q = p THEN e ELSE s[q - 1]]

RemoveAtPos(s, p) == [q \in 1..(Len(s) - 1) |-> IF q < p THEN s[q] ELSE s[q + 1]]

-----------------------------------------------------------------------------
(* insert_row_slot.  Callers check rows.contains_key first.  A row whose   *)
(* id exceeds the last one scanned is appended without a search.           *)
\* Mutant: compares with the first row scanned.
AppendAfterFirst(id) == Len(scan) = 0 \/ IdAt(1) < id

AppendOnly(id) == Len(scan) = 0 \/ IdAt(Len(scan)) < id

InsertRowSlot(id, c) ==
  /\ id \notin DOMAIN slotOf
  /\ slots' = Append(slots, [id |-> id, c |-> c])
  /\ slotOf' = Put(slotOf, id, Len(slots) + 1)
  /\ scan' = IF AppendOnly(id)
               THEN Append(scan, Len(slots) + 1)
               ELSE InsertAtPos(scan, InsertPosition(id), Len(slots) + 1)

(* replace_row_slot: a new row in the same slot. *)
ReplaceRowSlot(id, c) ==
  /\ id \in DOMAIN slotOf
  /\ slots' = [slots EXCEPT ![slotOf[id]].c = c]
  /\ UNCHANGED <<slotOf, scan>>

(* remove_row_slot.  The scan position of the row that will move is looked *)
(* up before anything changes, and shifted down by one when the removed    *)
(* row was scanned before it.                                              *)
\* Mutant: Vec::remove, which shifts the rows, in place of swap_remove.
ShiftRemove(s) == RemoveAtPos(slots, s)

SwapRemove(s) ==
  LET n == Len(slots)
  IN  [i \in 1..(n - 1) |-> IF i = s THEN slots[n] ELSE slots[i]]

\* Mutant: the position is not shifted by the removal.
UnshiftedScanPosition(removedPos, movedPos) == movedPos

MovedScanPosition(removedPos, movedPos) ==
  IF movedPos > removedPos THEN movedPos - 1 ELSE movedPos

RemoveRowSlot(id) ==
  /\ id \in DOMAIN slotOf
  /\ LET s == slotOf[id]
         last == Len(slots)
         movedId == slots[last].id
         removedPos == ScanPosition(id)
         movedPos == ScanPosition(movedId)
         rest == RemoveAtPos(scan, removedPos)
         others == [x \in DOMAIN slotOf \ {id} |-> slotOf[x]]
     IN  /\ slots' = SwapRemove(s)
         /\ IF s = last
              THEN slotOf' = others /\ scan' = rest
              ELSE /\ slotOf' = [others EXCEPT ![movedId] = s]
                   /\ scan' = [rest EXCEPT ![MovedScanPosition(removedPos, movedPos)] = s]

(* The slot part of bulk_load: an empty store takes rows sorted by strictly *)
(* increasing id, one after another.                                        *)
BulkLoadSlots(rows) ==
  /\ Len(slots) = 0
  /\ \A i, j \in 1..Len(rows) : i < j => rows[i].id < rows[j].id
  /\ slots' = rows
  /\ slotOf' = [id \in {rows[i].id : i \in 1..Len(rows)} |->
                  CHOOSE i \in 1..Len(rows) : rows[i].id = id]
  /\ scan' = [i \in 1..Len(rows) |-> i]

Clear == slots' = <<>> /\ slotOf' = <<>> /\ scan' = <<>>

Next ==
  \/ \E id \in RowId, c \in Content : InsertRowSlot(id, c) \/ ReplaceRowSlot(id, c)
  \/ \E id \in RowId : RemoveRowSlot(id)
  \/ \E n \in 1..MaxBulk : \E rows \in [1..n -> Slot] : BulkLoadSlots(rows)
  \/ Clear

Spec == Init /\ [][Next]_vars

-----------------------------------------------------------------------------
(* What get() and scan() read. *)
Stored(id) == slots[slotOf[id]].c

(* The hash map and the packed rows describe the same rows: following the  *)
(* map from an id reaches that id's row, and every packed row is reachable. *)
(* A swap_remove that forgets to repoint the moved row breaks it.          *)
SlotMapExact ==
  /\ \A id \in DOMAIN slotOf : slots[slotOf[id]].id = id
  /\ \A s \in 1..Len(slots) : slots[s].id \in DOMAIN slotOf /\ slotOf[slots[s].id] = s

(* A scan visits every stored row once, in increasing row-id order, although *)
(* removals shuffle the slots.  Binary search over the order relies on it.   *)
ScanInIdOrder ==
  /\ Len(scan) = Len(slots)
  /\ \A p, q \in 1..Len(scan) : p < q => IdAt(p) < IdAt(q)
  /\ \A s \in 1..Len(slots) : \E p \in 1..Len(scan) : scan[p] = s

(* A helper call changes what is stored under at most one id, unless it     *)
(* fills an empty store or empties it: rows that a swap_remove or a shifted *)
(* scan order moves around keep their content and stay readable.            *)
UntouchedRowsSurvive ==
  [][\/ slots = <<>> \/ slots' = <<>>
     \/ \E id \in RowId : \A other \in (DOMAIN slotOf \cup DOMAIN slotOf') \ {id} :
          /\ other \in DOMAIN slotOf \cap DOMAIN slotOf'
          /\ slots'[slotOf'[other]].c = Stored(other)]_vars

=============================================================================
