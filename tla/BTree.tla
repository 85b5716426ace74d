------------------------------- MODULE BTree --------------------------------
(***************************************************************************)
(* The B+tree behind the primary index and the ordered secondary indexes   *)
(* of a table (crates/index/src/btree).  The tree is a record: its nodes   *)
(* by id, the id of the root and the row count of IndexStats.  An id is a  *)
(* place in the arena, which only grows: a node that a merge emptied stays *)
(* there, and no link leads to it.  The model drops such nodes and numbers *)
(* the others in the order of the tree after every call, so that trees of  *)
(* the same shape and content are the same state.                          *)
(***************************************************************************)
EXTENDS Integers, Sequences, FiniteSets, SequencesExt, TLC

CONSTANTS Key,                  \* the keys, integers for their order
          RowsOf,               \* the rows that may have a key
          Order,                \* a node has fewer than Order keys
          MaxBatch,             \* bound: the entries of a batch call
          BatchesAnywhere       \* batch insertion into any tree: see HintSafe

None == 0                       \* no node

ASSUME OrderAssumption == Order \in Nat /\ Order >= 3

VARIABLES tree, unique, result

vars == <<tree, unique, result>>

-----------------------------------------------------------------------------
(* Nodes (node.rs).                                                        *)

NewLeaf == [leaf |-> TRUE, keys |-> <<>>, vals |-> <<>>, kids |-> <<>>,
            next |-> None, prev |-> None, parent |-> None]

\* How many keys of a node precede key: where it is, or where it would go.
KeyPosition(node, key) == Cardinality({i \in DOMAIN node.keys : node.keys[i] < key})

HasKey(node, key) ==
  LET at == KeyPosition(node, key) + 1
  IN  at <= Len(node.keys) /\ node.keys[at] = key

\* The rows rs of key put into a leaf, after those the key already has.
InsertAtKey(node, key, rs) ==
  LET at == KeyPosition(node, key) + 1
  IN  IF HasKey(node, key)
        THEN [node EXCEPT !.vals[at] = @ \o rs]
        ELSE [node EXCEPT !.keys = InsertAt(@, at, key), !.vals = InsertAt(@, at, rs)]

\* The leaf with the rows of the at-th key replaced; a key without rows goes.
KeepAtKey(node, at, rs) ==
  IF rs = <<>> THEN [node EXCEPT !.keys = RemoveAt(@, at), !.vals = RemoveAt(@, at)]
               ELSE [node EXCEPT !.vals[at] = rs]

-----------------------------------------------------------------------------
(* Descending (find_child_position, find_leaf, find_leaf_from_hint).       *)

EmptyTree == [nodes |-> 1 :> NewLeaf, root |-> 1, rows |-> 0]

FreshId(T) == CHOOSE i \in 1..(Cardinality(DOMAIN T.nodes) + 1) :
                /\ i \notin DOMAIN T.nodes
                /\ \A j \in 1..(i - 1) : j \in DOMAIN T.nodes

ChildPosition(node, key) ==
  LET upTo == Cardinality({i \in DOMAIN node.keys : node.keys[i] <= key})
  IN  IF upTo < Len(node.kids) THEN upTo + 1 ELSE Len(node.kids)

RECURSIVE Descend(_, _, _)
Descend(T, n, key) ==
  IF T.nodes[n].leaf THEN n
  ELSE Descend(T, T.nodes[n].kids[ChildPosition(T.nodes[n], key)], key)

FindLeaf(T, key) == Descend(T, T.root, key)

RECURSIVE FromHint(_, _, _)
FromHint(T, n, key) ==
  LET here == T.nodes[n]
  IN  IF \/ here.keys = <<>>
         \/ Last(here.keys) >= key
         \/ here.next = None
        THEN n
        ELSE LET there == T.nodes[here.next]
             IN  IF there.keys = <<>> THEN here.next
                 ELSE IF Head(there.keys) <= key THEN FromHint(T, here.next, key)
                 ELSE n

FindLeafFromHint(T, key, hint) ==
  IF hint = None THEN FindLeaf(T, key) ELSE FromHint(T, hint, key)

-----------------------------------------------------------------------------
(* Growing: a full leaf splits, which may split its ancestors.             *)

\* right, already a node, becomes the sibling of left after key.
RECURSIVE InsertIntoParent(_, _, _, _)
InsertIntoParent(T, left, key, right) ==
  LET p == T.nodes[left].parent
      top == FreshId(T)
      at == Cardinality({i \in DOMAIN T.nodes[p].keys : T.nodes[p].keys[i] <= key}) + 1
      grown == [T EXCEPT !.nodes[p].keys = InsertAt(@, at, key),
                         !.nodes[p].kids = InsertAt(@, at + 1, right),
                         !.nodes[right].parent = p]
      full == grown.nodes[p]
      mid == Len(full.keys) \div 2
      new == FreshId(grown)
      upper == [full EXCEPT !.keys = SubSeq(@, mid + 2, Len(@)),
                            !.kids = SubSeq(@, mid + 2, Len(@))]
      split == [grown EXCEPT
                  !.nodes = [n \in DOMAIN @ \cup {new} |->
                     IF n = new THEN upper
                     ELSE IF n = p THEN [full EXCEPT !.keys = SubSeq(@, 1, mid),
                                                     !.kids = SubSeq(@, 1, mid + 1)]
                     ELSE IF \E i \in DOMAIN upper.kids : upper.kids[i] = n
                       THEN [@[n] EXCEPT !.parent = new] ELSE @[n]]]
  IN  IF p = None
        THEN [T EXCEPT !.root = top,
                       !.nodes = top :> [NewLeaf EXCEPT !.leaf = FALSE, !.keys = <<key>>,
                                                        !.kids = <<left, right>>]
                              @@ [@ EXCEPT ![left].parent = top, ![right].parent = top]]
        ELSE IF Len(full.keys) < Order THEN grown
        ELSE InsertIntoParent(split, p, full.keys[mid + 1], new)

\* Mutant: the leaf after the new one keeps its link to the old one.
SplitLeafOneWay(T, n) ==
  LET old == T.nodes[n]
      mid == Len(old.keys) \div 2
      new == FreshId(T)
      upper == [old EXCEPT !.keys = SubSeq(@, mid + 1, Len(@)),
                           !.vals = SubSeq(@, mid + 1, Len(@)), !.prev = n]
      lower == [old EXCEPT !.keys = SubSeq(@, 1, mid), !.vals = SubSeq(@, 1, mid), !.next = new]
  IN  InsertIntoParent([T EXCEPT !.nodes = new :> upper @@ [@ EXCEPT ![n] = lower]],
                       n, Head(upper.keys), new)

SplitLeaf(T, n) ==
  LET old == T.nodes[n]
      mid == Len(old.keys) \div 2
      new == FreshId(T)
      upper == [old EXCEPT !.keys = SubSeq(@, mid + 1, Len(@)),
                           !.vals = SubSeq(@, mid + 1, Len(@)), !.prev = n]
      split == [T EXCEPT !.nodes = new :> upper @@ [m \in DOMAIN @ |->
                  IF m = n THEN [old EXCEPT !.keys = SubSeq(@, 1, mid),
                                            !.vals = SubSeq(@, 1, mid), !.next = new]
                  ELSE IF m = old.next THEN [@[m] EXCEPT !.prev = new] ELSE @[m]]]
  IN  InsertIntoParent(split, n, Head(upper.keys), new)

\* Mutant: stored rows are not counted.
StoreUncounted(T, n, key, rs) ==
  LET stored == [T EXCEPT !.nodes[n] = InsertAtKey(@, key, rs)]
  IN  IF Len(stored.nodes[n].keys) >= Order THEN SplitLeaf(stored, n) ELSE stored

\* The rows rs of key stored in leaf n, split when that fills it.
StoreIn(T, n, key, rs) ==
  LET stored == [T EXCEPT !.nodes[n] = InsertAtKey(@, key, rs), !.rows = @ + Len(rs)]
  IN  IF Len(stored.nodes[n].keys) >= Order THEN SplitLeaf(stored, n) ELSE stored

-----------------------------------------------------------------------------
(* Shrinking (handle_underflow, borrow_from_left, borrow_from_right,       *)
(* merge_nodes).  pos is the place of the left one of the two nodes among  *)
(* the children of parent p.                                               *)

BorrowFromLeft(T, n, left, p, pos) ==
  LET from == T.nodes[left]
      kid == Last(from.kids)
  IN  IF T.nodes[n].leaf
        THEN [T EXCEPT !.nodes[left].keys = Front(@), !.nodes[left].vals = Front(@),
                       !.nodes[n].keys = <<Last(from.keys)>> \o @,
                       !.nodes[n].vals = <<Last(from.vals)>> \o @,
                       !.nodes[p].keys[pos] = Last(from.keys)]
        ELSE [T EXCEPT !.nodes[left].keys = Front(@), !.nodes[left].kids = Front(@),
                       !.nodes[n].keys = <<T.nodes[p].keys[pos]>> \o @,
                       !.nodes[n].kids = <<kid>> \o @,
                       !.nodes[p].keys[pos] = Last(from.keys),
                       !.nodes[kid].parent = n]

\* Mutant: the separator of two leaves stays at the key that was lent.
BorrowKeepingSeparator(T, n, right, p, pos) ==
  LET from == T.nodes[right]
  IN  [T EXCEPT !.nodes[right].keys = Tail(@), !.nodes[right].vals = Tail(@),
                !.nodes[n].keys = Append(@, Head(from.keys)),
                !.nodes[n].vals = Append(@, Head(from.vals)),
                !.nodes[p].keys[pos] = Head(from.keys)]
BorrowFromRight(T, n, right, p, pos) ==
  LET from == T.nodes[right]
      kid == Head(from.kids)
  IN  IF T.nodes[n].leaf
        THEN [T EXCEPT !.nodes[right].keys = Tail(@), !.nodes[right].vals = Tail(@),
                       !.nodes[n].keys = Append(@, Head(from.keys)),
                       !.nodes[n].vals = Append(@, Head(from.vals)),
                       !.nodes[p].keys[pos] = from.keys[2]]
        ELSE [T EXCEPT !.nodes[right].keys = Tail(@), !.nodes[right].kids = Tail(@),
                       !.nodes[n].keys = Append(@, T.nodes[p].keys[pos]),
                       !.nodes[n].kids = Append(@, kid),
                       !.nodes[p].keys[pos] = Head(from.keys),
                       !.nodes[kid].parent = n]

\* left takes over what right has; right leaves the parent and the tree.
MergeNodes(T, left, right, p, pos) ==
  LET L == T.nodes[left]
      R == T.nodes[right]
      merged == IF L.leaf
        THEN [L EXCEPT !.keys = @ \o R.keys, !.vals = @ \o R.vals, !.next = R.next]
        ELSE [L EXCEPT !.keys = Append(@, T.nodes[p].keys[pos]) \o R.keys,
                       !.kids = @ \o R.kids]
      moved == {R.kids[i] : i \in DOMAIN R.kids}
  IN  [T EXCEPT !.nodes = [n \in DOMAIN @ \ {right} |->
         CASE n = left -> merged
           [] n = p -> [@[n] EXCEPT !.keys = RemoveAt(@, pos), !.kids = RemoveAt(@, pos + 1)]
           [] n \in moved -> [@[n] EXCEPT !.parent = left]
           [] L.leaf /\ n = R.next -> [@[n] EXCEPT !.prev = left]
           [] OTHER -> @[n]]]

\* A root with a single child gives way to it.
ReplaceRoot(T, child) ==
  [T EXCEPT !.root = child,
            !.nodes = [n \in DOMAIN @ \ {T.root} |->
                         IF n = child THEN [@[n] EXCEPT !.parent = None] ELSE @[n]]]

RECURSIVE HandleUnderflow(_, _)
HandleUnderflow(T, n) ==
  LET p == T.nodes[n].parent
      minKeys == (Order - 1) \div 2
      kids == T.nodes[p].kids
      pos == CHOOSE i \in DOMAIN kids : kids[i] = n
      CanLend(i) == i \in DOMAIN kids /\ Len(T.nodes[kids[i]].keys) > minKeys
      AfterMerge(left, right, at) ==
        LET M == MergeNodes(T, left, right, p, at)
        IN  IF p # T.root THEN HandleUnderflow(M, p)
            ELSE IF M.nodes[p].keys = <<>> THEN ReplaceRoot(M, left) ELSE M
  IN  IF p = None \/ Len(T.nodes[n].keys) >= minKeys THEN T
      ELSE IF CanLend(pos - 1) THEN BorrowFromLeft(T, n, kids[pos - 1], p, pos - 1)
      ELSE IF CanLend(pos + 1) THEN BorrowFromRight(T, n, kids[pos + 1], p, pos)
      ELSE IF pos > 1 THEN AfterMerge(kids[pos - 1], n, pos - 1)
      ELSE IF pos < Len(kids) THEN AfterMerge(n, kids[pos + 1], pos)
      ELSE T

\* Mutant: a leaf that lost its last key is left as it is.
NeverEmptied(T, n) == FALSE

\* Only a leaf that lost its last key is looked at.
Emptied(T, n) == T.nodes[n].keys = <<>> /\ n # T.root

-----------------------------------------------------------------------------
(* The operations on a tree (insert, delete, add_batch, remove_batch).     *)

Insert(T, key, row) == StoreIn(T, FindLeaf(T, key), key, <<row>>)

\* Without the rows gone of key; the row count drops by what was there.
Delete(T, key, gone) ==
  LET n == FindLeaf(T, key)
      at == KeyPosition(T.nodes[n], key) + 1
      kept == SelectSeq(T.nodes[n].vals[at], LAMBDA r : r \notin gone)
      cut == [T EXCEPT !.nodes[n] = KeepAtKey(@, at, kept),
                       !.rows = @ - (Len(T.nodes[n].vals[at]) - Len(kept))]
  IN  IF ~HasKey(T.nodes[n], key) THEN T
      ELSE IF Emptied(cut, n) THEN HandleUnderflow(cut, n) ELSE cut

\* The keys of a batch in order, each with its rows in the order of the batch.
Ascending(S) ==
  [i \in 1..Cardinality(S) |-> CHOOSE k \in S : Cardinality({l \in S : l < k}) = i - 1]
SortedKeys(batch) == Ascending({e[1] : e \in batch})
RowsIn(batch, key) == Ascending({e[2] : e \in {f \in batch : f[1] = key}})

InsertBatch(T, batch) ==
  LET Step(acc, key) ==
        LET n == FindLeafFromHint(acc.T, key, acc.hint)
            stored == StoreIn(acc.T, n, key, RowsIn(batch, key))
        IN  [T |-> stored,
             hint |-> IF Cardinality(DOMAIN stored.nodes) # Cardinality(DOMAIN acc.T.nodes)
                        THEN None ELSE n]
  IN  FoldLeft(Step, [T |-> T, hint |-> None], SortedKeys(batch)).T

\* A removed row's place is taken by the last row of its key.
RECURSIVE SwapRemove(_, _)
SwapRemove(rows, gone) ==
  IF gone = <<>> THEN rows
  ELSE LET at == CHOOSE i \in 0..Len(rows) :
                   IF \E j \in DOMAIN rows : rows[j] = Head(gone)
                     THEN i > 0 /\ rows[i] = Head(gone) ELSE i = 0
       IN  SwapRemove(IF at = 0 THEN rows
                      ELSE Front([rows EXCEPT ![at] = Last(rows)]), Tail(gone))

\* The keys are taken out first; leaves left empty are then handled backwards.
DeleteBatch(T, batch) ==
  LET Step(acc, key) ==
        LET n == FindLeaf(acc.T, key)
            node == acc.T.nodes[n]
            at == KeyPosition(node, key) + 1
            kept == SwapRemove(node.vals[at], RowsIn(batch, key))
            cut == [acc.T EXCEPT !.nodes[n] = KeepAtKey(@, at, kept),
                                 !.rows = @ - (Len(node.vals[at]) - Len(kept))]
        IN  IF ~HasKey(node, key) THEN acc
            ELSE [T |-> cut,
                  empty |-> IF Emptied(cut, n) THEN Append(acc.empty, n) ELSE acc.empty]
      Repair(n, R) == IF Emptied(R, n) THEN HandleUnderflow(R, n) ELSE R
      cut == FoldLeft(Step, [T |-> T, empty |-> <<>>], SortedKeys(batch))
  IN  FoldRight(Repair, cut.empty, cut.T)

-----------------------------------------------------------------------------
(* Reading (get, contains_key, the iterator and visit_range).              *)

Get(T, key) ==
  LET node == T.nodes[FindLeaf(T, key)]
  IN  IF HasKey(node, key) THEN node.vals[KeyPosition(node, key) + 1] ELSE <<>>

ContainsKey(T, key) == HasKey(T.nodes[FindLeaf(T, key)], key)

RECURSIVE EdgeLeaf(_, _, _)
EdgeLeaf(T, n, rightmost) ==
  IF T.nodes[n].leaf THEN n
  ELSE EdgeLeaf(T, IF rightmost THEN Last(T.nodes[n].kids) ELSE Head(T.nodes[n].kids), rightmost)

(* A range: "all", "only", "lower", "upper" or "both", with its ends.      *)
KeyRange(kind, lo, loOut, hi, hiOut) ==
  [kind |-> kind, lo |-> lo, loOut |-> loOut, hi |-> hi, hiOut |-> hiOut]

AllRange == KeyRange("all", 0, FALSE, 0, FALSE)
OnlyRanges == {KeyRange("only", k, FALSE, k, FALSE) : k \in Key}
LowerRanges == {KeyRange("lower", k, out, 0, FALSE) : k \in Key, out \in BOOLEAN}
UpperRanges == {KeyRange("upper", 0, FALSE, k, out) : k \in Key, out \in BOOLEAN}
BothRanges == {KeyRange("both", e[1], outLo, e[2], outHi) :
                 e \in {f \in Key \X Key : f[1] < f[2]}, outLo \in BOOLEAN, outHi \in BOOLEAN}

AboveLow(range, key) == IF range.loOut THEN key > range.lo ELSE key >= range.lo
BelowHigh(range, key) == IF range.hiOut THEN key < range.hi ELSE key <= range.hi

InRange(range, key) ==
  /\ range.kind \in {"only", "lower", "both"} => AboveLow(range, key)
  /\ range.kind \in {"only", "upper", "both"} => BelowHigh(range, key)

\* A scan that has left the range on its far side will not enter it again.
KeyPast(range, key, reverse) ==
  IF reverse THEN range.kind \in {"only", "lower", "both"} /\ ~AboveLow(range, key)
             ELSE range.kind \in {"only", "upper", "both"} /\ ~BelowHigh(range, key)

\* Mutant: a scan that starts behind the keys of its leaf does not look at the next one.
ScanStartHere(T, range, reverse) ==
  LET end == EdgeLeaf(T, T.root, reverse)
      EndOf(n) == IF T.nodes[n].keys = <<>> THEN <<None, 0>>
                  ELSE <<n, IF reverse THEN Len(T.nodes[n].keys) ELSE 1>>
      n == FindLeaf(T, IF reverse THEN range.hi ELSE range.lo)
      before == KeyPosition(T.nodes[n], IF reverse THEN range.hi ELSE range.lo)
  IN  IF range.kind \in {"all", IF reverse THEN "lower" ELSE "upper"} THEN EndOf(end)
      ELSE IF reverse THEN IF before > 0 THEN <<n, before>> ELSE <<None, 0>>
      ELSE IF before < Len(T.nodes[n].keys) THEN <<n, before + 1>> ELSE <<None, 0>>

\* Where a scan starts: <<leaf, index>>, or <<None, 0>> when nothing can be in it.
ScanStart(T, range, reverse) ==
  LET end == EdgeLeaf(T, T.root, reverse)
      EndOf(n) == IF T.nodes[n].keys = <<>> THEN <<None, 0>>
                  ELSE <<n, IF reverse THEN Len(T.nodes[n].keys) ELSE 1>>
      n == FindLeaf(T, IF reverse THEN range.hi ELSE range.lo)
      before == KeyPosition(T.nodes[n], IF reverse THEN range.hi ELSE range.lo)
  IN  IF range.kind \in {"all", IF reverse THEN "lower" ELSE "upper"} THEN EndOf(end)
      ELSE IF reverse
        THEN IF before > 0 THEN <<n, before>>
             ELSE IF T.nodes[n].prev # None THEN EndOf(T.nodes[n].prev) ELSE <<None, 0>>
        ELSE IF before < Len(T.nodes[n].keys) THEN <<n, before + 1>>
             ELSE IF T.nodes[n].next # None THEN <<T.nodes[n].next, 1>> ELSE <<None, 0>>

\* The rows a scan visits from <<n, i>> on: the iterator stops at an empty leaf.
RECURSIVE ScanFrom(_, _, _, _, _)
ScanFrom(T, range, reverse, n, i) ==
  LET node == T.nodes[n]
      key == node.keys[i]
      after == IF reverse THEN node.prev ELSE node.next
      rest == IF reverse /\ i > 1 THEN ScanFrom(T, range, reverse, n, i - 1)
              ELSE IF ~reverse /\ i < Len(node.keys) THEN ScanFrom(T, range, reverse, n, i + 1)
              ELSE IF after = None THEN <<>>
              ELSE ScanFrom(T, range, reverse, after,
                            IF reverse THEN Len(T.nodes[after].keys) ELSE 1)
  IN  IF n = None \/ i \notin DOMAIN node.keys THEN <<>>
      ELSE IF InRange(range, key) THEN node.vals[i] \o rest
      ELSE IF KeyPast(range, key, reverse) THEN <<>> ELSE rest

\* skip counts rows of the range; limit counts rows given to the visitor.
GetRange(T, range, reverse, limit, skip) ==
  LET start == ScanStart(T, range, reverse)
      rows == IF start[1] = None THEN <<>>
              ELSE ScanFrom(T, range, reverse, start[1], start[2])
  IN  SubSeq(rows, skip + 1, IF skip + limit < Len(rows) THEN skip + limit ELSE Len(rows))

-----------------------------------------------------------------------------
(* A call leaves the tree with its nodes numbered from the root down.      *)

RECURSIVE Preorder(_, _)
Preorder(T, n) ==
  <<n>> \o FlattenSeq([i \in DOMAIN T.nodes[n].kids |-> Preorder(T, T.nodes[n].kids[i])])

Renumbered(T) ==
  LET order == Preorder(T, T.root)
      New(n) == IF n = None THEN None ELSE CHOOSE i \in DOMAIN order : order[i] = n
  IN  [T EXCEPT !.root = 1,
         !.nodes = [i \in DOMAIN order |->
            LET node == T.nodes[order[i]]
            IN  [node EXCEPT !.kids = [j \in DOMAIN @ |-> New(@[j])], !.next = New(@),
                             !.prev = New(@), !.parent = New(@)]]]

-----------------------------------------------------------------------------
(* The calls (Index for BTreeIndex).  The store adds an entry once, since  *)
(* a row is stored once, and removes entries it may or may not have.       *)

LeafIds == {n \in DOMAIN tree.nodes : tree.nodes[n].leaf}
LeafEntries(n) ==
  LET node == tree.nodes[n]
  IN  UNION {{<<node.keys[i], node.vals[i][j]>> : j \in DOMAIN node.vals[i]} :
               i \in DOMAIN node.keys}
Entries == UNION {LeafEntries(n) : n \in LeafIds}

AllEntries == UNION {{<<k, r>> : r \in RowsOf[k]} : k \in Key}

(* Every separator is the first key to its right.  A tree that only grew   *)
(* is like this; a removal of that first key ends it, and then the leaf    *)
(* hint of a batch and the descent from the root may lead a key to         *)
(* different leaves.                                                       *)
HintSafe ==
  \A n \in DOMAIN tree.nodes : \A i \in DOMAIN tree.nodes[n].keys :
     ~tree.nodes[n].leaf =>
        LET first == EdgeLeaf(tree, tree.nodes[n].kids[i + 1], FALSE)
        IN  tree.nodes[first].keys # <<>> /\ tree.nodes[n].keys[i] = Head(tree.nodes[first].keys)

Init == tree = EmptyTree /\ unique \in BOOLEAN /\ result = "ok"

Add(key, row) ==
  /\ <<key, row>> \notin Entries
  /\ UNCHANGED unique
  /\ \/ /\ unique /\ ContainsKey(tree, key)
        /\ result' = "duplicate"
        /\ UNCHANGED tree
     \/ /\ ~(unique /\ ContainsKey(tree, key))
        /\ result' = "ok"
        /\ tree' = Renumbered(Insert(tree, key, row))

\* Mutant: the first entries of a refused batch are in the tree.
AddBatchPartly(batch) ==
  LET free == {e \in batch : ~ContainsKey(tree, e[1])}
      refused == free # batch \/ \E e, f \in batch : e # f /\ e[1] = f[1]
  IN  /\ batch \cap Entries = {}
      /\ BatchesAnywhere \/ HintSafe
      /\ UNCHANGED unique
      /\ result' = IF unique /\ refused THEN "duplicate" ELSE "ok"
      /\ tree' = Renumbered(InsertBatch(tree, IF unique THEN free ELSE batch))

AddBatch(batch) ==
  LET repeated == \E e, f \in batch : e # f /\ e[1] = f[1]
      stored == \E e \in batch : ContainsKey(tree, e[1])
  IN  /\ batch \cap Entries = {}
      /\ BatchesAnywhere \/ HintSafe
      /\ UNCHANGED unique
      /\ \/ /\ unique /\ (repeated \/ stored)
            /\ result' = "duplicate"
            /\ UNCHANGED tree
         \/ /\ ~(unique /\ (repeated \/ stored))
            /\ result' = "ok"
            /\ tree' = Renumbered(InsertBatch(tree, batch))

\* The rows of the key are removed first, so that the insertion succeeds.
Set(key, row) ==
  /\ tree' = Renumbered(Insert(Delete(tree, key, RowsOf[key]), key, row))
  /\ result' = "ok"
  /\ UNCHANGED unique

\* One row of the key, or with no row given all of them.
RemoveKey(key, gone) ==
  /\ tree' = Renumbered(Delete(tree, key, gone))
  /\ result' = "ok"
  /\ UNCHANGED unique

RemoveBatch(batch) ==
  /\ tree' = Renumbered(DeleteBatch(tree, batch))
  /\ result' = "ok"
  /\ UNCHANGED unique

Clear == tree' = EmptyTree /\ result' = "ok" /\ UNCHANGED unique

Batches == {b \in SUBSET AllEntries : b # {} /\ Cardinality(b) <= MaxBatch}

Next ==
  \/ \E key \in Key : \E row \in RowsOf[key] :
       Add(key, row) \/ Set(key, row) \/ RemoveKey(key, {row})
  \/ \E key \in Key : RemoveKey(key, RowsOf[key])
  \/ \E batch \in Batches : AddBatch(batch) \/ RemoveBatch(batch)
  \/ Clear

Spec == Init /\ [][Next]_vars

-----------------------------------------------------------------------------
(* Properties.                                                             *)

\* The tree is a record of well-typed nodes and links.
TypeOK ==
  /\ unique \in BOOLEAN /\ result \in {"ok", "duplicate"}
  /\ tree.rows \in Nat /\ tree.root \in DOMAIN tree.nodes
  /\ \A n \in DOMAIN tree.nodes :
       LET node == tree.nodes[n]
       IN  /\ DOMAIN node = DOMAIN NewLeaf
           /\ {node.next, node.prev, node.parent} \subseteq DOMAIN tree.nodes \cup {None}
           /\ \A i \in DOMAIN node.keys : node.keys[i] \in Key
           /\ \A i \in DOMAIN node.kids : node.kids[i] \in DOMAIN tree.nodes

RECURSIVE LeavesUnder(_), Depth(_)
LeavesUnder(n) ==
  IF tree.nodes[n].leaf THEN <<n>>
  ELSE FlattenSeq([i \in DOMAIN tree.nodes[n].kids |-> LeavesUnder(tree.nodes[n].kids[i])])
Depth(n) == IF tree.nodes[n].parent = None THEN 0 ELSE 1 + Depth(tree.nodes[n].parent)

(* Splits, borrowing and merging keep the tree in shape: children know     *)
(* their parent, an inner node has one child more than keys, no node is    *)
(* full, only the root leaf is empty, all leaves are equally deep, and the *)
(* chain of leaves is their order in the tree in both directions.          *)
WellFormed ==
  LET leaves == LeavesUnder(tree.root)
      Linked(i) ==
        /\ tree.nodes[leaves[i]].next = IF i < Len(leaves) THEN leaves[i + 1] ELSE None
        /\ tree.nodes[leaves[i]].prev = IF i > 1 THEN leaves[i - 1] ELSE None
  IN  /\ {leaves[i] : i \in DOMAIN leaves} = LeafIds
      /\ \A i \in DOMAIN leaves : Linked(i) /\ Depth(leaves[i]) = Depth(leaves[1])
      /\ \A n \in DOMAIN tree.nodes :
           LET node == tree.nodes[n]
           IN  /\ Len(node.keys) < Order
               /\ node.keys = <<>> => n = tree.root
               /\ node.leaf \/ Len(node.kids) = Len(node.keys) + 1
               /\ \A i \in DOMAIN node.kids : tree.nodes[node.kids[i]].parent = n
               /\ node.parent = None <=> n = tree.root

(* Every key is in the one leaf to which the descent from the root leads,  *)
(* the keys are in ascending order along the leaves, and the row count is  *)
(* that of the stored rows: a stored row is found by its key.              *)
Reachable ==
  /\ \A n \in LeafIds : \A i \in DOMAIN tree.nodes[n].keys :
       FindLeaf(tree, tree.nodes[n].keys[i]) = n
  /\ \A key \in Key : Cardinality({n \in LeafIds : HasKey(tree.nodes[n], key)}) <= 1
  /\ \A n \in DOMAIN tree.nodes : \A i \in DOMAIN tree.nodes[n].keys :
       i > 1 => tree.nodes[n].keys[i - 1] < tree.nodes[n].keys[i]
  /\ tree.rows = Cardinality(Entries)

\* What a range scan should give: the rows of the keys in the range, in key order.
RangeRows(range, reverse) ==
  LET keys == Ascending({k \in Key : InRange(range, k)})
      inOrder == IF reverse THEN Reverse(keys) ELSE keys
  IN  FlattenSeq([i \in DOMAIN keys |-> Get(tree, inOrder[i])])

ScanExact(range, reverse) ==
  LET rows == RangeRows(range, reverse)
  IN  /\ GetRange(tree, range, reverse, Len(rows), 0) = rows
      /\ range.kind # "both" =>
           /\ GetRange(tree, range, reverse, 1, 1) = IF Len(rows) < 2 THEN <<>> ELSE <<rows[2]>>
           /\ GetRange(tree, range, reverse, Len(rows), 1) = IF rows = <<>> THEN <<>> ELSE Tail(rows)

\* A scan upwards visits exactly the rows of the range, in order, and cuts them
\* to the limit after the skipped ones, whatever was split and merged before.
ForwardRangesExact ==
  \A range \in {AllRange} \cup OnlyRanges \cup LowerRanges \cup UpperRanges \cup BothRanges :
     ScanExact(range, FALSE)

\* A scan downwards does so from the end of the tree or from an excluded key.
ReverseRangesExact ==
  \A range \in {AllRange} \cup LowerRanges \cup {b \in UpperRanges \cup BothRanges : b.hiOut} :
     ScanExact(range, TRUE)

(* "Visits row IDs within the given key range" (tree.rs, visit_range): a   *)
(* scan downwards from an included key visits that key's rows as well.     *)
ReverseFromIncluded ==
  \A range \in OnlyRanges \cup {b \in UpperRanges : ~b.hiOut} :
     GetRange(tree, range, TRUE, 99, 0) = RangeRows(range, TRUE)

(* The tree is an index: every call changes the set of entries as the      *)
(* contract says and returns what it says.                                 *)
Contract == INSTANCE KeyIndex WITH Batch <- Batches, entries <- Entries
TreeImplementsIndex == Contract!Spec
=============================================================================
