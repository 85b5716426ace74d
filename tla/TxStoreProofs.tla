--------------------------- MODULE TxStoreProofs ---------------------------
(***************************************************************************)
(* Proofs about TxStore, for any number of transactions, rows, contents    *)
(* and indexes and journals of any length.                                 *)
(*                                                                         *)
(* That a rollback restores what was there at begin is not a fact about    *)
(* one state: every entry of the journal describes a table that is gone.   *)
(* The inductive invariant therefore says that a history of tables exists, *)
(* from the table at begin to the table now, that the journal describes    *)
(* step by step on the rows that nobody else wrote, and the replay is      *)
(* shown to walk this history backwards.                                   *)
(***************************************************************************)
EXTENDS TxStore, Iteration, TLAPS

Tables == UNION {[D -> Content] : D \in SUBSET RowId}

\* At most one row for each key of each constrained index.
KeyUnique(R) == \A ix \in Constrained : \A x, y \in DOMAIN R : x # y => Keys[ix][R[x]] # Keys[ix][R[y]]

\* The rows of R that nobody of F wrote.
Own(R, F) == [x \in DOMAIN R \ F |-> R[x]]

\* Undoing entry e leads from one table back to the one before it.
Undoes(e, after, before, F) ==
  IF e.id \in F THEN before = after
  ELSE IF e.kind = "insert" THEN before = Drop(after, e.id)
  ELSE /\ e.kind = "update" <=> e.id \in DOMAIN after
       /\ before = Put(after, e.id, e.c)

\* h leads from the table b at begin to the table R now, as the journal es says.
History(h, es, b, R, F) ==
  /\ h \in [0..Len(es) -> Tables]
  /\ h[0] = [x \in DOMAIN b \ F |-> b[x].c]
  /\ h[Len(es)] = Own(R, F)
  /\ \A k \in 0..Len(es) : DOMAIN h[k] \cap F = {} /\ KeyUnique(h[k])
  /\ \A n \in 1..Len(es) : Undoes(es[n], h[n], h[n - 1], F)

Recorded(t) ==
  \E h \in [0..Len(entries[t]) -> Tables] : History(h, entries[t], begun[t], rows, foreign[t])

\* What a transaction keeps is empty before it begins and after it has ended.
Idle == \A t \in Tx : status[t] # "active" => entries[t] = <<>> /\ diff[t] = NoDiff /\ foreign[t] = {}

IInv ==
  /\ TypeOK
  /\ KeyUnique(rows)
  /\ Idle
  /\ \A t \in Active : Recorded(t)

-----------------------------------------------------------------------------
(* Tables and writes. *)

(* A table is what TypeOK says of rows. *)
LEMMA TableFacts ==
  ASSUME NEW R
  PROVE  R \in Tables <=> PartlyTo(R, Content)
BY DEF Tables, PartlyTo

(* Removing and replacing a row, and setting rows aside, keep a table.     *)
LEMMA TableWrites ==
  ASSUME NEW R \in Tables, NEW id \in RowId, NEW c \in Content, NEW F
  PROVE  Drop(R, id) \in Tables /\ Put(R, id, c) \in Tables /\ Own(R, F) \in Tables
<1>1. PartlyTo(R, Content)
  BY TableFacts
<1>2. PartlyTo(Drop(R, id), Content)
  BY <1>1 DEF PartlyTo, Drop
<1>3. PartlyTo(Put(R, id, c), Content)
  BY <1>1 DEF PartlyTo, Put
<1>4. PartlyTo(Own(R, F), Content)
  BY <1>1 DEF PartlyTo, Own
<1> QED BY <1>2, <1>3, <1>4, TableFacts

(* Setting rows aside keeps keys unique; so does removing a row, and       *)
(* storing one whose keys no other row has.                                *)
LEMMA UniqueWrites ==
  ASSUME NEW R \in Tables, KeyUnique(R), NEW id \in RowId, NEW c \in Content, NEW F
  PROVE  /\ KeyUnique(Drop(R, id)) /\ KeyUnique(Own(R, F))
         /\ T!Fits(R, id, c) => KeyUnique(Put(R, id, c))
<1>1. KeyUnique(Drop(R, id)) /\ KeyUnique(Own(R, F))
  BY DEF KeyUnique, Drop, Own
<1>2. ASSUME T!Fits(R, id, c) PROVE KeyUnique(Put(R, id, c))
  BY <1>2 DEF KeyUnique, Put, T!Fits, T!Clash, T!Constrained, Constrained
<1> QED BY <1>1, <1>2

(* A refused write names the index it violates. *)
LEMMA ViolatedFacts ==
  ASSUME NEW R, NEW id, NEW c, ~T!Fits(R, id, c)
  PROVE  T!Violated(R, id, c) \in Constrained
<1>1. CASE \E p \in Pk : T!Clash(R, p, id, c)
  BY <1>1 DEF T!Violated, Constrained
<1>2. CASE ~\E p \in Pk : T!Clash(R, p, id, c)
  <2> DEFINE Bad == {j \in DOMAIN Sec : Sec[j] \in Unique /\ T!Clash(R, Sec[j], id, c)}
             Least(j) == /\ Sec[j] \in Unique /\ T!Clash(R, Sec[j], id, c)
                         /\ \A i \in 1..(j - 1) : ~(Sec[i] \in Unique /\ T!Clash(R, Sec[i], id, c))
  <2>1. PICK ix \in Constrained : T!Clash(R, ix, id, c)
    BY DEF T!Fits, T!Constrained, Constrained
  <2>2. ix \in Unique
    BY <1>2, <2>1 DEF Constrained
  <2>3. DOMAIN Sec = 1..Len(Sec) /\ Len(Sec) \in Nat
    BY IndexAssumption
  <2>4. Bad # {} /\ Bad \subseteq Nat
    BY <2>1, <2>2, <2>3, IndexAssumption
  <2>5. PICK m \in Bad : \A n \in Bad : m <= n
    BY <2>4, LeastNatural
  <2>6. \A i \in 1..(m - 1) : i \in DOMAIN Sec /\ i \notin Bad
    BY <2>3, <2>5
  <2>7. m \in DOMAIN Sec /\ Least(m)
    BY <2>5, <2>6
  <2>8. T!Violated(R, id, c) = Sec[CHOOSE j \in DOMAIN Sec : Least(j)]
    BY <1>2 DEF T!Violated
  <2> HIDE DEF Least
  <2>9. (CHOOSE j \in DOMAIN Sec : Least(j)) \in DOMAIN Sec /\ Least(CHOOSE j \in DOMAIN Sec : Least(j))
    BY <2>7, Zenon
  <2>10. Sec[CHOOSE j \in DOMAIN Sec : Least(j)] \in Unique
    BY <2>9 DEF Least
  <2> QED BY <2>8, <2>10 DEF Constrained
<1> QED BY <1>1, <1>2

(* An index name is not "ok": a refused write is told from an accepted one. *)
LEMMA NamesAreNotOk ==
  \A ix \in Constrained : ix \notin {"ok", "id_exists", "not_found", "overflow"}
BY OutcomeAssumption, IndexAssumption DEF Constrained, IndexName, Columns

(* An insert is accepted or changes nothing. *)
LEMMA InsertEffect ==
  ASSUME NEW id, NEW c, InsertRow(id, c)
  PROVE  \/ /\ result' = "ok" /\ id \notin DOMAIN rows /\ T!Fits(rows, id, c)
            /\ rows' = Put(rows, id, c) /\ version' = Put(version, id, 1)
         \/ /\ result' \in Constrained \cup {"id_exists"} /\ result' # "ok"
            /\ rows' = rows /\ version' = version
<1>1. CASE id \in DOMAIN rows
  BY <1>1 DEF InsertRow, T!Insert, T!Verdict
<1>2. CASE id \notin DOMAIN rows /\ ~T!Fits(rows, id, c)
  BY <1>2, ViolatedFacts, NamesAreNotOk DEF InsertRow, T!Insert, T!Verdict
<1>3. CASE id \notin DOMAIN rows /\ T!Fits(rows, id, c)
  BY <1>3 DEF InsertRow, T!Insert, T!Verdict, T!With, Put
<1> QED BY <1>1, <1>2, <1>3

(* An update is accepted or changes nothing. *)
LEMMA UpdateEffect ==
  ASSUME NEW id, NEW c, UpdateRow(id, c)
  PROVE  \/ /\ result' = "ok" /\ id \in DOMAIN rows /\ T!Fits(rows, id, c)
            /\ rows' = Put(rows, id, c)
            /\ version' = Put(version, id, NextVersion(version[id]))
         \/ /\ result' \in Constrained \cup {"not_found"} /\ result' # "ok"
            /\ rows' = rows /\ version' = version
<1>1. CASE id \notin DOMAIN rows
  BY <1>1 DEF UpdateRow, T!Update
<1>2. CASE id \in DOMAIN rows /\ ~T!Fits(rows, id, c)
  BY <1>2, ViolatedFacts, NamesAreNotOk DEF UpdateRow, T!Update
<1>3. CASE id \in DOMAIN rows /\ T!Fits(rows, id, c)
  BY <1>3 DEF UpdateRow, T!Update, T!With, Put
<1> QED BY <1>1, <1>2, <1>3

(* A delete removes the row if it is there. *)
LEMMA DeleteEffect ==
  ASSUME NEW id, DeleteRow(id)
  PROVE  /\ rows' = Drop(rows, id) /\ version' = Drop(version, id)
         /\ result' = IF id \in DOMAIN rows THEN "ok" ELSE "not_found"
BY DEF DeleteRow, T!Delete, T!Without, Drop

-----------------------------------------------------------------------------
(* The replay of a journal. *)

Start == [rows |-> rows, version |-> version, overflow |-> FALSE]

(* UndoneTo is the function its recursive definition describes: one exists *)
(* up to every position of the journal, extended entry by entry.           *)
LEMMA UndoneToDef ==
  ASSUME NEW es, Len(es) \in Nat
  PROVE  /\ UndoneTo(es)[0] = Start
         /\ \A k \in 1..Len(es) : UndoneTo(es)[k] = Undo(UndoneTo(es)[k - 1], es[Len(es) - k + 1])
<1> DEFINE N == Len(es)
           At(g, k) == IF k = 0 THEN Start ELSE Undo(g[k - 1], es[N - k + 1])
           Fits(g, n) == g = [k \in 0..n |-> At(g, k)]
           Missing == {n \in 0..N : ~\E g : Fits(g, n)}
<1> HIDE DEF At
<1>1. Missing = {}
  <2> SUFFICES ASSUME Missing # {} PROVE FALSE
    OBVIOUS
  <2>1. Missing \subseteq Nat
    OBVIOUS
  <2>2. PICK m \in Missing : \A n \in Missing : m <= n
    BY <2>1, LeastNatural, Zenon
  <2>3. CASE m = 0
    <3> DEFINE g == [k \in 0..0 |-> Start]
    <3>1. Fits(g, 0)
      BY DEF At
    <3> QED BY <2>2, <2>3, <3>1
  <2>4. CASE m # 0
    <3>1. m \in 0..N /\ m - 1 \in 0..N /\ m - 1 \notin Missing
      BY <2>2, <2>4
    <3>2. PICK g : Fits(g, m - 1)
      BY <3>1
    <3> DEFINE h == [k \in 0..m |-> IF k < m THEN g[k] ELSE Undo(g[m - 1], es[N - m + 1])]
    <3>3. \A k \in 0..m : h[k] = At(h, k)
      <4> TAKE k \in 0..m
      <4>1. CASE k < m
        <5>1. h[k] = g[k] /\ g[k] = At(g, k)
          BY <3>1, <3>2, <4>1
        <5>2. k = 0 \/ (k - 1 \in 0..m /\ k - 1 < m /\ h[k - 1] = g[k - 1])
          BY <3>1, <4>1
        <5> QED BY <5>1, <5>2 DEF At
      <4>2. CASE k = m
        <5>1. h[k - 1] = g[m - 1] /\ h[k] = Undo(g[m - 1], es[N - m + 1])
          BY <2>4, <3>1, <4>2
        <5> QED BY <2>4, <4>2, <5>1 DEF At
      <4> QED BY <3>1, <4>1, <4>2
    <3>4. Fits(h, m)
      BY <3>3
    <3> QED BY <2>2, <3>1, <3>4
  <2> QED BY <2>3, <2>4
<1>2. \E g : Fits(g, N)
  BY <1>1
<1>3. UndoneTo(es) = CHOOSE g : g = [k \in 0..N |-> IF k = 0 THEN Start ELSE Undo(g[k - 1], es[N - k + 1])]
  BY DEF UndoneTo, Start
<1>4. UndoneTo(es) = CHOOSE g : Fits(g, N)
  BY <1>3 DEF At
<1>5. Fits(UndoneTo(es), N)
  BY <1>2, <1>4, Zenon
<1>6. \A k \in 0..N : UndoneTo(es)[k] = At(UndoneTo(es), k)
  BY <1>5
<1>7. N \in Nat /\ 0 \in 0..N
  OBVIOUS
<1> QED BY <1>6, <1>7 DEF At

\* What the replay works on.
Replaying(s) ==
  /\ s = [rows |-> s.rows, version |-> s.version, overflow |-> s.overflow]
  /\ s.rows \in Tables /\ KeyUnique(s.rows)
  /\ s.version \in [DOMAIN s.rows -> Version]
  /\ s.overflow \in BOOLEAN

(* Undoing an entry, by its effect: the replay has stopped, or the entry is *)
(* undone or, where the store refuses it, skipped.                         *)
LEMMA UndoEffect ==
  ASSUME NEW s, Replaying(s), NEW e \in Entry
  PROVE  /\ Replaying(Undo(s, e))
         /\ s.overflow => Undo(s, e) = s
         /\ ~s.overflow =>
              \/ Undo(s, e).overflow
              \/ e.kind = "insert" /\ Undo(s, e).rows = Drop(s.rows, e.id)
              \/ /\ e.kind # "insert"
                 /\ (e.kind = "update" <=> e.id \in DOMAIN s.rows) /\ T!Fits(s.rows, e.id, e.c)
                 /\ Undo(s, e).rows = Put(s.rows, e.id, e.c)
              \/ /\ e.kind # "insert" /\ Undo(s, e) = s
                 /\ ~((e.kind = "update" <=> e.id \in DOMAIN s.rows) /\ T!Fits(s.rows, e.id, e.c))
<1>1. e.id \in RowId /\ e.c \in Content /\ e.v \in Version /\ e.kind \in {"insert", "update", "delete"}
  BY DEF Entry
<1>2. CASE s.overflow
  BY <1>2 DEF Undo, Replaying
<1>3. CASE ~s.overflow /\ e.kind = "insert"
  <2>1. Undo(s, e) = [rows |-> Drop(s.rows, e.id), version |-> Drop(s.version, e.id), overflow |-> FALSE]
    BY <1>3 DEF Undo, UndoInsert, Replaying
  <2>2. Drop(s.rows, e.id) \in Tables /\ KeyUnique(Drop(s.rows, e.id))
    BY <1>1, TableWrites, UniqueWrites DEF Replaying
  <2>3. Drop(s.version, e.id) \in [DOMAIN Drop(s.rows, e.id) -> Version]
    BY DEF Drop, Replaying
  <2> QED BY <1>3, <2>1, <2>2, <2>3 DEF Replaying
<1>4. ASSUME ~s.overflow, T!Fits(s.rows, e.id, e.c), NEW v \in Version,
             Undo(s, e) = [rows |-> Put(s.rows, e.id, e.c), version |-> Put(s.version, e.id, v), overflow |-> FALSE]
      PROVE  Replaying(Undo(s, e)) /\ Undo(s, e).rows = Put(s.rows, e.id, e.c)
  <2>1. Put(s.rows, e.id, e.c) \in Tables /\ KeyUnique(Put(s.rows, e.id, e.c))
    BY <1>1, <1>4, TableWrites, UniqueWrites DEF Replaying
  <2>2. Put(s.version, e.id, v) \in [DOMAIN Put(s.rows, e.id, e.c) -> Version]
    BY <1>4 DEF Put, Replaying
  <2> QED BY <1>4, <2>1, <2>2 DEF Replaying
<1>5. CASE ~s.overflow /\ e.kind = "update"
  <2>1. CASE e.v = MaxVersion
    BY <1>5, <2>1 DEF Undo, UndoUpdate, Replaying
  <2>2. CASE e.v # MaxVersion /\ e.id \in DOMAIN s.rows /\ T!Fits(s.rows, e.id, e.c)
    <3>1. e.v + 1 \in Version
      BY <1>1, <2>2, VersionAssumption DEF Version
    <3>2. Undo(s, e) = [rows |-> Put(s.rows, e.id, e.c), version |-> Put(s.version, e.id, e.v + 1), overflow |-> FALSE]
      BY <1>5, <2>2 DEF Undo, UndoUpdate, Replaying
    <3>3. Replaying(Undo(s, e)) /\ Undo(s, e).rows = Put(s.rows, e.id, e.c)
      BY <1>4, <1>5, <2>2, <3>1, <3>2
    <3> QED BY <1>5, <2>2, <3>3
  <2>3. CASE e.v # MaxVersion /\ ~(e.id \in DOMAIN s.rows /\ T!Fits(s.rows, e.id, e.c))
    BY <1>5, <2>3 DEF Undo, UndoUpdate
  <2> QED BY <2>1, <2>2, <2>3
<1>6. CASE ~s.overflow /\ e.kind = "delete"
  <2>1. CASE e.id \notin DOMAIN s.rows /\ T!Fits(s.rows, e.id, e.c)
    <3>1. Undo(s, e) = [rows |-> Put(s.rows, e.id, e.c), version |-> Put(s.version, e.id, e.v), overflow |-> FALSE]
      BY <1>6, <2>1 DEF Undo, UndoDelete, Replaying
    <3>2. Replaying(Undo(s, e)) /\ Undo(s, e).rows = Put(s.rows, e.id, e.c)
      BY <1>1, <1>4, <1>6, <2>1, <3>1
    <3> QED BY <1>6, <2>1, <3>2
  <2>2. CASE ~(e.id \notin DOMAIN s.rows /\ T!Fits(s.rows, e.id, e.c))
    BY <1>6, <2>2 DEF Undo, UndoDelete
  <2> QED BY <2>1, <2>2
<1> QED BY <1>1, <1>2, <1>3, <1>5, <1>6 DEF Replaying

(* However far the replay has come, it works on a table with unique keys.  *)
LEMMA ReplayIsTable ==
  ASSUME NEW es \in Seq(Entry), Replaying(Start), NEW k \in 0..Len(es)
  PROVE  Replaying(UndoneTo(es)[k])
<1> DEFINE Bad == {n \in 0..Len(es) : ~Replaying(UndoneTo(es)[n])}
<1>0. Len(es) \in Nat
  OBVIOUS
<1>1. Bad = {}
  <2> SUFFICES ASSUME Bad # {} PROVE FALSE
    OBVIOUS
  <2>1. PICK m \in Bad : \A n \in Bad : m <= n
    <3>1. Bad \subseteq Nat
      OBVIOUS
    <3> QED BY <3>1, LeastNatural, Zenon
  <2>2. m # 0
    BY <1>0, <2>1, UndoneToDef
  <2>3. m \in 1..Len(es) /\ m - 1 \in 0..Len(es) /\ m - 1 \notin Bad
    BY <2>1, <2>2
  <2>4. es[Len(es) - m + 1] \in Entry
    BY <1>0, <2>3
  <2>5. UndoneTo(es)[m] = Undo(UndoneTo(es)[m - 1], es[Len(es) - m + 1])
    BY <1>0, <2>3, UndoneToDef
  <2> QED BY <2>1, <2>3, <2>4, <2>5, UndoEffect
<1> QED BY <1>1

-----------------------------------------------------------------------------
(* The history behind a journal. *)

(* At begin the journal is empty and the history is the table of that      *)
(* moment.                                                                 *)
LEMMA HistoryBegins ==
  ASSUME NEW R \in Tables, KeyUnique(R), NEW b, DOMAIN b = DOMAIN R, \A x \in DOMAIN R : b[x].c = R[x]
  PROVE  \E h \in [0..0 -> Tables] : History(h, <<>>, b, R, {})
<1> DEFINE h == [k \in 0..0 |-> Own(R, {})]
<1>1. Own(R, {}) \in Tables /\ KeyUnique(Own(R, {}))
  <2>1. Own(R, {}) = R
    BY TableFacts DEF Own, PartlyTo
  <2> QED BY <2>1
<1>2. h \in [0..0 -> Tables] /\ h[0] = Own(R, {}) /\ Len(<<>>) = 0
  BY <1>1
<1>3. Own(R, {}) = [x \in DOMAIN b \ {} |-> b[x].c]
  BY DEF Own
<1>4. History(h, <<>>, b, R, {})
  BY <1>1, <1>2, <1>3 DEF History
<1> QED BY <1>2, <1>4

(* A write of the transaction itself adds an entry that undoes it, and the *)
(* table after it to the history.                                          *)
LEMMA HistoryRecords ==
  ASSUME NEW es \in Seq(Entry), NEW h, NEW b, NEW F, NEW R \in Tables, History(h, es, b, R, F),
         NEW S \in Tables, KeyUnique(S), NEW e \in Entry, Undoes(e, Own(S, F), Own(R, F), F)
  PROVE  \E g \in [0..Len(Append(es, e)) -> Tables] : History(g, Append(es, e), b, S, F)
<1> DEFINE N == Len(es)
           g == [k \in 0..(N + 1) |-> IF k <= N THEN h[k] ELSE Own(S, F)]
           fs == Append(es, e)
<1>1. N \in Nat /\ Len(fs) = N + 1 /\ fs[N + 1] = e /\ \A n \in 1..N : fs[n] = es[n]
  OBVIOUS
<1>2. Own(S, F) \in Tables /\ KeyUnique(Own(S, F)) /\ DOMAIN Own(S, F) \cap F = {}
  <2>1. Own(S, F) \in Tables
    BY TableFacts DEF PartlyTo, Own
  <2>2. KeyUnique(Own(S, F)) /\ DOMAIN Own(S, F) \cap F = {}
    BY DEF KeyUnique, Own
  <2> QED BY <2>1, <2>2
<1>3. g \in [0..(N + 1) -> Tables]
  BY <1>1, <1>2 DEF History
<1>4. g[0] = h[0] /\ g[N] = h[N] /\ g[N + 1] = Own(S, F)
  BY <1>1
<1>5. \A k \in 0..(N + 1) : DOMAIN g[k] \cap F = {} /\ KeyUnique(g[k])
  BY <1>1, <1>2 DEF History
<1>6. \A n \in 1..(N + 1) : Undoes(fs[n], g[n], g[n - 1], F)
  <2> TAKE n \in 1..(N + 1)
  <2>1. CASE n <= N
    <3>1. n \in 1..N /\ g[n] = h[n] /\ g[n - 1] = h[n - 1] /\ fs[n] = es[n]
      BY <1>1, <2>1
    <3> QED BY <3>1 DEF History
  <2>2. CASE n = N + 1
    <3>1. g[n] = Own(S, F) /\ g[n - 1] = Own(R, F) /\ fs[n] = e
      BY <1>1, <1>4, <2>2 DEF History
    <3> QED BY <3>1
  <2> QED BY <1>1, <2>1, <2>2
<1>7. History(g, fs, b, S, F)
  BY <1>1, <1>3, <1>4, <1>5, <1>6 DEF History
<1> QED BY <1>1, <1>3, <1>7

(* A write of others sets the rows they touched aside in the whole history. *)
LEMMA HistoryDisturbed ==
  ASSUME NEW es \in Seq(Entry), NEW h, NEW b, NEW F, NEW R, History(h, es, b, R, F),
         NEW S, NEW G, F \subseteq G, Own(S, G) = Own(R, G)
  PROVE  \E g \in [0..Len(es) -> Tables] : History(g, es, b, S, G)
<1> DEFINE N == Len(es)
           g == [k \in 0..N |-> Own(h[k], G)]
<1>1. N \in Nat
  OBVIOUS
<1>2. \A k \in 0..N : h[k] \in Tables /\ Own(h[k], G) \in Tables
  BY TableFacts DEF History, PartlyTo, Own
<1>3. g \in [0..N -> Tables] /\ \A k \in 0..N : g[k] = Own(h[k], G)
  BY <1>2
<1>4. g[0] = [x \in DOMAIN b \ G |-> b[x].c]
  <2>1. g[0] = Own([x \in DOMAIN b \ F |-> b[x].c], G)
    BY <1>1, <1>3 DEF History
  <2> QED BY <2>1 DEF Own
<1>5. g[N] = Own(S, G)
  <2>1. g[N] = Own(Own(R, F), G)
    BY <1>1, <1>3 DEF History
  <2>2. Own(Own(R, F), G) = Own(R, G)
    BY DEF Own
  <2> QED BY <2>1, <2>2
<1>6. \A k \in 0..N : DOMAIN g[k] \cap G = {} /\ KeyUnique(g[k])
  BY <1>3 DEF History, KeyUnique, Own
<1>7. \A n \in 1..N : Undoes(es[n], g[n], g[n - 1], G)
  <2> TAKE n \in 1..N
  <2>1. n \in 0..N /\ n - 1 \in 0..N
    BY <1>1
  <2>2. h[n] \in Tables /\ h[n - 1] \in Tables /\ Undoes(es[n], h[n], h[n - 1], F)
    BY <1>2, <2>1 DEF History
  <2>3. Undoes(es[n], Own(h[n], G), Own(h[n - 1], G), G)
    <3>1. CASE es[n].id \in F
      BY <2>2, <3>1 DEF Undoes
    <3>2. CASE es[n].id \in G \ F
      BY <2>2, <3>2 DEF Undoes, Own, Put, Drop
    <3>3. CASE es[n].id \notin G /\ es[n].kind = "insert"
      BY <2>2, <3>3 DEF Undoes, Own, Drop
    <3>4. CASE es[n].id \notin G /\ es[n].kind # "insert"
      BY <2>2, <3>4 DEF Undoes, Own, Put
    <3> QED BY <3>1, <3>2, <3>3, <3>4
  <2> QED BY <1>3, <2>1, <2>3
<1>8. History(g, es, b, S, G)
  BY <1>3, <1>4, <1>5, <1>6, <1>7 DEF History
<1> QED BY <1>3, <1>8

-----------------------------------------------------------------------------
(* The replay walks the history back. *)

\* The replay stands at after, and no row of F has a key of the row to be put back.
StandsAt(s, F, after, before, e) ==
  /\ Replaying(s) /\ ~s.overflow /\ Own(s.rows, F) = after /\ DOMAIN after \cap F = {}
  /\ e \in Entry /\ before \in Tables /\ KeyUnique(before) /\ Undoes(e, after, before, F)
  /\ \A x \in DOMAIN s.rows \cap F, ix \in Constrained :
       x # e.id => Keys[ix][s.rows[x]] # Keys[ix][e.c]

(* One entry: if the replay stands where the history stands, on the rows   *)
(* outside F, and no row of F has a key of the row to be put back, then it  *)
(* stands one step earlier afterwards.                                     *)
LEMMA StepBack ==
  ASSUME NEW F, NEW s, NEW e, NEW after, NEW before,
         StandsAt(s, F, after, before, e), ~Undo(s, e).overflow
  PROVE  /\ Own(Undo(s, e).rows, F) = before
         /\ \A x \in DOMAIN Undo(s, e).rows \cap F :
              \/ x \in DOMAIN s.rows /\ Undo(s, e).rows[x] = s.rows[x]
              \/ x = e.id /\ Undo(s, e).rows[x] = e.c
<1> USE DEF StandsAt
<1>1. e.kind \in {"insert", "update", "delete"} /\ e.id \in RowId
  BY DEF Entry
<1>2. DOMAIN after = DOMAIN s.rows \ F /\ \A x \in DOMAIN after : after[x] = s.rows[x]
  BY DEF Own
<1>3. CASE e.kind = "insert"
  <2>1. Undo(s, e).rows = Drop(s.rows, e.id)
    BY <1>3, UndoEffect
  <2>2. Own(Drop(s.rows, e.id), F) = before
    <3>1. CASE e.id \in F
      <4>1. Own(Drop(s.rows, e.id), F) = Own(s.rows, F)
        BY <3>1 DEF Own, Drop
      <4> QED BY <3>1, <4>1 DEF Undoes
    <3>2. CASE e.id \notin F
      <4>1. Own(Drop(s.rows, e.id), F) = Drop(Own(s.rows, F), e.id)
        BY <3>2 DEF Own, Drop
      <4> QED BY <1>3, <3>2, <4>1 DEF Undoes
    <3> QED BY <3>1, <3>2
  <2> QED BY <2>1, <2>2 DEF Drop
<1>4. CASE e.kind # "insert" /\ e.id \in F
  <2>1. Undo(s, e).rows = Put(s.rows, e.id, e.c) \/ Undo(s, e) = s
    BY <1>4, UndoEffect
  <2>2. before = Own(s.rows, F)
    BY <1>4 DEF Undoes
  <2>3. Own(Put(s.rows, e.id, e.c), F) = Own(s.rows, F)
    BY <1>4 DEF Own, Put
  <2> QED BY <2>1, <2>2, <2>3 DEF Put
<1>5. CASE e.kind # "insert" /\ e.id \notin F
  <2>1. before = Put(after, e.id, e.c) /\ (e.kind = "update" <=> e.id \in DOMAIN after)
    BY <1>5 DEF Undoes
  <2>2. e.kind = "update" <=> e.id \in DOMAIN s.rows
    BY <1>2, <1>5, <2>1
  <2>3. T!Fits(s.rows, e.id, e.c)
    <3> SUFFICES ASSUME NEW ix \in Constrained, NEW x \in DOMAIN s.rows \ {e.id},
                        Keys[ix][s.rows[x]] = Keys[ix][e.c]
                 PROVE  FALSE
      BY DEF T!Fits, T!Clash, T!Constrained, Constrained
    <3>1. x \notin F
      OBVIOUS
    <3>2. x \in DOMAIN before /\ before[x] = s.rows[x] /\ e.id \in DOMAIN before /\ before[e.id] = e.c
      BY <1>2, <2>1, <3>1 DEF Put
    <3> QED BY <3>2 DEF KeyUnique
  <2>4. Undo(s, e).rows = Put(s.rows, e.id, e.c)
    BY <1>5, <2>2, <2>3, UndoEffect
  <2>5. Own(Put(s.rows, e.id, e.c), F) = Put(Own(s.rows, F), e.id, e.c)
    BY <1>5 DEF Own, Put
  <2> QED BY <1>5, <2>1, <2>4, <2>5 DEF Put
<1> QED BY <1>3, <1>4, <1>5

(* After k entries the replay, unless a version overflowed, stands k steps *)
(* back in the history, and the rows of others hold what they held or what *)
(* the journal has for them.                                               *)
LEMMA ReplayWalksBack ==
  ASSUME NEW t \in Tx, entries[t] \in Seq(Entry), Replaying(Start), ~Stolen(t),
         NEW h, History(h, entries[t], begun[t], rows, foreign[t]),
         NEW k \in 0..Len(entries[t])
  PROVE  LET s == UndoneTo(entries[t])[k]
         IN  \/ s.overflow
             \/ /\ Own(s.rows, foreign[t]) = h[Len(entries[t]) - k]
                /\ \A x \in DOMAIN s.rows \cap foreign[t] : s.rows[x] \in HeldBy(t, x)
<1> DEFINE es == entries[t]
           N == Len(es)
           F == foreign[t]
           st(j) == UndoneTo(es)[j]
           Good(j) == \/ st(j).overflow
                      \/ /\ Own(st(j).rows, F) = h[N - j]
                         /\ \A x \in DOMAIN st(j).rows \cap F : st(j).rows[x] \in HeldBy(t, x)
           Bad == {j \in 0..N : ~Good(j)}
<1>0. N \in Nat
  OBVIOUS
<1>1. Good(0)
  <2>1. st(0) = Start /\ Start.rows = rows
    <3>1. UndoneTo(es)[0] = Start
      BY <1>0, UndoneToDef
    <3> QED BY <3>1 DEF Start
  <2>2. Own(rows, F) = h[N - 0]
    BY <1>0 DEF History
  <2>3. \A x \in DOMAIN rows \cap F : rows[x] \in HeldBy(t, x)
    BY DEF HeldBy
  <2> QED BY <2>1, <2>2, <2>3
<1>2. ASSUME NEW j \in 1..N, Good(j - 1) PROVE Good(j)
  <2> DEFINE s == st(j - 1)
             m == N - j + 1
             e == es[m]
  <2>1. j - 1 \in 0..N /\ m \in 1..N /\ N - j = m - 1 /\ N - (j - 1) = m /\ m \in 0..N /\ m - 1 \in 0..N
    BY <1>0
  <2>2. e \in Entry
    BY <1>0, <2>1
  <2>3. Replaying(s)
    BY <2>1, ReplayIsTable
  <2>4. st(j) = Undo(s, e)
    BY <1>0, UndoneToDef
  <2> SUFFICES ASSUME ~st(j).overflow
               PROVE  /\ Own(st(j).rows, F) = h[m - 1]
                      /\ \A x \in DOMAIN st(j).rows \cap F : st(j).rows[x] \in HeldBy(t, x)
    BY <2>1
  <2>5. ~s.overflow
    BY <2>2, <2>3, <2>4, UndoEffect
  <2>6. Own(s.rows, F) = h[m] /\ \A x \in DOMAIN s.rows \cap F : s.rows[x] \in HeldBy(t, x)
    BY <1>2, <2>1, <2>5
  <2>7. /\ h[m] \in Tables /\ h[m - 1] \in Tables /\ KeyUnique(h[m - 1])
        /\ Undoes(e, h[m], h[m - 1], F) /\ DOMAIN h[m] \cap F = {}
    BY <2>1 DEF History
  <2>8. \A x \in DOMAIN s.rows \cap F, ix \in Constrained :
          x # e.id => Keys[ix][s.rows[x]] # Keys[ix][e.c]
    BY <2>1, <2>6 DEF Stolen
  <2>9. /\ Own(Undo(s, e).rows, F) = h[m - 1]
        /\ \A x \in DOMAIN Undo(s, e).rows \cap F :
              \/ x \in DOMAIN s.rows /\ Undo(s, e).rows[x] = s.rows[x]
              \/ x = e.id /\ Undo(s, e).rows[x] = e.c
    <3>1. ~Undo(s, e).overflow
      BY <2>4
    <3>2. StandsAt(s, F, h[m], h[m - 1], e)
      <4> HIDE DEF s, e, m, st, F
      <4> QED BY <2>2, <2>3, <2>5, <2>6, <2>7, <2>8 DEF StandsAt
    <3> HIDE DEF s, e, m, st, F
    <3> QED BY <3>1, <3>2, StepBack
  <2>10. e.c \in HeldBy(t, e.id)
    BY <2>1 DEF HeldBy
  <2> QED BY <2>4, <2>6, <2>9, <2>10
<1>3. Bad = {}
  <2> HIDE DEF Good
  <2> SUFFICES ASSUME Bad # {} PROVE FALSE
    OBVIOUS
  <2>1. PICK m \in Bad : \A n \in Bad : m <= n
    <3>1. Bad \subseteq Nat
      OBVIOUS
    <3> QED BY <3>1, LeastNatural, Zenon
  <2>2. m # 0
    BY <1>1, <2>1
  <2>3. m \in 1..N /\ m - 1 \in 0..N /\ m - 1 \notin Bad
    BY <1>0, <2>1, <2>2
  <2> QED BY <1>2, <2>1, <2>3
<1> QED BY <1>3

-----------------------------------------------------------------------------
(* Types, action by action. *)

\* The store part and the diff part of TypeOK.
StoreOK == rows \in Tables /\ KeyUnique(rows) /\ version \in [DOMAIN rows -> Version]
DiffOK(d) ==
  /\ DOMAIN d = {"added", "modified", "deleted"}
  /\ PartlyTo(d.added, Row) /\ PartlyTo(d.deleted, Row) /\ PartlyTo(d.modified, [old : Row, new : Row])

(* The store stays a table with unique keys through each of its writes.    *)
LEMMA WriteKeepsStore ==
  ASSUME StoreOK, NEW id \in RowId, NEW c \in Content, InsertRow(id, c) \/ UpdateRow(id, c)
  PROVE  StoreOK' /\ result' \in Constrained \cup {"ok", "id_exists", "not_found", "overflow"}
<1>1. Put(rows, id, c) \in Tables /\ (T!Fits(rows, id, c) => KeyUnique(Put(rows, id, c)))
  BY TableWrites, UniqueWrites DEF StoreOK
<1>2. \A v \in Version : Put(version, id, v) \in [DOMAIN Put(rows, id, c) -> Version]
  BY DEF StoreOK, Put
<1>3. 1 \in Version /\ \A v \in Version : NextVersion(v) \in Version
  BY VersionAssumption DEF Version, NextVersion
<1>4. CASE InsertRow(id, c)
  BY <1>1, <1>2, <1>3, <1>4, InsertEffect DEF StoreOK
<1>5. CASE UpdateRow(id, c)
  BY <1>1, <1>2, <1>3, <1>5, UpdateEffect DEF StoreOK
<1> QED BY <1>4, <1>5

(* Also through a delete. *)
LEMMA DeleteKeepsStore ==
  ASSUME StoreOK, NEW id \in RowId, DeleteRow(id)
  PROVE  StoreOK' /\ result' \in Constrained \cup {"ok", "id_exists", "not_found", "overflow"}
<1>1. PartlyTo(rows, Content)
  BY TableFacts DEF StoreOK
<1>2. Drop(rows, id) \in Tables /\ KeyUnique(Drop(rows, id))
  <2>1. PartlyTo(Drop(rows, id), Content)
    BY <1>1 DEF PartlyTo, Drop
  <2>2. KeyUnique(Drop(rows, id))
    BY DEF StoreOK, KeyUnique, Drop
  <2> QED BY <2>1, <2>2, TableFacts
<1>3. Drop(version, id) \in [DOMAIN Drop(rows, id) -> Version]
  BY DEF StoreOK, Drop
<1> QED BY <1>2, <1>3, DeleteEffect DEF StoreOK

(* A stored row with its version. *)
LEMMA StoredFacts ==
  ASSUME StoreOK
  PROVE  PartlyTo(Stored, Row) /\ DOMAIN Stored = DOMAIN rows
         /\ \A x \in DOMAIN rows : Stored[x] = [c |-> rows[x], v |-> version[x]] /\ Stored[x] \in Row
<1>1. PartlyTo(rows, Content)
  BY TableFacts DEF StoreOK
<1> QED BY <1>1 DEF StoreOK, Stored, PartlyTo, Row

(* The three ways to note a change in a diff, by their effect on its maps. *)
LEMMA AddEffect ==
  ASSUME NEW d, DiffOK(d), NEW id \in RowId, NEW r \in Row
  PROVE  /\ DiffOK(Add(d, id, r))
         /\ id \in DOMAIN d.deleted =>
              /\ Add(d, id, r).added = d.added /\ Add(d, id, r).deleted = Drop(d.deleted, id)
              /\ Add(d, id, r).modified = Put(d.modified, id, [old |-> d.deleted[id], new |-> r])
         /\ id \notin DOMAIN d.deleted =>
              /\ Add(d, id, r).added = Put(d.added, id, r)
              /\ Add(d, id, r).deleted = d.deleted /\ Add(d, id, r).modified = d.modified
<1>1. CASE id \in DOMAIN d.deleted
  <2>1. /\ Add(d, id, r).added = d.added /\ Add(d, id, r).deleted = Drop(d.deleted, id)
        /\ Add(d, id, r).modified = Put(d.modified, id, [old |-> d.deleted[id], new |-> r])
        /\ DOMAIN Add(d, id, r) = DOMAIN d
    BY <1>1 DEF Add, DiffOK
  <2>2. d.deleted[id] \in Row
    BY <1>1 DEF DiffOK, PartlyTo
  <2>3. PartlyTo(Put(d.modified, id, [old |-> d.deleted[id], new |-> r]), [old : Row, new : Row])
    BY <2>2 DEF DiffOK, PartlyTo, Put
  <2>4. PartlyTo(Drop(d.deleted, id), Row)
    BY DEF DiffOK, PartlyTo, Drop
  <2> QED BY <1>1, <2>1, <2>3, <2>4 DEF DiffOK
<1>2. CASE id \notin DOMAIN d.deleted
  <2>1. /\ Add(d, id, r).added = Put(d.added, id, r)
        /\ Add(d, id, r).deleted = d.deleted /\ Add(d, id, r).modified = d.modified
        /\ DOMAIN Add(d, id, r) = DOMAIN d
    BY <1>2 DEF Add, DiffOK
  <2>2. PartlyTo(Put(d.added, id, r), Row)
    BY DEF DiffOK, PartlyTo, Put
  <2> QED BY <1>2, <2>1, <2>2 DEF DiffOK
<1> QED BY <1>1, <1>2

(* An update of a row the transaction inserted, updated before, or found. *)
LEMMA ModifyEffect ==
  ASSUME NEW d, DiffOK(d), NEW id \in RowId, NEW old \in Row, NEW new \in Row
  PROVE  /\ DiffOK(Modify(d, id, old, new))
         /\ Modify(d, id, old, new).deleted = d.deleted
         /\ id \in DOMAIN d.added =>
              /\ Modify(d, id, old, new).added = Put(d.added, id, new)
              /\ Modify(d, id, old, new).modified = d.modified
         /\ id \notin DOMAIN d.added =>
              /\ Modify(d, id, old, new).added = d.added
              /\ Modify(d, id, old, new).modified =
                   Put(d.modified, id, [old |-> IF id \in DOMAIN d.modified THEN d.modified[id].old ELSE old,
                                        new |-> new])
<1>1. CASE id \in DOMAIN d.added
  <2>1. /\ Modify(d, id, old, new).added = Put(d.added, id, new)
        /\ Modify(d, id, old, new).deleted = d.deleted /\ Modify(d, id, old, new).modified = d.modified
        /\ DOMAIN Modify(d, id, old, new) = DOMAIN d
    BY <1>1 DEF Modify, DiffOK
  <2>2. PartlyTo(Put(d.added, id, new), Row)
    BY DEF DiffOK, PartlyTo, Put
  <2> QED BY <1>1, <2>1, <2>2 DEF DiffOK
<1>2. CASE id \notin DOMAIN d.added
  <2> DEFINE o == IF id \in DOMAIN d.modified THEN d.modified[id].old ELSE old
  <2>1. /\ Modify(d, id, old, new).modified = Put(d.modified, id, [old |-> o, new |-> new])
        /\ Modify(d, id, old, new).deleted = d.deleted /\ Modify(d, id, old, new).added = d.added
        /\ DOMAIN Modify(d, id, old, new) = DOMAIN d
    BY <1>2 DEF Modify, DiffOK
  <2>2. o \in Row
    BY DEF DiffOK, PartlyTo
  <2>3. PartlyTo(Put(d.modified, id, [old |-> o, new |-> new]), [old : Row, new : Row])
    <3> HIDE DEF o
    <3> QED BY <2>2 DEF DiffOK, PartlyTo, Put
  <2> QED BY <1>2, <2>1, <2>3 DEF DiffOK
<1> QED BY <1>1, <1>2

(* A delete of a row the transaction inserted, updated before, or found. *)
LEMMA RemoveEffect ==
  ASSUME NEW d, DiffOK(d), NEW id \in RowId, NEW r \in Row
  PROVE  /\ DiffOK(Remove(d, id, r))
         /\ id \in DOMAIN d.added =>
              /\ Remove(d, id, r).added = Drop(d.added, id)
              /\ Remove(d, id, r).modified = d.modified /\ Remove(d, id, r).deleted = d.deleted
         /\ id \notin DOMAIN d.added =>
              /\ Remove(d, id, r).added = d.added
              /\ Remove(d, id, r).modified = IF id \in DOMAIN d.modified THEN Drop(d.modified, id) ELSE d.modified
              /\ Remove(d, id, r).deleted =
                   Put(d.deleted, id, IF id \in DOMAIN d.modified THEN d.modified[id].old ELSE r)
<1>1. CASE id \in DOMAIN d.added
  <2>1. /\ Remove(d, id, r).added = Drop(d.added, id)
        /\ Remove(d, id, r).modified = d.modified /\ Remove(d, id, r).deleted = d.deleted
        /\ DOMAIN Remove(d, id, r) = DOMAIN d
    BY <1>1 DEF Remove, DiffOK
  <2>2. PartlyTo(Drop(d.added, id), Row)
    BY DEF DiffOK, PartlyTo, Drop
  <2> QED BY <1>1, <2>1, <2>2 DEF DiffOK
<1>2. CASE id \notin DOMAIN d.added
  <2> DEFINE o == IF id \in DOMAIN d.modified THEN d.modified[id].old ELSE r
  <2>1. /\ Remove(d, id, r).added = d.added /\ DOMAIN Remove(d, id, r) = DOMAIN d
        /\ Remove(d, id, r).modified = IF id \in DOMAIN d.modified THEN Drop(d.modified, id) ELSE d.modified
        /\ Remove(d, id, r).deleted = Put(d.deleted, id, o)
    BY <1>2 DEF Remove, DiffOK
  <2>2. o \in Row
    BY DEF DiffOK, PartlyTo
  <2>3. PartlyTo(Put(d.deleted, id, o), Row)
    <3> HIDE DEF o
    <3> QED BY <2>2 DEF DiffOK, PartlyTo, Put
  <2>4. PartlyTo(Drop(d.modified, id), [old : Row, new : Row])
    BY DEF DiffOK, PartlyTo, Drop
  <2> QED BY <1>2, <2>1, <2>3, <2>4 DEF DiffOK
<1> QED BY <1>1, <1>2

Outcome == Constrained \cup {"ok", "id_exists", "not_found", "overflow"}

(* TypeOK, split into the parts that a step changes. *)
LEMMA TypeParts ==
  KeyUnique(rows) =>
    (TypeOK <=> /\ StoreOK /\ result \in Outcome
                /\ status \in [Tx -> {"idle", "active", "committed", "rolledback"}]
                /\ entries \in [Tx -> Seq(Entry)]
                /\ DOMAIN diff = Tx /\ \A t \in Tx : DiffOK(diff[t])
                /\ DOMAIN begun = Tx /\ \A t \in Tx : PartlyTo(begun[t], Row)
                /\ foreign \in [Tx -> SUBSET RowId])
BY TableFacts DEF TypeOK, StoreOK, DiffOK, Outcome

(* Only row ids are ever noted as written by others. *)
LEMMA ForeignTyped ==
  ASSUME TypeOK, rows' \in Tables, NEW others, ForeignTo(others)
  PROVE  foreign' \in [Tx -> SUBSET RowId]
<1>1. DOMAIN rows \subseteq RowId /\ DOMAIN rows' \subseteq RowId
  BY DEF TypeOK, PartlyTo, Tables
<1>2. Touched \subseteq RowId
  BY <1>1 DEF Touched
<1> QED BY <1>2 DEF ForeignTo, TypeOK

(* A write of a transaction keeps every variable in its type. *)
LEMMA RecordTyped ==
  ASSUME TypeOK, KeyUnique(rows), NEW t \in Tx, NEW kind \in {"insert", "update", "delete"},
         NEW id \in RowId, NEW c \in Content, NEW v \in Version, NEW d, DiffOK(d),
         Record(t, kind, id, c, v, d), StoreOK', result' \in Outcome,
         UNCHANGED <<status, begun>>, ForeignTo(Active \ {t})
  PROVE  TypeOK' /\ KeyUnique(rows)'
<1>1. entries' \in [Tx -> Seq(Entry)] /\ DOMAIN diff' = Tx /\ \A u \in Tx : DiffOK(diff'[u])
  <2>1. CASE result' = "ok"
    <3>1. [kind |-> kind, id |-> id, c |-> c, v |-> v] \in Entry
      BY DEF Entry
    <3>2. Append(entries[t], [kind |-> kind, id |-> id, c |-> c, v |-> v]) \in Seq(Entry)
      BY <3>1 DEF TypeOK
    <3>3. entries' \in [Tx -> Seq(Entry)]
      BY <2>1, <3>2 DEF Record, TypeOK
    <3>4. DOMAIN diff' = Tx /\ \A u \in Tx : DiffOK(diff'[u])
      BY <2>1, TypeParts DEF Record
    <3> QED BY <3>3, <3>4
  <2>2. CASE result' # "ok"
    BY <2>2, TypeParts DEF Record
  <2> QED BY <2>1, <2>2
<1>2. foreign' \in [Tx -> SUBSET RowId]
  BY ForeignTyped DEF StoreOK
<1>3. KeyUnique(rows)'
  BY DEF StoreOK
<1>4. /\ status' \in [Tx -> {"idle", "active", "committed", "rolledback"}]
      /\ DOMAIN begun' = Tx /\ \A u \in Tx : PartlyTo(begun'[u], Row)
  BY DEF TypeOK
<1>5. KeyUnique(rows)' =>
    (TypeOK' <=> /\ StoreOK' /\ result' \in Outcome
                 /\ status' \in [Tx -> {"idle", "active", "committed", "rolledback"}]
                 /\ entries' \in [Tx -> Seq(Entry)]
                 /\ DOMAIN diff' = Tx /\ \A u \in Tx : DiffOK(diff'[u])
                 /\ DOMAIN begun' = Tx /\ \A u \in Tx : PartlyTo(begun'[u], Row)
                 /\ foreign' \in [Tx -> SUBSET RowId])
  BY TableFacts DEF TypeOK, StoreOK, DiffOK, Outcome
<1> QED BY <1>1, <1>2, <1>3, <1>4, <1>5

(* So does the end of a transaction. *)
LEMMA FinishTyped ==
  ASSUME TypeOK, KeyUnique(rows), NEW t \in Tx, NEW s \in {"committed", "rolledback"},
         Finish(t, s), StoreOK', result' \in Outcome
  PROVE  TypeOK' /\ KeyUnique(rows)'
<1>1. entries' \in [Tx -> Seq(Entry)]
  BY DEF Finish, TypeOK
<1>2. DiffOK(NoDiff) /\ PartlyTo(Nothing, Row)
  BY DEF DiffOK, NoDiff, Nothing, PartlyTo
<1>3. DOMAIN diff' = Tx /\ \A u \in Tx : DiffOK(diff'[u])
  <2>1. DOMAIN diff = Tx /\ \A u \in Tx : DiffOK(diff[u])
    BY TypeParts
  <2> QED BY <1>2, <2>1 DEF Finish
<1>4. DOMAIN begun' = Tx /\ \A u \in Tx : PartlyTo(begun'[u], Row)
  BY <1>2 DEF Finish, TypeOK
<1>5. foreign' \in [Tx -> SUBSET RowId]
  BY ForeignTyped DEF StoreOK, Finish
<1>6. status' \in [Tx -> {"idle", "active", "committed", "rolledback"}]
  BY DEF Finish, TypeOK
<1> QED BY <1>1, <1>3, <1>4, <1>5, <1>6, TableFacts DEF TypeOK, StoreOK, DiffOK, Outcome

(* The replay of a journal ends in a table with unique keys. *)
LEMMA RolledBackFacts ==
  ASSUME TypeOK, KeyUnique(rows), NEW t \in Tx
  PROVE  Replaying(Start) /\ Replaying(RolledBack(t))
<1>1. Replaying(Start)
  BY TypeParts DEF Replaying, Start, StoreOK
<1>2. entries[t] \in Seq(Entry) /\ Len(entries[t]) \in 0..Len(entries[t])
  BY DEF TypeOK
<1> QED BY <1>1, <1>2, ReplayIsTable DEF RolledBack

(* Types and unique keys are kept by every step. *)
LEMMA TypeNext ==
  ASSUME TypeOK, KeyUnique(rows), [Next]_vars
  PROVE  TypeOK' /\ KeyUnique(rows)'
<1>0. StoreOK /\ \A t \in Tx : DiffOK(diff[t])
  BY TypeParts
<1>a. /\ PartlyTo(Stored, Row)
      /\ \A x \in DOMAIN rows : /\ x \in RowId /\ rows[x] \in Content /\ version[x] \in Version
                                /\ Stored[x] \in Row
  BY <1>0, StoredFacts, TableFacts DEF StoreOK, PartlyTo
<1>b. 1 \in Version /\ \A v \in Version : NextVersion(v) \in Version
  BY VersionAssumption DEF Version, NextVersion
<1>1. ASSUME NEW t \in Tx, Begin(t) PROVE TypeOK' /\ KeyUnique(rows)'
  <2>1. KeyUnique(rows)'
    BY <1>1 DEF Begin, KeyUnique
  <2>2. status' \in [Tx -> {"idle", "active", "committed", "rolledback"}]
    BY <1>1 DEF Begin, TypeOK
  <2>3. DOMAIN begun' = Tx /\ \A u \in Tx : PartlyTo(begun'[u], Row)
    BY <1>1, <1>a DEF Begin, TypeOK
  <2> QED BY <1>1, <2>1, <2>2, <2>3 DEF Begin, TypeOK
<1>2. ASSUME NEW t \in Tx, Commit(t) PROVE TypeOK' /\ KeyUnique(rows)'
  <2>1. StoreOK' /\ result' \in Outcome
    BY <1>0, <1>2 DEF Commit, StoreOK, KeyUnique, Outcome
  <2> QED BY <1>2, <2>1, FinishTyped DEF Commit
<1>3. ASSUME NEW t \in Tx, Rollback(t) PROVE TypeOK' /\ KeyUnique(rows)'
  <2>1. StoreOK' /\ result' \in Outcome
    BY <1>3, RolledBackFacts DEF Rollback, StoreOK, Replaying, Outcome
  <2> QED BY <1>3, <2>1, FinishTyped DEF Rollback
<1>4. ASSUME NEW t \in Tx, NEW id \in RowId, NEW c \in Content, TxInsert(t, id, c)
      PROVE  TypeOK' /\ KeyUnique(rows)'
  <2>1. StoreOK' /\ result' \in Outcome
    BY <1>0, <1>4, WriteKeepsStore DEF TxInsert, Outcome
  <2>2. [c |-> c, v |-> 1] \in Row
    BY <1>b DEF Row
  <2>3. DiffOK(Add(diff[t], id, [c |-> c, v |-> 1]))
    BY <1>0, <2>2, AddEffect
  <2> QED BY <1>4, <1>b, <2>1, <2>3, RecordTyped DEF TxInsert
<1>5. ASSUME NEW t \in Tx, NEW id \in RowId, NEW c \in Content, TxUpdate(t, id, c)
      PROVE  TypeOK' /\ KeyUnique(rows)'
  <2>1. StoreOK' /\ result' \in Outcome
    BY <1>0, <1>5, WriteKeepsStore DEF TxUpdate, Outcome
  <2>2. NextVersion(version[id]) \in Version /\ [c |-> c, v |-> NextVersion(version[id])] \in Row /\ Stored[id] \in Row
    BY <1>5, <1>a, <1>b DEF Row, TxUpdate
  <2>3. DiffOK(Modify(diff[t], id, Stored[id], [c |-> c, v |-> NextVersion(version[id])]))
    BY <1>0, <2>2, ModifyEffect
  <2>4. rows[id] \in Content
    BY <1>5, <1>a DEF TxUpdate
  <2> QED BY <1>5, <2>1, <2>2, <2>3, <2>4, RecordTyped DEF TxUpdate
<1>6. ASSUME NEW t \in Tx, NEW id \in RowId, TxDelete(t, id) PROVE TypeOK' /\ KeyUnique(rows)'
  <2>1. rows[id] \in Content /\ version[id] \in Version /\ Stored[id] \in Row
    BY <1>6, <1>a DEF TxDelete
  <2>2. StoreOK' /\ result' \in Outcome
    BY <1>0, <1>6, DeleteKeepsStore DEF TxDelete, Outcome
  <2>3. DiffOK(Remove(diff[t], id, Stored[id]))
    BY <1>0, <2>1, RemoveEffect
  <2> QED BY <1>6, <2>1, <2>2, <2>3, RecordTyped DEF TxDelete
<1>7. ASSUME NEW t \in Tx, NEW id \in RowId, TxMiss(t, id) PROVE TypeOK' /\ KeyUnique(rows)'
  <2>1. KeyUnique(rows)'
    BY <1>7 DEF TxMiss, KeyUnique
  <2> QED BY <1>7, <2>1 DEF TxMiss, TypeOK
<1>8. CASE DirectWrite
  <2>1. StoreOK' /\ result' \in Outcome
    <3>1. \E id \in RowId : (\E c \in Content : InsertRow(id, c) \/ UpdateRow(id, c)) \/ DeleteRow(id)
      BY <1>8, ContestedAssumption DEF DirectWrite
    <3>2. CASE \E id \in RowId, c \in Content : InsertRow(id, c) \/ UpdateRow(id, c)
      BY <1>0, <3>2, WriteKeepsStore DEF Outcome
    <3>3. CASE \E id \in RowId : DeleteRow(id)
      BY <1>0, <3>3, DeleteKeepsStore DEF Outcome
    <3> QED BY <3>1, <3>2, <3>3
  <2>2. foreign' \in [Tx -> SUBSET RowId]
    BY <1>8, <2>1, ForeignTyped DEF StoreOK, DirectWrite
  <2> QED BY <1>8, <2>1, <2>2, TableFacts DEF TypeOK, StoreOK, DirectWrite, Outcome
<1>9. CASE UNCHANGED vars
  <2>1. KeyUnique(rows)'
    BY <1>9 DEF vars, KeyUnique
  <2> QED BY <1>9, <2>1 DEF vars, TypeOK
<1> QED BY <1>1, <1>2, <1>3, <1>4, <1>5, <1>6, <1>7, <1>8, <1>9 DEF Next

-----------------------------------------------------------------------------
(* What a step is for one active transaction: it begins, it writes a row,  *)
(* or it is left alone by a step that may touch rows it then counts as     *)
(* written by others.                                                      *)
Began(t) ==
  /\ status[t] # "active" /\ begun'[t] = Stored
  /\ rows' = rows /\ version' = version
  /\ entries'[t] = entries[t] /\ diff'[t] = diff[t] /\ foreign'[t] = foreign[t]

Bystander(t) ==
  /\ status[t] = "active"
  /\ entries'[t] = entries[t] /\ diff'[t] = diff[t] /\ begun'[t] = begun[t]
  /\ foreign'[t] = foreign[t] \cup Touched

Wrote(t, kind, id, c, v, d) ==
  /\ status[t] = "active"
  /\ entries'[t] = Append(entries[t], [kind |-> kind, id |-> id, c |-> c, v |-> v])
  /\ diff'[t] = d
  /\ begun'[t] = begun[t] /\ foreign'[t] = foreign[t]

Inserted(t, id, c) ==
  /\ Wrote(t, "insert", id, c, 1, Add(diff[t], id, [c |-> c, v |-> 1]))
  /\ id \notin DOMAIN rows
  /\ rows' = Put(rows, id, c) /\ version' = Put(version, id, 1)

Updated(t, id, c, v) ==
  /\ Wrote(t, "update", id, rows[id], v, Modify(diff[t], id, Stored[id], [c |-> c, v |-> v]))
  /\ id \in DOMAIN rows
  /\ rows' = Put(rows, id, c) /\ version' = Put(version, id, v)

Deleted(t, id) ==
  /\ Wrote(t, "delete", id, rows[id], version[id], Remove(diff[t], id, Stored[id]))
  /\ id \in DOMAIN rows
  /\ rows' = Drop(rows, id) /\ version' = Drop(version, id)

OwnWrite(t) ==
  \E id \in RowId :
    \/ Deleted(t, id)
    \/ \E c \in Content : Inserted(t, id, c) \/ \E v \in Version : Updated(t, id, c, v)

(* A step that leaves the table alone touches no row. *)
LEMMA NothingTouched ==
  ASSUME rows' = rows, version' = version
  PROVE  Touched = {}
BY DEF Touched

(* And the other way round. *)
LEMMA TouchedNothing ==
  ASSUME StoreOK, StoreOK', Touched = {}
  PROVE  rows' = rows /\ version' = version /\ Stored' = Stored
<1>1. PartlyTo(rows, Content) /\ PartlyTo(rows', Content)
  BY TableFacts DEF StoreOK
<1>2. \A x \in DOMAIN rows \cup DOMAIN rows' :
        x \in DOMAIN rows \cap DOMAIN rows' /\ rows'[x] = rows[x] /\ version'[x] = version[x]
  BY DEF Touched
<1>3. rows' = rows
  BY <1>1, <1>2 DEF PartlyTo
<1>4. version' = version
  BY <1>2, <1>3 DEF StoreOK
<1> QED BY <1>3, <1>4 DEF Stored

(* The journal of a step, written by t, as the other transactions see it.  *)
LEMMA OthersStandBy ==
  ASSUME TypeOK, NEW t \in Tx, NEW u \in Tx, u # t, status[u] = "active", status'[u] = "active",
         ForeignTo(Active \ {t}),
         entries'[u] = entries[u], diff'[u] = diff[u], begun'[u] = begun[u]
  PROVE  Bystander(u)
BY DEF Bystander, ForeignTo, Active

(* Recording a write changes nothing for the others. *)
LEMMA RecordFrame ==
  ASSUME TypeOK, NEW t \in Tx, NEW u \in Tx, u # t,
         NEW kind, NEW id, NEW c, NEW v, NEW d, Record(t, kind, id, c, v, d)
  PROVE  entries'[u] = entries[u] /\ diff'[u] = diff[u]
BY DEF Record, TypeOK

(* A recorded write, for the transaction itself. *)
LEMMA RecordOwn ==
  ASSUME TypeOK, NEW t \in Tx, status[t] = "active", UNCHANGED <<status, begun>>,
         NEW kind, NEW id, NEW c, NEW v, NEW d, Record(t, kind, id, c, v, d), ForeignTo(Active \ {t})
  PROVE  /\ result' = "ok" => Wrote(t, kind, id, c, v, d)
         /\ result' # "ok" /\ rows' = rows /\ version' = version => Bystander(t)
<1>1. foreign'[t] = foreign[t] /\ begun'[t] = begun[t]
  BY DEF ForeignTo, Active
<1>2. ASSUME result' = "ok" PROVE Wrote(t, kind, id, c, v, d)
  BY <1>1, <1>2 DEF Record, Wrote, TypeOK
<1>3. ASSUME result' # "ok", rows' = rows, version' = version PROVE Bystander(t)
  BY <1>1, <1>3, NothingTouched DEF Record, Bystander
<1> QED BY <1>2, <1>3

(* Every step is one of the three kinds for every transaction that is      *)
(* active after it.                                                        *)
LEMMA StepCases ==
  ASSUME TypeOK, KeyUnique(rows), [Next]_vars, NEW u \in Tx, status'[u] = "active"
  PROVE  Began(u) \/ Bystander(u) \/ OwnWrite(u)
<1>0. status \in [Tx -> {"idle", "active", "committed", "rolledback"}] /\ StoreOK
  BY TypeParts DEF TypeOK
<1>a. \A x \in DOMAIN rows : version[x] \in Version
  BY <1>0 DEF StoreOK
<1>b. \A v \in Version : NextVersion(v) \in Version
  BY VersionAssumption DEF Version, NextVersion
<1>1. ASSUME NEW t \in Tx, Begin(t) PROVE Began(u) \/ Bystander(u)
  <2>1. Touched = {}
    BY <1>1, NothingTouched DEF Begin
  <2>2. CASE u = t
    BY <1>1, <2>2 DEF Begin, Began, TypeOK
  <2>3. CASE u # t
    BY <1>0, <1>1, <2>1, <2>3 DEF Begin, Bystander, TypeOK
  <2> QED BY <2>2, <2>3
<1>2. ASSUME NEW t \in Tx, NEW s \in {"committed", "rolledback"}, status[t] = "active", Finish(t, s)
      PROVE  Bystander(u)
  <2>1. u # t /\ status[u] = "active"
    BY <1>0, <1>2 DEF Finish
  <2>2. entries'[u] = entries[u] /\ diff'[u] = diff[u] /\ begun'[u] = begun[u]
    BY <1>2, <2>1 DEF Finish, TypeOK
  <2> QED BY <1>2, <2>1, <2>2, OthersStandBy DEF Finish
<1>3. ASSUME NEW t \in Tx, NEW id \in RowId, NEW c \in Content, TxInsert(t, id, c)
      PROVE  Bystander(u) \/ OwnWrite(u)
  <2>1. CASE u = t
    <3>1. CASE result' = "ok"
      <4>1. Inserted(t, id, c)
        BY <1>3, <3>1, InsertEffect, RecordOwn DEF TxInsert, CanWrite, Inserted
      <4> QED BY <2>1, <4>1 DEF OwnWrite
    <3>2. CASE result' # "ok"
      BY <1>3, <2>1, <3>2, InsertEffect, RecordOwn DEF TxInsert, CanWrite
    <3> QED BY <3>1, <3>2
  <2>2. CASE u # t
    BY <1>3, <2>2, RecordFrame, OthersStandBy DEF TxInsert
  <2> QED BY <2>1, <2>2
<1>4. ASSUME NEW t \in Tx, NEW id \in RowId, NEW c \in Content, TxUpdate(t, id, c)
      PROVE  Bystander(u) \/ OwnWrite(u)
  <2>1. CASE u = t
    <3>1. CASE result' = "ok"
      <4>1. Updated(t, id, c, NextVersion(version[id]))
        BY <1>4, <3>1, UpdateEffect, RecordOwn DEF TxUpdate, CanWrite, Updated
      <4>2. NextVersion(version[id]) \in Version
        BY <1>4, <1>a, <1>b DEF TxUpdate
      <4> QED BY <2>1, <4>1, <4>2 DEF OwnWrite
    <3>2. CASE result' # "ok"
      BY <1>4, <2>1, <3>2, UpdateEffect, RecordOwn DEF TxUpdate, CanWrite
    <3> QED BY <3>1, <3>2
  <2>2. CASE u # t
    BY <1>4, <2>2, RecordFrame, OthersStandBy DEF TxUpdate
  <2> QED BY <2>1, <2>2
<1>5. ASSUME NEW t \in Tx, NEW id \in RowId, TxDelete(t, id) PROVE Bystander(u) \/ OwnWrite(u)
  <2>1. CASE u = t
    <3>1. result' = "ok" /\ rows' = Drop(rows, id) /\ version' = Drop(version, id) /\ id \in DOMAIN rows
      BY <1>5, DeleteEffect DEF TxDelete
    <3>2. Deleted(t, id)
      BY <1>5, <3>1, RecordOwn DEF TxDelete, CanWrite, Deleted
    <3> QED BY <2>1, <3>2 DEF OwnWrite
  <2>2. CASE u # t
    BY <1>5, <2>2, RecordFrame, OthersStandBy DEF TxDelete
  <2> QED BY <2>1, <2>2
<1>6. ASSUME NEW t \in Tx, NEW id \in RowId, TxMiss(t, id) PROVE Bystander(u)
  BY <1>6, NothingTouched DEF TxMiss, Bystander
<1>7. CASE DirectWrite
  BY <1>7 DEF DirectWrite, ForeignTo, Active, Bystander
<1>8. CASE UNCHANGED vars
  BY <1>8, NothingTouched DEF vars, Bystander
<1> QED BY <1>1, <1>2, <1>3, <1>4, <1>5, <1>6, <1>7, <1>8 DEF Next, Commit, Rollback

-----------------------------------------------------------------------------
(* The diff is net. *)

\* What DiffIsNet says of one diff d, the table b at begin and the table S now.
Net(d, b, S) ==
  /\ d.added = [x \in DOMAIN S \ DOMAIN b |-> S[x]]
  /\ d.deleted = [x \in DOMAIN b \ DOMAIN S |-> b[x]]
  /\ \A x \in DOMAIN d.modified :
       x \in DOMAIN S \cap DOMAIN b /\ d.modified[x] = [old |-> b[x], new |-> S[x]]
  /\ \A x \in (DOMAIN S \cap DOMAIN b) \ DOMAIN d.modified : S[x] = b[x]

(* Each of the three ways to note a change keeps the diff net, whatever    *)
(* the transaction did to the row before.                                  *)
LEMMA AddKeepsNet ==
  ASSUME NEW d, DiffOK(d), NEW b, NEW S, Net(d, b, S), NEW id \in RowId, NEW r \in Row, id \notin DOMAIN S
  PROVE  Net(Add(d, id, r), b, Put(S, id, r))
<1>1. DOMAIN Put(S, id, r) = DOMAIN S \cup {id} /\ Put(S, id, r)[id] = r
      /\ \A x \in DOMAIN S : Put(S, id, r)[x] = S[x]
  BY DEF Put
<1>2. CASE id \in DOMAIN b
  <2>1. id \in DOMAIN d.deleted /\ d.deleted[id] = b[id]
    BY <1>2 DEF Net
  <2>2. /\ Add(d, id, r).added = d.added /\ Add(d, id, r).deleted = Drop(d.deleted, id)
        /\ Add(d, id, r).modified = Put(d.modified, id, [old |-> b[id], new |-> r])
    BY <2>1, AddEffect
  <2>3. d.added = [x \in (DOMAIN S \cup {id}) \ DOMAIN b |-> Put(S, id, r)[x]]
    BY <1>1, <1>2 DEF Net
  <2>4. Drop(d.deleted, id) = [x \in DOMAIN b \ (DOMAIN S \cup {id}) |-> b[x]]
    BY DEF Net, Drop
  <2>5. DOMAIN Put(d.modified, id, [old |-> b[id], new |-> r]) = DOMAIN d.modified \cup {id}
        /\ \A x \in DOMAIN d.modified \cup {id} : Put(d.modified, id, [old |-> b[id], new |-> r])[x] =
             IF x = id THEN [old |-> b[id], new |-> r] ELSE d.modified[x]
    BY DEF Put
  <2>6. /\ \A x \in DOMAIN Add(d, id, r).modified :
             /\ x \in DOMAIN Put(S, id, r) \cap DOMAIN b
             /\ Add(d, id, r).modified[x] = [old |-> b[x], new |-> Put(S, id, r)[x]]
        /\ \A x \in (DOMAIN Put(S, id, r) \cap DOMAIN b) \ DOMAIN Add(d, id, r).modified : Put(S, id, r)[x] = b[x]
    <3>1. DOMAIN Add(d, id, r).modified = DOMAIN d.modified \cup {id}
          /\ \A x \in DOMAIN d.modified \cup {id} :
               Add(d, id, r).modified[x] = IF x = id THEN [old |-> b[id], new |-> r] ELSE d.modified[x]
      BY <2>2, <2>5
    <3>2. /\ \A x \in DOMAIN d.modified : x \in DOMAIN S \cap DOMAIN b /\ d.modified[x] = [old |-> b[x], new |-> S[x]]
          /\ \A x \in (DOMAIN S \cap DOMAIN b) \ DOMAIN d.modified : S[x] = b[x]
      BY DEF Net
    <3> QED BY <1>1, <1>2, <3>1, <3>2
  <2> QED BY <1>1, <1>2, <2>2, <2>3, <2>4, <2>6 DEF Net
<1>3. CASE id \notin DOMAIN b
  <2>1. id \notin DOMAIN d.deleted
    BY <1>3 DEF Net
  <2>2. /\ Add(d, id, r).added = Put(d.added, id, r)
        /\ Add(d, id, r).deleted = d.deleted /\ Add(d, id, r).modified = d.modified
    BY <2>1, AddEffect
  <2>3. Put(d.added, id, r) = [x \in (DOMAIN S \cup {id}) \ DOMAIN b |-> Put(S, id, r)[x]]
    BY <1>3 DEF Net, Put
  <2>4. d.deleted = [x \in DOMAIN b \ (DOMAIN S \cup {id}) |-> b[x]]
    BY <1>3 DEF Net
  <2> QED BY <1>1, <1>3, <2>2, <2>3, <2>4 DEF Net
<1> QED BY <1>2, <1>3

(* An update keeps the old row of before the transaction. *)
LEMMA ModifyKeepsNet ==
  ASSUME NEW d, DiffOK(d), NEW b, NEW S, Net(d, b, S), NEW id \in RowId, NEW r \in Row,
         id \in DOMAIN S, S[id] \in Row
  PROVE  Net(Modify(d, id, S[id], r), b, Put(S, id, r))
<1>1. DOMAIN Put(S, id, r) = DOMAIN S /\ Put(S, id, r)[id] = r
      /\ \A x \in DOMAIN S : x # id => Put(S, id, r)[x] = S[x]
  BY DEF Put
<1>2. Modify(d, id, S[id], r).deleted = [x \in DOMAIN b \ DOMAIN S |-> b[x]]
  <2>1. Modify(d, id, S[id], r).deleted = d.deleted
    BY ModifyEffect
  <2> QED BY <2>1 DEF Net
<1>3. CASE id \notin DOMAIN b
  <2>1. id \in DOMAIN d.added
    BY <1>3 DEF Net
  <2>2. Modify(d, id, S[id], r).added = Put(d.added, id, r) /\ Modify(d, id, S[id], r).modified = d.modified
    BY <2>1, ModifyEffect
  <2>3. Put(d.added, id, r) = [x \in DOMAIN S \ DOMAIN b |-> Put(S, id, r)[x]]
    BY <1>3 DEF Net, Put
  <2> QED BY <1>1, <1>2, <1>3, <2>2, <2>3 DEF Net
<1>4. CASE id \in DOMAIN b
  <2>1. id \notin DOMAIN d.added
    BY <1>4 DEF Net
  <2>2. (IF id \in DOMAIN d.modified THEN d.modified[id].old ELSE S[id]) = b[id]
    <3>1. CASE id \in DOMAIN d.modified
      <4>1. d.modified[id] = [old |-> b[id], new |-> S[id]]
        BY <3>1 DEF Net
      <4> QED BY <3>1, <4>1
    <3>2. CASE id \notin DOMAIN d.modified
      BY <1>4, <3>2 DEF Net
    <3> QED BY <3>1, <3>2
  <2>3. /\ Modify(d, id, S[id], r).added = d.added
        /\ Modify(d, id, S[id], r).modified = Put(d.modified, id, [old |-> b[id], new |-> r])
    BY <2>1, <2>2, ModifyEffect
  <2>4. d.added = [x \in DOMAIN S \ DOMAIN b |-> Put(S, id, r)[x]]
    BY <1>1, <1>4 DEF Net
  <2>5. DOMAIN Put(d.modified, id, [old |-> b[id], new |-> r]) = DOMAIN d.modified \cup {id}
        /\ \A x \in DOMAIN d.modified \cup {id} : Put(d.modified, id, [old |-> b[id], new |-> r])[x] =
             IF x = id THEN [old |-> b[id], new |-> r] ELSE d.modified[x]
    BY DEF Put
  <2>6. /\ \A x \in DOMAIN Modify(d, id, S[id], r).modified :
             /\ x \in DOMAIN Put(S, id, r) \cap DOMAIN b
             /\ Modify(d, id, S[id], r).modified[x] = [old |-> b[x], new |-> Put(S, id, r)[x]]
        /\ \A x \in (DOMAIN Put(S, id, r) \cap DOMAIN b) \ DOMAIN Modify(d, id, S[id], r).modified : Put(S, id, r)[x] = b[x]
    <3>1. DOMAIN Modify(d, id, S[id], r).modified = DOMAIN d.modified \cup {id}
          /\ \A x \in DOMAIN d.modified \cup {id} :
               Modify(d, id, S[id], r).modified[x] = IF x = id THEN [old |-> b[id], new |-> r] ELSE d.modified[x]
      BY <2>3, <2>5
    <3>2. /\ \A x \in DOMAIN d.modified : x \in DOMAIN S \cap DOMAIN b /\ d.modified[x] = [old |-> b[x], new |-> S[x]]
          /\ \A x \in (DOMAIN S \cap DOMAIN b) \ DOMAIN d.modified : S[x] = b[x]
      BY DEF Net
    <3> QED BY <1>1, <1>4, <3>1, <3>2
  <2> QED BY <1>1, <1>2, <1>4, <2>3, <2>4, <2>6 DEF Net
<1> QED BY <1>3, <1>4

(* A delete of a row the transaction inserted leaves nothing of it. *)
LEMMA RemoveKeepsNet ==
  ASSUME NEW d, DiffOK(d), NEW b, NEW S, Net(d, b, S), NEW id \in RowId,
         id \in DOMAIN S, S[id] \in Row
  PROVE  Net(Remove(d, id, S[id]), b, Drop(S, id))
<1>1. DOMAIN Drop(S, id) = DOMAIN S \ {id} /\ \A x \in DOMAIN S \ {id} : Drop(S, id)[x] = S[x]
  BY DEF Drop
<1>2. CASE id \notin DOMAIN b
  <2>1. id \in DOMAIN d.added
    BY <1>2 DEF Net
  <2>2. /\ Remove(d, id, S[id]).added = Drop(d.added, id)
        /\ Remove(d, id, S[id]).modified = d.modified /\ Remove(d, id, S[id]).deleted = d.deleted
    BY <2>1, RemoveEffect
  <2>3. Drop(d.added, id) = [x \in (DOMAIN S \ {id}) \ DOMAIN b |-> Drop(S, id)[x]]
    BY <1>1 DEF Net, Drop
  <2>4. d.deleted = [x \in DOMAIN b \ (DOMAIN S \ {id}) |-> b[x]]
    BY <1>2 DEF Net
  <2> QED BY <1>1, <1>2, <2>2, <2>3, <2>4 DEF Net
<1>3. CASE id \in DOMAIN b
  <2>1. id \notin DOMAIN d.added
    BY <1>3 DEF Net
  <2>2. (IF id \in DOMAIN d.modified THEN d.modified[id].old ELSE S[id]) = b[id]
    <3>1. CASE id \in DOMAIN d.modified
      <4>1. d.modified[id] = [old |-> b[id], new |-> S[id]]
        BY <3>1 DEF Net
      <4> QED BY <3>1, <4>1
    <3>2. CASE id \notin DOMAIN d.modified
      BY <1>3, <3>2 DEF Net
    <3> QED BY <3>1, <3>2
  <2>3. /\ Remove(d, id, S[id]).added = d.added
        /\ Remove(d, id, S[id]).modified = IF id \in DOMAIN d.modified THEN Drop(d.modified, id) ELSE d.modified
        /\ Remove(d, id, S[id]).deleted = Put(d.deleted, id, b[id])
    BY <2>1, <2>2, RemoveEffect
  <2>4. d.added = [x \in (DOMAIN S \ {id}) \ DOMAIN b |-> Drop(S, id)[x]]
    BY <1>1, <1>3 DEF Net
  <2>5. Put(d.deleted, id, b[id]) = [x \in DOMAIN b \ (DOMAIN S \ {id}) |-> b[x]]
    BY <1>3 DEF Net, Put
  <2>6. DOMAIN Remove(d, id, S[id]).modified = DOMAIN d.modified \ {id}
        /\ \A x \in DOMAIN d.modified \ {id} : Remove(d, id, S[id]).modified[x] = d.modified[x]
    BY <2>3 DEF Drop
  <2> QED BY <1>1, <1>3, <2>3, <2>4, <2>5, <2>6 DEF Net
<1> QED BY <1>2, <1>3

(* At begin the empty diff is net. *)
LEMMA NoDiffIsNet ==
  ASSUME NEW S
  PROVE  Net(NoDiff, S, S)
BY DEF Net, NoDiff, Nothing

-----------------------------------------------------------------------------
(* Each invariant through a step, and the theorems. *)

(* The stored rows after a write. *)
LEMMA StoredAfter ==
  ASSUME DOMAIN version = DOMAIN rows, NEW id, NEW c, NEW v
  PROVE  /\ rows' = Put(rows, id, c) /\ version' = Put(version, id, v)
              => Stored' = Put(Stored, id, [c |-> c, v |-> v])
         /\ rows' = Drop(rows, id) /\ version' = Drop(version, id) => Stored' = Drop(Stored, id)
<1>1. ASSUME rows' = Put(rows, id, c), version' = Put(version, id, v)
      PROVE  Stored' = Put(Stored, id, [c |-> c, v |-> v])
  BY <1>1 DEF Stored, Put
<1>2. ASSUME rows' = Drop(rows, id), version' = Drop(version, id) PROVE Stored' = Drop(Stored, id)
  BY <1>2 DEF Stored, Drop
<1> QED BY <1>1, <1>2

(* DiffIsNet is what Net says of every undisturbed active transaction. *)
LEMMA DiffIsNetMeans ==
  DiffIsNet <=> \A t \in Active : foreign[t] = {} => Net(diff[t], begun[t], Stored)
BY DEF DiffIsNet, Net, Stored

(* The diff of one transaction stays net in every step. *)
LEMMA DiffStep ==
  ASSUME TypeOK, KeyUnique(rows), Idle, DiffIsNet, [Next]_vars,
         NEW u \in Tx, status'[u] = "active", foreign'[u] = {}
  PROVE  Net(diff'[u], begun'[u], Stored')
<1>1. StoreOK /\ StoreOK' /\ DiffOK(diff[u])
  BY TypeNext, TypeParts, TableFacts DEF TypeOK, StoreOK
<1>2. \A x \in DOMAIN rows : x \in DOMAIN Stored /\ Stored[x] \in Row /\ DOMAIN Stored = DOMAIN rows
  BY <1>1, StoredFacts
<1>3. DOMAIN Stored = DOMAIN rows /\ DOMAIN version = DOMAIN rows
  BY <1>1 DEF Stored, StoreOK
<1>4. CASE Began(u)
  <2>1. diff'[u] = NoDiff /\ begun'[u] = Stored
    BY <1>4 DEF Began, Idle
  <2>2. Stored' = Stored
    BY <1>4 DEF Began, Stored
  <2> QED BY <2>1, <2>2, NoDiffIsNet
<1>5. CASE Bystander(u)
  <2>1. foreign[u] = {} /\ Touched = {} /\ u \in Active
    BY <1>5 DEF Bystander, Active
  <2>2. Stored' = Stored
    BY <1>1, <2>1, TouchedNothing
  <2>3. Net(diff[u], begun[u], Stored)
    BY <2>1, DiffIsNetMeans
  <2> QED BY <1>5, <2>2, <2>3 DEF Bystander
<1>6. CASE OwnWrite(u)
  <2> SUFFICES ASSUME status[u] = "active", foreign[u] = {}, begun'[u] = begun[u]
               PROVE  Net(diff'[u], begun[u], Stored')
    BY <1>6 DEF OwnWrite, Inserted, Updated, Deleted, Wrote
  <2>1. Net(diff[u], begun[u], Stored)
    BY DiffIsNetMeans DEF Active
  <2>2. ASSUME NEW id \in RowId, NEW c \in Content, Inserted(u, id, c) PROVE Net(diff'[u], begun[u], Stored')
    <3>1. [c |-> c, v |-> 1] \in Row
      BY VersionAssumption DEF Row, Version
    <3>2. Stored' = Put(Stored, id, [c |-> c, v |-> 1]) /\ id \notin DOMAIN Stored
      BY <1>3, <2>2, StoredAfter DEF Inserted
    <3>3. diff'[u] = Add(diff[u], id, [c |-> c, v |-> 1])
      BY <2>2 DEF Inserted, Wrote
    <3> QED BY <1>1, <2>1, <3>1, <3>2, <3>3, AddKeepsNet
  <2>3. ASSUME NEW id \in RowId, NEW c \in Content, NEW v \in Version, Updated(u, id, c, v)
        PROVE  Net(diff'[u], begun[u], Stored')
    <3>1. [c |-> c, v |-> v] \in Row
      BY DEF Row
    <3>2. Stored' = Put(Stored, id, [c |-> c, v |-> v]) /\ id \in DOMAIN Stored /\ Stored[id] \in Row
      BY <1>2, <1>3, <2>3, StoredAfter DEF Updated
    <3>3. diff'[u] = Modify(diff[u], id, Stored[id], [c |-> c, v |-> v])
      BY <2>3 DEF Updated, Wrote
    <3> QED BY <1>1, <2>1, <3>1, <3>2, <3>3, ModifyKeepsNet
  <2>4. ASSUME NEW id \in RowId, Deleted(u, id) PROVE Net(diff'[u], begun[u], Stored')
    <3>1. Stored' = Drop(Stored, id) /\ id \in DOMAIN Stored /\ Stored[id] \in Row
      BY <1>2, <1>3, <2>4, StoredAfter DEF Deleted
    <3>2. diff'[u] = Remove(diff[u], id, Stored[id])
      BY <2>4 DEF Deleted, Wrote
    <3> QED BY <1>1, <2>1, <3>1, <3>2, RemoveKeepsNet
  <2> QED BY <1>6, <2>2, <2>3, <2>4 DEF OwnWrite
<1> QED BY <1>4, <1>5, <1>6, StepCases

(* What a write of the transaction did is what its entry undoes. *)
LEMMA EntryUndoes ==
  ASSUME NEW R \in Tables, NEW F, NEW id \in RowId, NEW c \in Content, NEW v
  PROVE  /\ id \notin DOMAIN R =>
              Undoes([kind |-> "insert", id |-> id, c |-> c, v |-> v], Own(Put(R, id, c), F), Own(R, F), F)
         /\ id \in DOMAIN R =>
              /\ Undoes([kind |-> "update", id |-> id, c |-> R[id], v |-> v], Own(Put(R, id, c), F), Own(R, F), F)
              /\ Undoes([kind |-> "delete", id |-> id, c |-> R[id], v |-> v], Own(Drop(R, id), F), Own(R, F), F)
<1>1. CASE id \in F
  BY <1>1 DEF Undoes, Own, Put, Drop
<1>2. CASE id \notin F
  <2>1. ASSUME id \notin DOMAIN R PROVE Own(R, F) = Drop(Own(Put(R, id, c), F), id)
    BY <1>2, <2>1 DEF Own, Put, Drop
  <2>2. ASSUME id \in DOMAIN R
        PROVE  /\ Own(R, F) = Put(Own(Put(R, id, c), F), id, R[id]) /\ id \in DOMAIN Own(Put(R, id, c), F)
               /\ Own(R, F) = Put(Own(Drop(R, id), F), id, R[id]) /\ id \notin DOMAIN Own(Drop(R, id), F)
    BY <1>2, <2>2 DEF Own, Put, Drop
  <2> QED BY <1>2, <2>1, <2>2 DEF Undoes
<1> QED BY <1>1, <1>2

(* The journal of one transaction stays the record of a history of tables. *)
LEMMA RecordedStep ==
  ASSUME IInv, [Next]_vars, NEW u \in Tx, status'[u] = "active"
  PROVE  Recorded(u)'
<1>1. StoreOK /\ StoreOK' /\ entries[u] \in Seq(Entry)
  BY TypeNext, TypeParts, TableFacts DEF TypeOK, StoreOK, IInv
<1>2. CASE Began(u)
  <2>1. entries'[u] = <<>> /\ foreign'[u] = {} /\ begun'[u] = Stored /\ rows' = rows
    BY <1>2 DEF Began, IInv, Idle
  <2>2. DOMAIN Stored = DOMAIN rows /\ \A x \in DOMAIN rows : Stored[x].c = rows[x]
    BY DEF Stored
  <2>3. \E h \in [0..0 -> Tables] : History(h, <<>>, Stored, rows, {})
    BY <1>1, <2>2, HistoryBegins DEF StoreOK
  <2>4. Len(<<>>) = 0
    OBVIOUS
  <2> QED BY <2>1, <2>3, <2>4 DEF Recorded
<1>3. CASE Bystander(u)
  <2>1. Recorded(u)
    BY <1>3 DEF Bystander, IInv, Active
  <2>2. PICK h \in [0..Len(entries[u]) -> Tables] : History(h, entries[u], begun[u], rows, foreign[u])
    BY <2>1 DEF Recorded
  <2>3. Own(rows', foreign[u] \cup Touched) = Own(rows, foreign[u] \cup Touched)
    BY DEF Own, Touched
  <2>4. \E g \in [0..Len(entries[u]) -> Tables] :
           History(g, entries[u], begun[u], rows', foreign[u] \cup Touched)
    BY <1>1, <2>2, <2>3, HistoryDisturbed
  <2> QED BY <1>3, <2>4 DEF Bystander, Recorded
<1>4. CASE OwnWrite(u)
  <2>1. status[u] = "active" /\ Recorded(u)
    BY <1>4 DEF OwnWrite, Inserted, Updated, Deleted, Wrote, IInv, Active
  <2>2. PICK h \in [0..Len(entries[u]) -> Tables] : History(h, entries[u], begun[u], rows, foreign[u])
    BY <2>1 DEF Recorded
  <2>3. ASSUME NEW e \in Entry, Undoes(e, Own(rows', foreign[u]), Own(rows, foreign[u]), foreign[u]),
               entries'[u] = Append(entries[u], e), begun'[u] = begun[u], foreign'[u] = foreign[u]
        PROVE  Recorded(u)'
    <3>1. \E g \in [0..Len(Append(entries[u], e)) -> Tables] :
            History(g, Append(entries[u], e), begun[u], rows', foreign[u])
      BY <1>1, <2>2, <2>3, HistoryRecords DEF StoreOK
    <3> QED BY <2>3, <3>1 DEF Recorded
  <2>4. ASSUME NEW id \in RowId, NEW c \in Content, Inserted(u, id, c) PROVE Recorded(u)'
    <3> DEFINE e == [kind |-> "insert", id |-> id, c |-> c, v |-> 1]
    <3>1. e \in Entry
      BY VersionAssumption DEF Entry, Version
    <3>2. Undoes(e, Own(rows', foreign[u]), Own(rows, foreign[u]), foreign[u])
      BY <1>1, <2>4, EntryUndoes DEF Inserted, StoreOK
    <3> QED BY <2>3, <2>4, <3>1, <3>2 DEF Inserted, Wrote
  <2>5. ASSUME NEW id \in RowId, NEW c \in Content, NEW v \in Version, Updated(u, id, c, v) PROVE Recorded(u)'
    <3> DEFINE e == [kind |-> "update", id |-> id, c |-> rows[id], v |-> v]
    <3>1. e \in Entry
      BY <1>1, <2>5, TableFacts DEF Entry, StoreOK, PartlyTo, Updated
    <3>2. Undoes(e, Own(rows', foreign[u]), Own(rows, foreign[u]), foreign[u])
      BY <1>1, <2>5, EntryUndoes DEF Updated, StoreOK
    <3> QED BY <2>3, <2>5, <3>1, <3>2 DEF Updated, Wrote
  <2>6. ASSUME NEW id \in RowId, Deleted(u, id) PROVE Recorded(u)'
    <3> DEFINE e == [kind |-> "delete", id |-> id, c |-> rows[id], v |-> version[id]]
    <3>1. e \in Entry /\ rows[id] \in Content
      BY <1>1, <2>6, TableFacts DEF Entry, StoreOK, PartlyTo, Deleted
    <3>2. Undoes(e, Own(rows', foreign[u]), Own(rows, foreign[u]), foreign[u])
      BY <1>1, <2>6, <3>1, EntryUndoes DEF Deleted, StoreOK
    <3> QED BY <2>3, <2>6, <3>1, <3>2 DEF Deleted, Wrote
  <2> QED BY <1>4, <2>4, <2>5, <2>6 DEF OwnWrite
<1> QED BY <1>2, <1>3, <1>4, StepCases DEF IInv

(* Nothing is kept of a transaction that is not active. *)
LEMMA IdleStep ==
  ASSUME TypeOK, Idle, [Next]_vars
  PROVE  Idle'
<1> SUFFICES ASSUME NEW u \in Tx, status'[u] # "active"
             PROVE  entries'[u] = <<>> /\ diff'[u] = NoDiff /\ foreign'[u] = {}
  BY DEF Idle
<1>0. /\ status \in [Tx -> {"idle", "active", "committed", "rolledback"}] /\ DOMAIN entries = Tx
      /\ DOMAIN diff = Tx
  BY DEF TypeOK
<1>1. ASSUME NEW t \in Tx, Begin(t) PROVE entries'[u] = <<>> /\ diff'[u] = NoDiff /\ foreign'[u] = {}
  BY <1>0, <1>1 DEF Begin, Idle
<1>2. ASSUME NEW t \in Tx, NEW s \in {"committed", "rolledback"}, Finish(t, s)
      PROVE  entries'[u] = <<>> /\ diff'[u] = NoDiff /\ foreign'[u] = {}
  BY <1>0, <1>2 DEF Finish, Idle, ForeignTo
<1>3. ASSUME NEW t \in Tx, CanWrite(t), NEW kind, NEW id, NEW c, NEW v, NEW d, Record(t, kind, id, c, v, d),
             UNCHANGED status, ForeignTo(Active \ {t})
      PROVE  entries'[u] = <<>> /\ diff'[u] = NoDiff /\ foreign'[u] = {}
  <2>1. u # t
    BY <1>3 DEF CanWrite
  <2> QED BY <1>3, <2>1, RecordFrame DEF Idle, ForeignTo
<1>4. ASSUME NEW t \in Tx, NEW id \in RowId, NEW c \in Content, TxInsert(t, id, c)
      PROVE  entries'[u] = <<>> /\ diff'[u] = NoDiff /\ foreign'[u] = {}
  BY <1>3, <1>4 DEF TxInsert
<1>5. ASSUME NEW t \in Tx, NEW id \in RowId, NEW c \in Content, TxUpdate(t, id, c)
      PROVE  entries'[u] = <<>> /\ diff'[u] = NoDiff /\ foreign'[u] = {}
  BY <1>3, <1>5 DEF TxUpdate
<1>6. ASSUME NEW t \in Tx, NEW id \in RowId, TxDelete(t, id)
      PROVE  entries'[u] = <<>> /\ diff'[u] = NoDiff /\ foreign'[u] = {}
  BY <1>3, <1>6 DEF TxDelete
<1>7. ASSUME NEW t \in Tx, NEW id \in RowId, TxMiss(t, id)
      PROVE  entries'[u] = <<>> /\ diff'[u] = NoDiff /\ foreign'[u] = {}
  BY <1>7 DEF TxMiss, Idle
<1>8. CASE DirectWrite
  BY <1>8 DEF DirectWrite, Idle, ForeignTo
<1>9. CASE UNCHANGED vars
  BY <1>9 DEF vars, Idle
<1> QED BY <1>1, <1>2, <1>4, <1>5, <1>6, <1>7, <1>8, <1>9 DEF Next, Commit, Rollback

(* Before the first transaction there is nothing to describe. *)
LEMMA InitInv == Init => IInv /\ DiffIsNet
<1> SUFFICES ASSUME Init PROVE IInv /\ DiffIsNet
  OBVIOUS
<1>1. PartlyTo(Nothing, Content) /\ PartlyTo(Nothing, Row) /\ DOMAIN Nothing = {}
  BY DEF Nothing, PartlyTo
<1>2. DiffOK(NoDiff)
  BY DEF DiffOK, NoDiff, Nothing, PartlyTo
<1>3. Nothing \in [DOMAIN Nothing -> Version]
  BY DEF Nothing
<1>4. TypeOK
  BY <1>1, <1>2, <1>3 DEF Init, TypeOK, DiffOK
<1>5. KeyUnique(rows) /\ Idle
  BY <1>1 DEF Init, KeyUnique, Idle
<1>6. Active = {}
  BY DEF Init, Active
<1> QED BY <1>4, <1>5, <1>6 DEF IInv, DiffIsNet

(* Every step keeps the invariant and the diffs. *)
LEMMA NextInv == IInv /\ DiffIsNet /\ [Next]_vars => IInv' /\ DiffIsNet'
<1> SUFFICES ASSUME IInv, DiffIsNet, [Next]_vars PROVE IInv' /\ DiffIsNet'
  OBVIOUS
<1>1. TypeOK' /\ KeyUnique(rows)' /\ Idle'
  BY TypeNext, IdleStep DEF IInv
<1>2. \A u \in Active' : Recorded(u)'
  BY RecordedStep DEF Active
<1>3. DiffIsNet'
  <2>1. \A u \in Active' : foreign'[u] = {} => Net(diff'[u], begun'[u], Stored')
    BY DiffStep DEF Active, IInv
  <2> QED BY <2>1 DEF DiffIsNet, Net, Stored
<1> QED BY <1>1, <1>2, <1>3 DEF IInv

(* Hence they hold in every reachable state. *)
LEMMA SpecInv == Spec => [](IInv /\ DiffIsNet)
BY InitInv, NextInv, PTL DEF Spec

(* Every variable keeps its type: a rollback, whichever of its store       *)
(* writes fail or wherever it stops, leaves a table with a version for     *)
(* every row, and updates past the largest version wrap around.            *)
THEOREM TxTypeCorrect == Spec => []TypeOK
<1>1. IInv /\ DiffIsNet => TypeOK
  BY DEF IInv
<1> QED BY <1>1, SpecInv, PTL

(* The table never holds two rows with one unique key, although rollbacks  *)
(* put rows back in the middle of what others write.                       *)
THEOREM TxKeysUnique == Spec => []KeyUnique(rows)
<1>1. IInv /\ DiffIsNet => KeyUnique(rows)
  BY DEF IInv
<1> QED BY <1>1, SpecInv, PTL

(* The diff of an undisturbed transaction is exactly the difference        *)
(* between the table at begin and now (journal.rs, the TableDiff), however *)
(* many writes of whichever rows it made.                                  *)
THEOREM DiffAlwaysNet == Spec => []DiffIsNet
<1>1. IInv /\ DiffIsNet => DiffIsNet
  OBVIOUS
<1> QED BY <1>1, SpecInv, PTL

(* What a rollback that reports success leaves: every row that others did  *)
(* not write is as it was at begin, unless a key was stolen.               *)
LEMMA RollbackOutcome ==
  ASSUME IInv, [Next]_vars, NEW t \in Tx, RollsBack(t), ~Stolen(t), NEW id \in RowId \ foreign[t]
  PROVE  Restored(t, id)
<1> DEFINE N == Len(entries[t])
           last == UndoneTo(entries[t])[N]
<1>1. Rollback(t)
  <2>1. status \in [Tx -> {"idle", "active", "committed", "rolledback"}]
    BY DEF IInv, TypeOK
  <2>2. ASSUME NEW u \in Tx, Begin(u) PROVE FALSE
    BY <2>1, <2>2 DEF Begin, RollsBack
  <2>3. ASSUME NEW u \in Tx, Commit(u) PROVE FALSE
    BY <2>1, <2>3 DEF Commit, Finish, RollsBack
  <2>4. ASSUME NEW u \in Tx, Rollback(u) PROVE u = t
    BY <2>1, <2>4 DEF Rollback, Finish, RollsBack
  <2> QED BY <2>1, <2>2, <2>3, <2>4 DEF Next, TxInsert, TxUpdate, TxDelete, TxMiss, DirectWrite, vars, RollsBack
<1>2. rows' = last.rows /\ ~last.overflow
  BY <1>1 DEF Rollback, RolledBack, RollsBack
<1>3. Recorded(t)
  BY DEF IInv, RollsBack, Active
<1>4. PICK h \in [0..N -> Tables] : History(h, entries[t], begun[t], rows, foreign[t])
  BY <1>3 DEF Recorded
<1>5. entries[t] \in Seq(Entry) /\ N \in 0..N /\ N - N = 0
  BY DEF IInv, TypeOK
<1>6. Replaying(Start)
  BY RolledBackFacts DEF IInv
<1>7. Own(last.rows, foreign[t]) = h[0]
  BY <1>2, <1>4, <1>5, <1>6, ReplayWalksBack
<1>8. Own(rows', foreign[t]) = [x \in DOMAIN begun[t] \ foreign[t] |-> begun[t][x].c]
  BY <1>2, <1>4, <1>7 DEF History
<1>9. /\ id \in DOMAIN Own(rows', foreign[t]) <=> id \in DOMAIN rows'
      /\ id \in DOMAIN rows' => Own(rows', foreign[t])[id] = rows'[id]
  BY DEF Own
<1> QED BY <1>8, <1>9 DEF Restored

(* When others wrote while the transaction was open, a rollback loses one  *)
(* of its own rows only to a unique key that a row of the others holds, or *)
(* gets back during the replay, for journals of any length.                *)
THEOREM LostOnlyToStolen == Spec => LostOnlyToStolenKeys
<1>1. IInv /\ DiffIsNet /\ [Next]_vars =>
        [\A t \in Tx : RollsBack(t) => Stolen(t) \/ \A id \in RowId \ foreign[t] : Restored(t, id)]_vars
  BY RollbackOutcome
<1> QED BY <1>1, SpecInv, PTL DEF Spec, LostOnlyToStolenKeys

(* A transaction that nobody interfered with leaves no trace when it is    *)
(* rolled back (transaction.rs, rollback): the errors that the replay      *)
(* ignores do not happen.                                                  *)
THEOREM RollbackAlwaysRestores == Spec => RollbackRestores
<1>1. IInv /\ DiffIsNet /\ [Next]_vars =>
        [\A t \in Tx : RollsBack(t) /\ foreign[t] = {} => \A id \in RowId : Restored(t, id)]_vars
  <2> SUFFICES ASSUME IInv, [Next]_vars, NEW t \in Tx, RollsBack(t), foreign[t] = {}, NEW id \in RowId
               PROVE  Restored(t, id)
    OBVIOUS
  <2>1. ~Stolen(t)
    BY DEF Stolen
  <2> QED BY <2>1, RollbackOutcome
<1> QED BY <1>1, SpecInv, PTL DEF Spec, RollbackRestores
=============================================================================
