-------------------------- MODULE GraphqlLiveProofs -------------------------
(***************************************************************************)
(* Proofs about GraphqlLive, for any tables, any selection of fields and   *)
(* any order of statements and flushes: the list a subscription holds, and *)
(* the response it has been sent, are those of the tables.                 *)
(*                                                                         *)
(* The argument.  A cached object is composed of the cached objects it     *)
(* shows (BatchOK), and what was fetched for a key is the tables', unless a*)
(* queued row has or had the key (BucketsCurrent).  Rendering only adds to *)
(* what is cached, and invalidation takes with each object those that show *)
(* it.  The root rows of the snapshot lane are those of a database between *)
(* two flushes, as in LiveAnswersProofs (RootsSince); those of the delta   *)
(* lane are a view that the queued deltas lead to the visible rows (LeadTo).*)
(* The root list has the cached item of each row that is not dirty         *)
(* (ListInv), and a patch makes it of the list that was sent before        *)
(* (PatchedList).                                                          *)
(***************************************************************************)
EXTENDS GraphqlLive, LiveAnswersProofs

-----------------------------------------------------------------------------
(* The rows fetched for a key of a node.                                    *)
Having(d, e, k) == {x \in d[e.root] : x[e.ccol] = k /\ x.v \notin e.hidden}

Selects(d, p) ==
  /\ Len(p.nested) \in Nat /\ DOMAIN p.nested = 1..Len(p.nested)
  /\ \A m \in DOMAIN p.nested : IsNode(d, p.nested[m], m) /\ IsDatabase(d, p.nested[m])

RowsAlone(e, rows) == {RootRow(e, r) : r \in rows}

LEMMA RootOutputs ==
  ASSUME NEW d, NEW e, IsQuery(e), e.joins = <<>>, NEW A
  PROVE  Outputs(d, e, A) = RowsAlone(e, Chosen(d, e, A))
<1>1. Len(e.joins) = 0
  OBVIOUS
<1>2. PICK f : OutputsRun(f, d, e, A) /\ Outputs(d, e, A) = f[0]
  BY <1>1, OutputsRunExists
<1> QED BY <1>2 DEF OutputsRun, RowsAlone

(* They are the rows of the table that have the key and are not excluded.   *)
LEMMA FetchFacts ==
  ASSUME NEW d, NEW e, IsQuery(e), e.joins = <<>>, IsDatabase(d, e), NEW k
  PROVE  /\ Fetch(d, e, k) = RowsAt(e.root, Visible(e, InOrder(e, {RootRow(e, r) : r \in Having(d, e, k)})))
         /\ Fetch(d, e, k) \in Seq(Having(d, e, k))
<1> DEFINE A == {r.id : r \in {x \in d[e.root] : x[e.ccol] = k}}
           S == {RootRow(e, r) : r \in Having(d, e, k)}
           s == Visible(e, InOrder(e, S))
<1>1. e.root \in Tables(e) /\ \A r, x \in d[e.root] : r.id = x.id => r = x
  BY DEF Tables, IsDatabase
<1>2. Chosen(d, e, A) = Having(d, e, k)
  BY <1>1 DEF Chosen, Having
<1>3. Outputs(d, e, A) = S
  <2> HIDE DEF A
  <2>1. Outputs(d, e, A) = RowsAlone(e, Chosen(d, e, A))
    BY RootOutputs
  <2> QED BY <1>2, <2>1 DEF RowsAlone
<1>4. Fetch(d, e, k) = RowsAt(e.root, s)
  BY <1>3 DEF Fetch
<1>5. IsFiniteSet(S) /\ AreOutputs(S, d, e)
  <2>1. /\ IsFiniteSet(Outputs(d, e, A)) /\ \A o \in Outputs(d, e, A) : IsOutput(o, d, e, A, Tables(e))
    BY OutputFacts
  <2>2. \A o : IsOutput(o, d, e, A, Tables(e)) => IsOutput(o, d, e, AllRoots(d, e), Tables(e))
    BY DEF IsOutput, Chosen, AllRoots
  <2> QED BY <1>3, <2>1, <2>2 DEF AreOutputs
<1> HIDE DEF S
<1>6. s \in Seq(S)
  <2>1. InOrder(e, S) \in Seq(S)
    BY <1>5, InOrderFacts
  <2> QED BY <2>1, VisibleRows
<1>7. \A o \in S : o[e.root] \in Having(d, e, k)
  BY DEF S, RootRow
<1> HIDE DEF s
<1>8. RowsAt(e.root, s) \in Seq(Having(d, e, k))
  BY <1>6, <1>7 DEF RowsAt
<1> QED BY <1>4, <1>8 DEF s, S

LEMMA FetchSame ==
  ASSUME NEW d, NEW c, NEW e, IsQuery(e), e.joins = <<>>, IsDatabase(d, e), IsDatabase(c, e), NEW k,
         \A r : r[e.ccol] = k => (r \in d[e.root] <=> r \in c[e.root])
  PROVE  Fetch(d, e, k) = Fetch(c, e, k)
<1>1. Having(d, e, k) = Having(c, e, k)
  BY DEF Having
<1> QED BY <1>1, FetchFacts

-----------------------------------------------------------------------------
(* What is cached hangs together.  A bucket has rows with its key; with the *)
(* object of a row, the buckets and the objects are there that it is made   *)
(* from.                                                                    *)
IsBatch(b) ==
  b = [cache |-> b.cache, buckets |-> b.buckets, rows |-> b.rows, items |-> b.items,
       dirty |-> b.dirty, full |-> b.full, patch |-> b.patch]

IsBucket(p, x, rows) ==
  /\ x = <<x[1], x[2]>> /\ x[1] \in DOMAIN p.nested /\ x[2] # Null
  /\ rows \in Seq(ToSet(rows)) /\ \A r \in ToSet(rows) : r[p.nested[x[1]].ccol] = x[2]

\* What the object of row r of node n shows of node m.
ShownBelow(p, buckets, r, m) == ToSet(Shown(p.nested[m], buckets[<<m, r[p.nested[m].pcol]>>]))

IsMade(p, cache, buckets, n, r) ==
  \A m \in Children(p, n) :
    r[p.nested[m].pcol] # Null =>
      /\ <<m, r[p.nested[m].pcol]>> \in DOMAIN buckets
      /\ \A x \in ShownBelow(p, buckets, r, m) : <<m, x>> \in DOMAIN cache

BatchOK(p, b) ==
  /\ IsBatch(b)
  /\ \A x \in DOMAIN b.buckets : IsBucket(p, x, b.buckets[x])
  /\ \A c \in DOMAIN b.cache :
       /\ c = <<c[1], c[2]>> /\ c[1] \in 0..Len(p.nested)
       /\ IsMade(p, b.cache, b.buckets, c[1], c[2])
       /\ b.cache[c] = Object(p, b.cache, b.buckets, c[1], c[2])

LEMMA ShownFacts ==
  ASSUME NEW e, NEW rows, rows \in Seq(ToSet(rows))
  PROVE  Shown(e, rows) \in Seq(ToSet(rows)) /\ ToSet(Shown(e, rows)) \subseteq ToSet(rows)
<1>1. Cut(rows, 1, 1) \in Seq(ToSet(rows)) /\ ToSet(Cut(rows, 1, 1)) \subseteq ToSet(rows)
  BY CutFacts
<1> QED BY <1>1 DEF Shown

(* An object depends on the buckets and the objects that it is made from.   *)
LEMMA ObjectSame ==
  ASSUME NEW p, NEW C1, NEW C2, NEW B1, NEW B2, NEW n, NEW r,
         \A m \in Children(p, n) : r[p.nested[m].pcol] # Null =>
           /\ B1[<<m, r[p.nested[m].pcol]>>] = B2[<<m, r[p.nested[m].pcol]>>]
           /\ \A x \in ShownBelow(p, B1, r, m) : C1[<<m, x>>] = C2[<<m, x>>]
  PROVE  Object(p, C1, B1, n, r) = Object(p, C2, B2, n, r)
<1> DEFINE K(m) == r[p.nested[m].pcol]
           R1(m) == IF K(m) = Null THEN <<>> ELSE Shown(p.nested[m], B1[<<m, K(m)>>])
           R2(m) == IF K(m) = Null THEN <<>> ELSE Shown(p.nested[m], B2[<<m, K(m)>>])
           O1(m) == [i \in DOMAIN R1(m) |-> C1[<<m, R1(m)[i]>>]]
           O2(m) == [i \in DOMAIN R2(m) |-> C2[<<m, R2(m)[i]>>]]
<1>1. ASSUME NEW m \in Children(p, n) PROVE O1(m) = O2(m)
  <2>1. R1(m) = R2(m)
    <3>1. CASE K(m) = Null
      BY <3>1
    <3>2. CASE K(m) # Null
      BY <3>2
    <3> QED BY <3>1, <3>2
  <2>2. ASSUME NEW i \in DOMAIN R1(m) PROVE C1[<<m, R1(m)[i]>>] = C2[<<m, R1(m)[i]>>]
    <3>1. CASE K(m) = Null
      BY <2>2, <3>1
    <3>2. CASE K(m) # Null
      <4>1. R1(m) = Shown(p.nested[m], B1[<<m, K(m)>>])
        BY <3>2
      <4>2. R1(m)[i] \in ShownBelow(p, B1, r, m)
        BY <2>2, <4>1 DEF ShownBelow, ToSet
      <4> QED BY <3>2, <4>2
    <3> QED BY <3>1, <3>2
  <2> HIDE DEF R1, R2
  <2> QED BY <2>1, <2>2
<1>2. /\ Object(p, C1, B1, n, r) = [key |-> r.key, v |-> r.v, rel |-> [m \in Children(p, n) |-> O1(m)]]
      /\ Object(p, C2, B2, n, r) = [key |-> r.key, v |-> r.v, rel |-> [m \in Children(p, n) |-> O2(m)]]
  BY DEF Object
<1> HIDE DEF O1, O2
<1> QED BY <1>1, <1>2


-----------------------------------------------------------------------------
(* Prefetching, node after node.                                            *)
JointFacts(f, g) ==
  /\ DOMAIN Joint(f, g) = DOMAIN f \cup DOMAIN g
  /\ \A x \in DOMAIN f : Joint(f, g)[x] = f[x]
  /\ \A x \in DOMAIN g : x \notin DOMAIN f => Joint(f, g)[x] = g[x]

LEMMA JointIs == ASSUME NEW f, NEW g PROVE JointFacts(f, g)
BY DEF JointFacts, Joint

IsTree(p) ==
  /\ Len(p.nested) \in Nat /\ DOMAIN p.nested = 1..Len(p.nested)
  /\ \A m \in 1..Len(p.nested) : p.nested[m].parent \in 0..(m - 1)

LEMMA SelectsTree == ASSUME NEW d, NEW p, Selects(d, p) PROVE IsTree(p)
BY DEF Selects, IsTree, IsNode

\* The first k nodes have been prefetched.
Prefetches(d, p, b, rows, k, s) ==
  /\ s = [buckets |-> s.buckets, todo |-> s.todo] /\ DOMAIN s.todo = 0..k
  /\ \A r \in rows : <<0, r>> \in DOMAIN b.cache \/ r \in s.todo[0]
  /\ \A m \in 1..k : \A j \in EdgeKeys(p, s, m) :
       /\ <<m, j>> \in DOMAIN s.buckets
       /\ \A x \in ToSet(Shown(p.nested[m], s.buckets[<<m, j>>])) : <<m, x>> \in DOMAIN b.cache \/ x \in s.todo[m]
  /\ \A x \in DOMAIN b.buckets : x \in DOMAIN s.buckets /\ s.buckets[x] = b.buckets[x]
  /\ \A x \in DOMAIN s.buckets :
       \/ x \in DOMAIN b.buckets
       \/ /\ x = <<x[1], x[2]>> /\ x[1] \in 1..k /\ x[2] # Null
          /\ s.buckets[x] = Fetch(d, p.nested[x[1]], x[2])

LEMMA WithEdgeFacts ==
  ASSUME NEW d, NEW p, IsTree(p), NEW b, NEW rows, NEW k \in 1..Len(p.nested), NEW s, Prefetches(d, p, b, rows, k - 1, s)
  PROVE  Prefetches(d, p, b, rows, k, WithEdge(d, p, b, s, k))
<1> DEFINE keys == EdgeKeys(p, s, k)
           new == [x \in {k} \X keys |-> Fetch(d, p.nested[k], x[2])]
           e == p.nested[k]
           B == Joint(s.buckets, new)
           s1 == [buckets |-> B, todo |-> s.todo]
           shown == UNION {ToSet(Shown(e, B[<<k, j>>])) : j \in keys}
           more == {r \in shown : <<k, r>> \notin DOMAIN b.cache}
           T == With(s.todo, k, more)
           s2 == [buckets |-> B, todo |-> T]
<1>1. /\ s = [buckets |-> s.buckets, todo |-> s.todo] /\ DOMAIN s.todo = 0..(k - 1)
      /\ \A r \in rows : <<0, r>> \in DOMAIN b.cache \/ r \in s.todo[0]
      /\ \A m \in 1..(k - 1) : \A j \in EdgeKeys(p, s, m) :
           /\ <<m, j>> \in DOMAIN s.buckets
           /\ \A x \in ToSet(Shown(p.nested[m], s.buckets[<<m, j>>])) : <<m, x>> \in DOMAIN b.cache \/ x \in s.todo[m]
      /\ \A x \in DOMAIN b.buckets : x \in DOMAIN s.buckets /\ s.buckets[x] = b.buckets[x]
      /\ \A x \in DOMAIN s.buckets :
           \/ x \in DOMAIN b.buckets
           \/ /\ x = <<x[1], x[2]>> /\ x[1] \in 1..(k - 1) /\ x[2] # Null
              /\ s.buckets[x] = Fetch(d, p.nested[x[1]], x[2])
  BY DEF Prefetches
<1>2. WithBuckets(d, p, s, k) = s1
  BY <1>1 DEF WithBuckets
<1>3. EdgeKeys(p, s1, k) = keys
  BY DEF EdgeKeys
<1>4. WithEdge(d, p, b, s, k) = s2
  <2>1. WithEdge(d, p, b, s, k) = WithTodo(p, b, s1, k)
    BY <1>2 DEF WithEdge
  <2>2. UNION {ToSet(Shown(p.nested[k], s1.buckets[<<k, j>>])) : j \in EdgeKeys(p, s1, k)} = shown
    BY <1>3
  <2> HIDE DEF shown, keys
  <2>3. WithTodo(p, b, s1, k) = [s1 EXCEPT !.todo = With(@, k, more)]
    BY <2>2 DEF WithTodo
  <2> QED BY <2>1, <2>3
<1>5. JointFacts(s.buckets, new)
  BY JointIs
<1>6. /\ DOMAIN B = DOMAIN s.buckets \cup ({k} \X keys)
      /\ \A x \in DOMAIN s.buckets : B[x] = s.buckets[x]
      /\ \A x \in {k} \X keys : x \notin DOMAIN s.buckets => B[x] = Fetch(d, e, x[2])
  BY <1>5 DEF JointFacts
<1> HIDE DEF B, new
<1>7. /\ DOMAIN T = 0..k /\ T[k] = more /\ \A n \in 0..(k - 1) : T[n] = s.todo[n]
  <2> HIDE DEF more
  <2>1. DOMAIN T = DOMAIN s.todo \cup {k} /\ T[k] = more /\ \A n \in DOMAIN s.todo : n # k => T[n] = s.todo[n]
    BY DEF With
  <2>2. (0..(k - 1)) \cup {k} = 0..k /\ \A n \in 0..(k - 1) : n # k
    BY DEF IsTree
  <2> QED BY <1>1, <2>1, <2>2
<1> HIDE DEF T
<1>8. \A m \in 1..k : p.nested[m].parent \in 0..(k - 1) /\ EdgeKeys(p, s2, m) = EdgeKeys(p, s, m)
  <2> TAKE m \in 1..k
  <2>1. p.nested[m].parent \in 0..(m - 1) /\ 0..(m - 1) \subseteq 0..(k - 1)
    BY DEF IsTree
  <2>2. T[p.nested[m].parent] = s.todo[p.nested[m].parent]
    BY <1>7, <2>1
  <2> QED BY <2>1, <2>2 DEF EdgeKeys
<1>9. ASSUME NEW m \in 1..k, NEW j \in EdgeKeys(p, s2, m)
      PROVE  /\ <<m, j>> \in DOMAIN B
             /\ \A x \in ToSet(Shown(p.nested[m], B[<<m, j>>])) : <<m, x>> \in DOMAIN b.cache \/ x \in T[m]
  <2>1. j \in EdgeKeys(p, s, m)
    BY <1>8, <1>9
  <2>2. CASE m = k
    <3>1. j \in keys /\ <<k, j>> \in {k} \X keys
      BY <2>1, <2>2
    <3>2. ToSet(Shown(e, B[<<k, j>>])) \subseteq shown
      BY <3>1
    <3> QED BY <1>6, <1>7, <2>2, <3>1, <3>2
  <2>3. CASE m # k
    <3>1. m \in 1..(k - 1) /\ m \in 0..(k - 1)
      BY <2>3
    <3>2. <<m, j>> \in DOMAIN s.buckets
      BY <1>1, <2>1, <3>1
    <3>3. B[<<m, j>>] = s.buckets[<<m, j>>] /\ <<m, j>> \in DOMAIN B
      BY <1>6, <3>2
    <3> QED BY <1>1, <1>7, <2>1, <3>1, <3>3
  <2> QED BY <2>2, <2>3
<1>10. \A x \in DOMAIN b.buckets : x \in DOMAIN B /\ B[x] = b.buckets[x]
  BY <1>1, <1>6
<1>11. ASSUME NEW x \in DOMAIN B, x \notin DOMAIN b.buckets
       PROVE  /\ x = <<x[1], x[2]>> /\ x[1] \in 1..k /\ x[2] # Null
              /\ B[x] = Fetch(d, p.nested[x[1]], x[2])
  <2>1. CASE x \in DOMAIN s.buckets
    <3>1. x = <<x[1], x[2]>> /\ x[1] \in 1..(k - 1) /\ x[2] # Null /\ s.buckets[x] = Fetch(d, p.nested[x[1]], x[2])
      BY <1>1, <1>11, <2>1
    <3> QED BY <1>6, <2>1, <3>1
  <2>2. CASE x \notin DOMAIN s.buckets
    <3>1. x \in {k} \X keys /\ Null \notin keys
      BY <1>6, <2>2 DEF EdgeKeys
    <3> QED BY <1>6, <2>2, <3>1
  <2> QED BY <2>1, <2>2
<1>12. \A r \in rows : <<0, r>> \in DOMAIN b.cache \/ r \in T[0]
  <2>1. 0 \in 0..(k - 1)
    OBVIOUS
  <2> QED BY <1>1, <1>7, <2>1
<1>13. Prefetches(d, p, b, rows, k, s2)
  <2> HIDE DEF more, shown, keys
  <2> QED BY <1>7, <1>9, <1>10, <1>11, <1>12 DEF Prefetches
<1> QED BY <1>4, <1>13

PrefetchFirst(b, rows) == [buckets |-> b.buckets, todo |-> [n \in {0} |-> {r \in rows : <<0, r>> \notin DOMAIN b.cache}]]

PrefetchRun(f, d, p, b, rows) ==
  f = [m \in 0..Len(p.nested) |-> IF m = 0 THEN PrefetchFirst(b, rows) ELSE WithEdge(d, p, b, f[m - 1], m)]

LEMMA PrefetchRunExists ==
  ASSUME NEW d, NEW p, Len(p.nested) \in Nat, NEW b, NEW rows
  PROVE  \E f : PrefetchRun(f, d, p, b, rows) /\ Prefetched(d, p, b, rows) = f[Len(p.nested)]
<1> DEFINE N == Len(p.nested)
           first == PrefetchFirst(b, rows)
           Step(x, m) == WithEdge(d, p, b, x, m)
           Is(f, k) == f = [m \in 0..k |-> IF m = 0 THEN first ELSE Step(f[m - 1], m)]
           P == {k \in 0..N : \E f : Is(f, k)}
           Fun == CHOOSE f : Is(f, N)
<1>1. Prefetched(d, p, b, rows) = Fun[N]
  BY DEF Prefetched, PrefetchFirst
<1> HIDE DEF first, Step
<1>2. 0 \in P
  <2> DEFINE f == [m \in 0..0 |-> first]
  <2>1. Is(f, 0)
    OBVIOUS
  <2> HIDE DEF f
  <2> QED BY <2>1
<1>3. ASSUME NEW k \in 1..N, k - 1 \in P PROVE k \in P
  <2>1. PICK f : Is(f, k - 1)
    BY <1>3
  <2> DEFINE h == [m \in 0..k |-> IF m < k THEN f[m] ELSE Step(f[k - 1], k)]
  <2>2. ASSUME NEW m \in 0..k PROVE h[m] = IF m = 0 THEN first ELSE Step(h[m - 1], m)
    <3>1. CASE m = 0
      BY <2>1, <3>1
    <3>2. CASE m \in 1..(k - 1)
      <4>1. h[m] = f[m] /\ h[m - 1] = f[m - 1] /\ m \in 0..(k - 1) /\ m # 0
        BY <3>2
      <4> QED BY <2>1, <4>1
    <3>3. CASE m = k
      <4>1. h[k] = Step(f[k - 1], k) /\ h[k - 1] = f[k - 1] /\ k # 0
        OBVIOUS
      <4> QED BY <3>3, <4>1
    <3> QED BY <3>1, <3>2, <3>3
  <2>3. h = [m \in 0..k |-> h[m]]
    OBVIOUS
  <2> HIDE DEF h
  <2>4. Is(h, k)
    BY <2>2, <2>3
  <2> QED BY <2>4
<1> HIDE DEF P
<1>4. 0..N \subseteq P
  BY <1>2, <1>3, StepByStep
<1>5. \E f : Is(f, N)
  <2>1. N \in P
    BY <1>4
  <2> QED BY <2>1 DEF P
<1>6. Is(Fun, N)
  BY <1>5, Zenon
<1> HIDE DEF Fun
<1>7. PrefetchRun(Fun, d, p, b, rows)
  BY <1>6 DEF first, Step, PrefetchRun
<1> QED BY <1>1, <1>7

LEMMA PrefetchedFacts ==
  ASSUME NEW d, NEW p, IsTree(p), NEW b, NEW rows
  PROVE  Prefetches(d, p, b, rows, Len(p.nested), Prefetched(d, p, b, rows))
<1> DEFINE N == Len(p.nested)
           first == PrefetchFirst(b, rows)
<1>0. PICK f : PrefetchRun(f, d, p, b, rows) /\ Prefetched(d, p, b, rows) = f[N]
  BY PrefetchRunExists DEF IsTree
<1>1. f = [m \in 0..N |-> IF m = 0 THEN first ELSE WithEdge(d, p, b, f[m - 1], m)] /\ Prefetched(d, p, b, rows) = f[N]
  BY <1>0 DEF PrefetchRun
<1> DEFINE P == {k \in 0..N : Prefetches(d, p, b, rows, k, f[k])}
<1>2. N \in Nat
  BY DEF IsTree
<1> HIDE DEF N, first
<1>3. 0 \in P
  <2>1. Prefetches(d, p, b, rows, 0, first)
    <3>1. 1..0 = {} /\ 0..0 = {0}
      OBVIOUS
    <3> QED BY <3>1 DEF Prefetches, first, PrefetchFirst
  <2> QED BY <1>1, <1>2, <2>1
<1>4. ASSUME NEW k \in 1..N, k - 1 \in P PROVE k \in P
  <2>1. f[k] = WithEdge(d, p, b, f[k - 1], k) /\ k \in 0..N
    BY <1>1, <1>2
  <2> QED BY <1>4, <2>1, WithEdgeFacts DEF N
<1> HIDE DEF P
<1>5. 0..N \subseteq P
  BY <1>2, <1>3, <1>4, StepByStep
<1>6. N \in P
  BY <1>2, <1>5
<1> QED BY <1>1, <1>6 DEF P, N


-----------------------------------------------------------------------------
(* Rendering what has been prefetched, from the leaves up.                  *)
Within(f, g) == \A x \in DOMAIN f : x \in DOMAIN g /\ g[x] = f[x]

LEMMA MadeWithin ==
  ASSUME NEW p, NEW C1, NEW C2, NEW B1, NEW B2, NEW n, NEW r, Within(C1, C2), Within(B1, B2), IsMade(p, C1, B1, n, r)
  PROVE  IsMade(p, C2, B2, n, r) /\ Object(p, C1, B1, n, r) = Object(p, C2, B2, n, r)
<1>1. ASSUME NEW m \in Children(p, n), r[p.nested[m].pcol] # Null
      PROVE  /\ <<m, r[p.nested[m].pcol]>> \in DOMAIN B2
             /\ B1[<<m, r[p.nested[m].pcol]>>] = B2[<<m, r[p.nested[m].pcol]>>]
             /\ ShownBelow(p, B1, r, m) = ShownBelow(p, B2, r, m)
             /\ \A x \in ShownBelow(p, B1, r, m) : <<m, x>> \in DOMAIN C2 /\ C1[<<m, x>>] = C2[<<m, x>>]
  <2>1. /\ <<m, r[p.nested[m].pcol]>> \in DOMAIN B1
        /\ \A x \in ShownBelow(p, B1, r, m) : <<m, x>> \in DOMAIN C1
    BY <1>1 DEF IsMade
  <2>2. <<m, r[p.nested[m].pcol]>> \in DOMAIN B2 /\ B1[<<m, r[p.nested[m].pcol]>>] = B2[<<m, r[p.nested[m].pcol]>>]
    BY <2>1 DEF Within
  <2>3. \A x \in ShownBelow(p, B1, r, m) : <<m, x>> \in DOMAIN C2 /\ C1[<<m, x>>] = C2[<<m, x>>]
    BY <2>1 DEF Within
  <2> QED BY <2>2, <2>3 DEF ShownBelow
<1>2. IsMade(p, C2, B2, n, r)
  BY <1>1 DEF IsMade
<1>3. Object(p, C1, B1, n, r) = Object(p, C2, B2, n, r)
  BY <1>1, ObjectSame
<1> QED BY <1>2, <1>3

\* The objects of the nodes from n on are there.
Makes(p, b, s, n, cache) ==
  /\ Within(b.cache, cache)
  /\ \A m \in n..Len(p.nested) : \A r \in s.todo[m] : <<m, r>> \in DOMAIN cache
  /\ \A c \in DOMAIN cache :
       /\ c = <<c[1], c[2]>> /\ c[1] \in 0..Len(p.nested)
       /\ IsMade(p, cache, s.buckets, c[1], c[2])
       /\ cache[c] = Object(p, cache, s.buckets, c[1], c[2])

LEMMA WithNodeFacts ==
  ASSUME NEW d, NEW p, IsTree(p), NEW b, NEW rows, NEW s, Prefetches(d, p, b, rows, Len(p.nested), s),
         NEW n \in 0..Len(p.nested), NEW C, Makes(p, b, s, n + 1, C)
  PROVE  Makes(p, b, s, n, WithNode(p, s, C, n))
<1> DEFINE N == Len(p.nested)
           new == [c \in {n} \X s.todo[n] |-> Object(p, C, s.buckets, n, c[2])]
           D == Joint(C, new)
<1>1. WithNode(p, s, C, n) = D
  BY DEF WithNode
<1>2. JointFacts(C, new)
  BY JointIs
<1>3. /\ DOMAIN D = DOMAIN C \cup ({n} \X s.todo[n])
      /\ \A c \in DOMAIN C : D[c] = C[c]
      /\ \A c \in {n} \X s.todo[n] : c \notin DOMAIN C => D[c] = Object(p, C, s.buckets, n, c[2])
  BY <1>2 DEF JointFacts
<1> HIDE DEF D, new
<1>4. /\ Within(b.cache, C)
      /\ \A m \in (n + 1)..N : \A r \in s.todo[m] : <<m, r>> \in DOMAIN C
      /\ \A c \in DOMAIN C :
           /\ c = <<c[1], c[2]>> /\ c[1] \in 0..N
           /\ IsMade(p, C, s.buckets, c[1], c[2])
           /\ C[c] = Object(p, C, s.buckets, c[1], c[2])
  BY DEF Makes
<1>5. Within(C, D) /\ Within(b.cache, D) /\ Within(s.buckets, s.buckets)
  BY <1>3, <1>4 DEF Within
<1>6. ASSUME NEW r \in s.todo[n] PROVE IsMade(p, C, s.buckets, n, r)
  <2> SUFFICES ASSUME NEW m \in Children(p, n), r[p.nested[m].pcol] # Null
               PROVE  /\ <<m, r[p.nested[m].pcol]>> \in DOMAIN s.buckets
                      /\ \A x \in ShownBelow(p, s.buckets, r, m) : <<m, x>> \in DOMAIN C
    BY DEF IsMade
  <2>1. m \in 1..N /\ p.nested[m].parent = n /\ m \in (n + 1)..N
    <3>1. m \in 1..N /\ p.nested[m].parent = n
      BY DEF Children, IsTree
    <3>2. n \in 0..(m - 1)
      BY <3>1 DEF IsTree
    <3> QED BY <3>1, <3>2
  <2>2. r[p.nested[m].pcol] \in EdgeKeys(p, s, m)
    BY <2>1 DEF EdgeKeys
  <2>3. /\ <<m, r[p.nested[m].pcol]>> \in DOMAIN s.buckets
        /\ \A x \in ShownBelow(p, s.buckets, r, m) : <<m, x>> \in DOMAIN b.cache \/ x \in s.todo[m]
    BY <2>1, <2>2 DEF Prefetches, ShownBelow
  <2> QED BY <1>4, <2>1, <2>3 DEF Within
<1>7. ASSUME NEW m \in n..N, NEW r \in s.todo[m] PROVE <<m, r>> \in DOMAIN D
  <2>1. m = n \/ m \in (n + 1)..N
    OBVIOUS
  <2> QED BY <1>3, <1>4, <2>1
<1>8. ASSUME NEW c \in DOMAIN D
      PROVE  /\ c = <<c[1], c[2]>> /\ c[1] \in 0..N
             /\ IsMade(p, D, s.buckets, c[1], c[2])
             /\ D[c] = Object(p, D, s.buckets, c[1], c[2])
  <2>1. CASE c \in DOMAIN C
    BY <1>3, <1>4, <1>5, <2>1, MadeWithin
  <2>2. CASE c \notin DOMAIN C
    <3>1. c \in {n} \X s.todo[n]
      BY <1>3, <2>2
    <3>2. c = <<c[1], c[2]>> /\ c[1] = n /\ c[2] \in s.todo[n]
      BY <3>1
    <3>3. D[c] = Object(p, C, s.buckets, n, c[2])
      BY <1>3, <2>2, <3>1
    <3>4. IsMade(p, C, s.buckets, n, c[2])
      BY <1>6, <3>2
    <3> QED BY <1>5, <3>2, <3>3, <3>4, MadeWithin
  <2> QED BY <2>1, <2>2
<1>9. Makes(p, b, s, n, D)
  BY <1>5, <1>7, <1>8 DEF Makes
<1> QED BY <1>1, <1>9

ObjectRun(f, p, b, s) ==
  f = [n \in 0..(Len(p.nested) + 1) |-> IF n = 0 THEN b.cache ELSE WithNode(p, s, f[n - 1], Len(p.nested) + 1 - n)]

LEMMA ObjectRunExists ==
  ASSUME NEW p, Len(p.nested) \in Nat, NEW b, NEW s
  PROVE  \E f : ObjectRun(f, p, b, s) /\ WithObjects(p, b, s) = f[Len(p.nested) + 1]
<1> DEFINE N == Len(p.nested) + 1
           Step(x, n) == WithNode(p, s, x, N - n)
           Is(f, k) == f = [n \in 0..k |-> IF n = 0 THEN b.cache ELSE Step(f[n - 1], n)]
           P == {k \in 0..N : \E f : Is(f, k)}
<1>2. N \in Nat
  OBVIOUS
<1> HIDE DEF Step, N
<1>3. 0 \in P
  <2> DEFINE f == [n \in 0..0 |-> b.cache]
  <2>1. Is(f, 0)
    OBVIOUS
  <2> HIDE DEF f
  <2> QED BY <1>2, <2>1
<1>4. ASSUME NEW k \in 1..N, k - 1 \in P PROVE k \in P
  <2>1. PICK f : Is(f, k - 1)
    BY <1>4
  <2> DEFINE h == [n \in 0..k |-> IF n < k THEN f[n] ELSE Step(f[k - 1], k)]
  <2>2. ASSUME NEW n \in 0..k PROVE h[n] = IF n = 0 THEN b.cache ELSE Step(h[n - 1], n)
    <3>1. CASE n = 0
      BY <2>1, <3>1
    <3>2. CASE n \in 1..(k - 1)
      <4>1. h[n] = f[n] /\ h[n - 1] = f[n - 1] /\ n \in 0..(k - 1) /\ n # 0
        BY <3>2
      <4> QED BY <2>1, <4>1
    <3>3. CASE n = k
      <4>1. h[k] = Step(f[k - 1], k) /\ h[k - 1] = f[k - 1] /\ k # 0
        OBVIOUS
      <4> QED BY <3>3, <4>1
    <3> QED BY <3>1, <3>2, <3>3
  <2>3. h = [n \in 0..k |-> h[n]]
    OBVIOUS
  <2> HIDE DEF h
  <2>4. Is(h, k)
    BY <2>2, <2>3
  <2>5. k \in 0..N
    BY <1>2
  <2> QED BY <2>4, <2>5
<1> HIDE DEF P
<1>5. 0..N \subseteq P
  BY <1>2, <1>3, <1>4, StepByStep
<1>6. \E f : Is(f, N)
  <2>1. N \in P
    BY <1>2, <1>5
  <2> QED BY <2>1 DEF P
<1>7. \E f : ObjectRun(f, p, b, s)
  BY <1>6 DEF Step, N, ObjectRun
<1> DEFINE Fun == CHOOSE f : ObjectRun(f, p, b, s)
<1>8. WithObjects(p, b, s) = Fun[Len(p.nested) + 1]
  BY DEF WithObjects, ObjectRun
<1>9. ObjectRun(Fun, p, b, s)
  BY <1>7, Zenon
<1> QED BY <1>8, <1>9

(* Rendering keeps what hangs together, adds to it what the root rows need, *)
(* and what it adds to the buckets is what the tables hold.                 *)
Grown(d, p, b, r) ==
  /\ BatchOK(p, r) /\ Within(b.cache, r.cache) /\ Within(b.buckets, r.buckets)
  /\ \A x \in DOMAIN r.buckets : x \notin DOMAIN b.buckets => r.buckets[x] = Fetch(d, p.nested[x[1]], x[2])

LEMMA RenderedFacts ==
  ASSUME NEW d, NEW p, Selects(d, p), NEW b, BatchOK(p, b), NEW rows
  PROVE  /\ Grown(d, p, b, Rendered(d, p, b, rows))
         /\ \A x \in rows : <<0, x>> \in DOMAIN Rendered(d, p, b, rows).cache
         /\ \E C, B : Rendered(d, p, b, rows) = [b EXCEPT !.cache = C, !.buckets = B]
<1> DEFINE s == Prefetched(d, p, b, rows)
           N == Len(p.nested)
           r == Rendered(d, p, b, rows)
<1>1. IsTree(p) /\ N \in Nat
  BY SelectsTree DEF Selects
<1>2. Prefetches(d, p, b, rows, N, s)
  BY <1>1, PrefetchedFacts
<1>3. PICK f : ObjectRun(f, p, b, s) /\ WithObjects(p, b, s) = f[Len(p.nested) + 1]
  <2> HIDE DEF s
  <2> QED BY <1>1, ObjectRunExists
<1>4. r = [b EXCEPT !.buckets = s.buckets, !.cache = f[N + 1]]
  BY <1>3 DEF Rendered
<1> HIDE DEF s, r
<1>5. f = [n \in 0..(N + 1) |-> IF n = 0 THEN b.cache ELSE WithNode(p, s, f[n - 1], N + 1 - n)]
  BY <1>3 DEF ObjectRun
<1> DEFINE P == {k \in 0..(N + 1) : Makes(p, b, s, N + 1 - k, f[k])}
<1>6. Within(b.buckets, s.buckets) /\ Within(b.cache, b.cache)
  BY <1>2 DEF Prefetches, Within
<1>7. 0 \in P
  <2>1. f[0] = b.cache /\ 0 \in 0..(N + 1) /\ N + 1 - 0 = N + 1 /\ (N + 1)..N = {}
    BY <1>1, <1>5
  <2>2. Makes(p, b, s, N + 1, b.cache)
    <3>1. \A m \in (N + 1)..N : FALSE
      BY <1>1
    <3>2. ASSUME NEW c \in DOMAIN b.cache
          PROVE  /\ c = <<c[1], c[2]>> /\ c[1] \in 0..N
                 /\ IsMade(p, b.cache, s.buckets, c[1], c[2])
                 /\ b.cache[c] = Object(p, b.cache, s.buckets, c[1], c[2])
      BY <1>6, MadeWithin DEF BatchOK
    <3> QED BY <1>6, <3>1, <3>2 DEF Makes
  <2> HIDE DEF N
  <2> QED BY <2>1, <2>2
<1>8. ASSUME NEW k \in 1..(N + 1), k - 1 \in P PROVE k \in P
  <2> DEFINE n == N + 1 - k
  <2>1. n \in 0..N /\ n + 1 = N + 1 - (k - 1) /\ k \in 0..(N + 1) /\ k # 0
    BY <1>1
  <2>2. f[k] = WithNode(p, s, f[k - 1], n)
    BY <1>5, <2>1
  <2>3. Makes(p, b, s, n + 1, f[k - 1])
    BY <1>8, <2>1
  <2> HIDE DEF n
  <2>4. Makes(p, b, s, n, f[k])
    BY <1>1, <1>2, <2>1, <2>2, <2>3, WithNodeFacts
  <2> QED BY <2>1, <2>4 DEF n
<1> HIDE DEF P
<1>9. 0..(N + 1) \subseteq P
  <2> DEFINE M == N + 1
  <2>1. M \in Nat
    BY <1>1
  <2> HIDE DEF M
  <2>2. 0..M \subseteq P
    BY <1>7, <1>8, <2>1, StepByStep DEF M
  <2> QED BY <2>2 DEF M
<1>10. Makes(p, b, s, 0, f[N + 1])
  <2>1. N + 1 \in P /\ N + 1 - (N + 1) = 0
    BY <1>1, <1>9
  <2> QED BY <2>1, Zenon DEF P
<1> DEFINE C == f[N + 1]
<1> HIDE DEF C
<1>11. /\ IsBatch(r) /\ r.cache = C /\ r.buckets = s.buckets /\ \E C2, B2 : r = [b EXCEPT !.cache = C2, !.buckets = B2]
  <2>1. r = [b EXCEPT !.buckets = s.buckets, !.cache = C]
    BY <1>4 DEF C
  <2>2. r = [b EXCEPT !.cache = C, !.buckets = s.buckets]
    BY <2>1 DEF IsBatch, BatchOK
  <2>3. IsBatch(r) /\ r.cache = C /\ r.buckets = s.buckets
    BY <2>1 DEF IsBatch, BatchOK
  <2> QED BY <2>2, <2>3
<1>12. /\ Within(b.cache, C) /\ \A x \in s.todo[0] : <<0, x>> \in DOMAIN C
       /\ \A c \in DOMAIN C :
            /\ c = <<c[1], c[2]>> /\ c[1] \in 0..N
            /\ IsMade(p, C, s.buckets, c[1], c[2])
            /\ C[c] = Object(p, C, s.buckets, c[1], c[2])
  <2>1. 0 \in 0..N
    BY <1>1
  <2> QED BY <1>10, <2>1 DEF Makes, C
<1>13. \A x \in DOMAIN s.buckets :
         \/ x \in DOMAIN b.buckets
         \/ x = <<x[1], x[2]>> /\ x[1] \in 1..N /\ x[2] # Null /\ s.buckets[x] = Fetch(d, p.nested[x[1]], x[2])
  BY <1>2 DEF Prefetches
<1>14. ASSUME NEW x \in DOMAIN s.buckets PROVE IsBucket(p, x, s.buckets[x])
  <2>1. CASE x \in DOMAIN b.buckets
    BY <1>6, <2>1 DEF BatchOK, Within
  <2>2. CASE x \notin DOMAIN b.buckets
    <3> DEFINE e == p.nested[x[1]]
               k == x[2]
               bucket == s.buckets[x]
    <3>1. x = <<x[1], x[2]>> /\ x[1] \in DOMAIN p.nested /\ k # Null /\ bucket = Fetch(d, e, k)
      BY <1>13, <2>2 DEF Selects
    <3>2. IsQuery(e) /\ e.joins = <<>> /\ IsDatabase(d, e)
      BY <3>1 DEF Selects, IsNode
    <3> HIDE DEF e, k, bucket
    <3>3. bucket \in Seq(Having(d, e, k))
      BY <3>1, <3>2, FetchFacts
    <3>4. bucket \in Seq(ToSet(bucket)) /\ \A y \in ToSet(bucket) : y[e.ccol] = k
      BY <3>3 DEF ToSet, Having
    <3> QED BY <3>1, <3>4 DEF IsBucket, e, k, bucket
  <2> QED BY <2>1, <2>2
<1>15. BatchOK(p, r)
  BY <1>11, <1>12, <1>14 DEF BatchOK
<1>16. \A x \in rows : <<0, x>> \in DOMAIN C
  BY <1>2, <1>12 DEF Prefetches, Within
<1>17. Grown(d, p, b, r)
  BY <1>6, <1>11, <1>12, <1>13, <1>15 DEF Grown
<1> QED BY <1>11, <1>16, <1>17 DEF r


-----------------------------------------------------------------------------
(* Invalidation.  The worklist ends in a set that is closed under parents.  *)
AncestorRun(f, p, b, cs) == f = [n \in 0..Len(p.nested) |-> IF n = 0 THEN cs ELSE WithParents(p, b, f[n - 1])]

LEMMA AncestorRunExists ==
  ASSUME NEW p, Len(p.nested) \in Nat, NEW b, NEW cs
  PROVE  \E f : AncestorRun(f, p, b, cs) /\ WithAncestors(p, b, cs) = f[Len(p.nested)]
<1> DEFINE N == Len(p.nested)
           Is(f, k) == f = [n \in 0..k |-> IF n = 0 THEN cs ELSE WithParents(p, b, f[n - 1])]
           P == {k \in 0..N : \E f : Is(f, k)}
<1> HIDE DEF N
<1>1. N \in Nat
  BY DEF N
<1>2. 0 \in P
  <2> DEFINE f == [n \in 0..0 |-> cs]
  <2>1. Is(f, 0)
    OBVIOUS
  <2> HIDE DEF f
  <2> QED BY <1>1, <2>1
<1>3. ASSUME NEW k \in 1..N, k - 1 \in P PROVE k \in P
  <2>1. PICK f : Is(f, k - 1)
    BY <1>3
  <2> DEFINE h == [n \in 0..k |-> IF n < k THEN f[n] ELSE WithParents(p, b, f[k - 1])]
  <2>2. ASSUME NEW n \in 0..k PROVE h[n] = IF n = 0 THEN cs ELSE WithParents(p, b, h[n - 1])
    <3>1. CASE n = 0
      BY <2>1, <3>1
    <3>2. CASE n \in 1..(k - 1)
      <4>1. h[n] = f[n] /\ h[n - 1] = f[n - 1] /\ n \in 0..(k - 1) /\ n # 0
        BY <3>2
      <4> QED BY <2>1, <4>1
    <3>3. CASE n = k
      <4>1. h[k] = WithParents(p, b, f[k - 1]) /\ h[k - 1] = f[k - 1] /\ k # 0
        OBVIOUS
      <4> QED BY <3>3, <4>1
    <3> QED BY <3>1, <3>2, <3>3
  <2>3. h = [n \in 0..k |-> h[n]]
    OBVIOUS
  <2> HIDE DEF h
  <2>4. Is(h, k)
    BY <2>2, <2>3
  <2>5. k \in 0..N
    BY <1>1
  <2> QED BY <2>4, <2>5
<1> HIDE DEF P
<1>4. 0..N \subseteq P
  BY <1>1, <1>2, <1>3, StepByStep
<1>5. \E f : Is(f, N)
  <2>1. N \in P
    BY <1>1, <1>4
  <2> QED BY <2>1 DEF P
<1>6. \E f : AncestorRun(f, p, b, cs)
  BY <1>5 DEF AncestorRun, N
<1> DEFINE Fun == CHOOSE f : AncestorRun(f, p, b, cs)
<1>7. WithAncestors(p, b, cs) = Fun[Len(p.nested)]
  BY DEF WithAncestors, AncestorRun
<1>8. AncestorRun(Fun, p, b, cs)
  BY <1>6, Zenon
<1> QED BY <1>7, <1>8

LEMMA ParentsBelow ==
  ASSUME NEW p, IsTree(p), NEW b, NEW c, c[1] \in 0..Len(p.nested), NEW x \in Parents(p, b, c)
  PROVE  x \in DOMAIN b.cache /\ c[1] \in 1..Len(p.nested) /\ x[1] \in 0..(c[1] - 1)
<1>1. c[1] # 0 /\ x \in Members(p, b, c[1], c[2][p.nested[c[1]].ccol])
  BY DEF Parents
<1>2. x \in DOMAIN b.cache /\ x[1] = p.nested[c[1]].parent
  BY <1>1 DEF Members
<1> QED BY <1>1, <1>2 DEF IsTree

LEMMA AncestorFacts ==
  ASSUME NEW p, IsTree(p), NEW b, \A c \in DOMAIN b.cache : c[1] \in 0..Len(p.nested),
         NEW cs \in SUBSET DOMAIN b.cache
  PROVE  /\ cs \subseteq WithAncestors(p, b, cs) /\ WithAncestors(p, b, cs) \subseteq DOMAIN b.cache
         /\ \A c \in WithAncestors(p, b, cs) : Parents(p, b, c) \subseteq WithAncestors(p, b, cs)
<1> DEFINE N == Len(p.nested)
<1>1. N \in Nat
  BY DEF IsTree
<1>2. PICK f : AncestorRun(f, p, b, cs) /\ WithAncestors(p, b, cs) = f[N]
  BY <1>1, AncestorRunExists
<1>3. f = [n \in 0..N |-> IF n = 0 THEN cs ELSE WithParents(p, b, f[n - 1])]
  BY <1>2 DEF AncestorRun
<1> DEFINE Good(k) == /\ cs \subseteq f[k] /\ f[k] \subseteq DOMAIN b.cache
                      /\ \A c \in f[k] : c[1] > N - k => Parents(p, b, c) \subseteq f[k]
           P == {k \in 0..N : Good(k)}
<1>4. \A c \in DOMAIN b.cache : c[1] \in 0..N
  OBVIOUS
<1>5. ASSUME NEW c \in DOMAIN b.cache, NEW x \in Parents(p, b, c)
      PROVE  x \in DOMAIN b.cache /\ c[1] \in 1..N /\ x[1] \in 0..(c[1] - 1)
  BY <1>4, ParentsBelow
<1> HIDE DEF N
<1>6. 0 \in P
  <2>1. f[0] = cs /\ 0 \in 0..N
    BY <1>1, <1>3
  <2>2. ASSUME NEW c \in cs, c[1] > N - 0 PROVE FALSE
    BY <1>1, <1>4, <2>2
  <2> QED BY <2>1, <2>2
<1>7. ASSUME NEW k \in 1..N, k - 1 \in P PROVE k \in P
  <2> DEFINE s == f[k - 1]
             t == f[k]
  <2>1. t = s \cup UNION {Parents(p, b, c) : c \in s}
    <3>1. k \in 0..N /\ k # 0
      BY <1>1
    <3> QED BY <1>3, <3>1 DEF WithParents
  <2>2. cs \subseteq s /\ s \subseteq DOMAIN b.cache /\ \A c \in s : c[1] > N - (k - 1) => Parents(p, b, c) \subseteq s
    BY <1>7
  <2> HIDE DEF s, t
  <2>3. t \subseteq DOMAIN b.cache
    BY <1>5, <2>1, <2>2
  <2>4. ASSUME NEW c \in t, c[1] > N - k PROVE Parents(p, b, c) \subseteq t
    <3>1. CASE c \in s
      BY <2>1, <3>1
    <3>2. CASE c \notin s
      <4>1. PICK x \in s : c \in Parents(p, b, x)
        BY <2>1, <3>2
      <4>2. x[1] \in 1..N /\ c[1] \in 0..(x[1] - 1)
        BY <1>5, <2>2, <4>1
      <4>3. x[1] > N - (k - 1)
        BY <1>1, <2>4, <4>2
      <4> QED BY <2>2, <3>2, <4>1, <4>3
    <3> QED BY <3>1, <3>2
  <2>5. Good(k)
    BY <2>1, <2>2, <2>3, <2>4 DEF t
  <2>6. k \in 0..N
    BY <1>1
  <2> HIDE DEF Good
  <2> QED BY <2>5, <2>6
<1> HIDE DEF P
<1>8. 0..N \subseteq P
  BY <1>1, <1>6, <1>7, StepByStep
<1>9. Good(N)
  <2>1. N \in P
    BY <1>1, <1>8
  <2> QED BY <2>1, Zenon DEF P
<1>10. ASSUME NEW c \in f[N] PROVE Parents(p, b, c) \subseteq f[N]
  <2> SUFFICES ASSUME NEW x \in Parents(p, b, c) PROVE x \in f[N]
    OBVIOUS
  <2>1. c[1] \in 1..N
    BY <1>5, <1>9
  <2>2. c[1] > N - N
    BY <1>1, <2>1
  <2> QED BY <1>9, <2>2
<1> QED BY <1>2, <1>9, <1>10

(* What is left after an invalidation hangs together.                       *)
IsInvalidated(p, b, inv, r) ==
  /\ BatchOK(p, r) /\ Within(r.cache, b.cache) /\ Within(r.buckets, b.buckets)
  /\ \A x \in DOMAIN r.buckets : x \notin inv.keys /\ ~ByTable(p, inv, x[1])
  /\ r.rows = b.rows /\ r.items = b.items /\ r.patch = b.patch
  /\ \A c \in DOMAIN b.cache : c[1] = 0 /\ c[2].id \notin r.dirty => c \in DOMAIN r.cache
  /\ r.dirty = b.dirty \cup (IF inv.root THEN inv.dirty ELSE {})
                 \cup {c[2].id : c \in {x \in DOMAIN b.cache \ DOMAIN r.cache : x[1] = 0}}
  /\ r.full = (b.full \/ (inv.root /\ ~inv.stable))

LEMMA InvalidationFacts ==
  ASSUME NEW p, IsTree(p), NEW b, BatchOK(p, b), NEW inv
  PROVE  IsInvalidated(p, b, inv, ApplyInvalidation(p, b, inv))
<1> DEFINE I == Invalidated(p, b, inv)
           gone == WithAncestors(p, b, I)
           r == ApplyInvalidation(p, b, inv)
           C == [c \in DOMAIN b.cache \ gone |-> b.cache[c]]
           B == [x \in {y \in DOMAIN b.buckets : y \notin inv.keys /\ ~ByTable(p, inv, y[1])} |-> b.buckets[x]]
           dirty == b.dirty \cup (IF inv.root THEN inv.dirty ELSE {}) \cup {c[2].id : c \in {x \in gone : x[1] = 0}}
<1>1. /\ IsBatch(r) /\ r.cache = C /\ r.buckets = B /\ r.dirty = dirty /\ r.full = (b.full \/ (inv.root /\ ~inv.stable))
      /\ r.rows = b.rows /\ r.items = b.items /\ r.patch = b.patch
  <2>1. b = [cache |-> b.cache, buckets |-> b.buckets, rows |-> b.rows, items |-> b.items,
             dirty |-> b.dirty, full |-> b.full, patch |-> b.patch]
    BY DEF BatchOK, IsBatch
  <2>2. r = [b EXCEPT !.cache = C, !.buckets = B, !.dirty = dirty, !.full = @ \/ (inv.root /\ ~inv.stable)]
    BY <2>1 DEF ApplyInvalidation
  <2> HIDE DEF C, B, dirty, r
  <2>3. r = [cache |-> C, buckets |-> B, rows |-> b.rows, items |-> b.items,
             dirty |-> dirty, full |-> b.full \/ (inv.root /\ ~inv.stable), patch |-> b.patch]
    BY <2>1, <2>2
  <2> QED BY <2>3 DEF IsBatch
<1>2. /\ I \subseteq DOMAIN b.cache
      /\ \A x \in inv.keys : Members(p, b, x[1], x[2]) \subseteq I
      /\ \A m \in DOMAIN p.nested : ByTable(p, inv, m) => Referring(p, b, m) \subseteq I
  <2>1. InvalidatedByRow(p, b, inv) \subseteq DOMAIN b.cache
    BY DEF InvalidatedByRow
  <2>2. /\ InvalidatedByKey(p, b, inv) \subseteq DOMAIN b.cache
        /\ \A x \in inv.keys : Members(p, b, x[1], x[2]) \subseteq InvalidatedByKey(p, b, inv)
    BY DEF Members, InvalidatedByKey
  <2>3. /\ InvalidatedByTable(p, b, inv) \subseteq DOMAIN b.cache
        /\ \A m \in DOMAIN p.nested : ByTable(p, inv, m) => Referring(p, b, m) \subseteq InvalidatedByTable(p, b, inv)
    BY DEF Referring, InvalidatedByTable
  <2> QED BY <2>1, <2>2, <2>3 DEF Invalidated
<1>3. \A c \in DOMAIN b.cache : c = <<c[1], c[2]>> /\ c[1] \in 0..Len(p.nested)
  BY DEF BatchOK
<1>4. I \subseteq gone /\ gone \subseteq DOMAIN b.cache /\ \A c \in gone : Parents(p, b, c) \subseteq gone
  <2> HIDE DEF I
  <2> QED BY <1>2, <1>3, AncestorFacts
<1>5. ASSUME NEW c \in DOMAIN b.cache, NEW m \in Children(p, c[1]), c[2][p.nested[m].pcol] # Null,
             <<m, c[2][p.nested[m].pcol]>> \in inv.keys \/ ByTable(p, inv, m)
      PROVE  c \in gone
  <2>1. m \in DOMAIN p.nested /\ p.nested[m].parent = c[1]
    BY DEF Children
  <2>2. CASE <<m, c[2][p.nested[m].pcol]>> \in inv.keys
    <3> DEFINE x == <<m, c[2][p.nested[m].pcol]>>
    <3>1. c \in Members(p, b, x[1], x[2])
      BY <2>1 DEF Members
    <3>2. x \in inv.keys
      BY <2>2
    <3> HIDE DEF x, I
    <3>3. c \in I
      BY <1>2, <3>1, <3>2
    <3> QED BY <1>4, <3>3
  <2>3. CASE ByTable(p, inv, m)
    <3>1. c \in Referring(p, b, m)
      BY <1>5, <2>1 DEF Referring
    <3> HIDE DEF I
    <3> QED BY <1>2, <1>4, <2>1, <2>3, <3>1
  <2> QED BY <1>5, <2>2, <2>3
<1> HIDE DEF I, gone, r, dirty
<1>6. Within(C, b.cache) /\ Within(B, b.buckets) /\ \A x \in DOMAIN B : x \notin inv.keys /\ ~ByTable(p, inv, x[1])
  BY DEF Within
<1>7. ASSUME NEW c \in DOMAIN C
      PROVE  /\ IsMade(p, C, B, c[1], c[2]) /\ C[c] = Object(p, C, B, c[1], c[2])
  <2>1. c \in DOMAIN b.cache /\ c \notin gone /\ C[c] = b.cache[c] /\ c = <<c[1], c[2]>>
    BY <1>3
  <2>2. IsMade(p, b.cache, b.buckets, c[1], c[2]) /\ b.cache[c] = Object(p, b.cache, b.buckets, c[1], c[2])
    BY <2>1 DEF BatchOK
  <2>3. ASSUME NEW m \in Children(p, c[1]), c[2][p.nested[m].pcol] # Null
        PROVE  /\ <<m, c[2][p.nested[m].pcol]>> \in DOMAIN B
               /\ B[<<m, c[2][p.nested[m].pcol]>>] = b.buckets[<<m, c[2][p.nested[m].pcol]>>]
               /\ \A x \in ShownBelow(p, B, c[2], m) : <<m, x>> \in DOMAIN C /\ C[<<m, x>>] = b.cache[<<m, x>>]
    <3> DEFINE k == c[2][p.nested[m].pcol]
               bucket == b.buckets[<<m, k>>]
    <3>1. <<m, k>> \in DOMAIN b.buckets /\ \A x \in ShownBelow(p, b.buckets, c[2], m) : <<m, x>> \in DOMAIN b.cache
      BY <2>2, <2>3 DEF IsMade
    <3>2. <<m, k>> \notin inv.keys /\ ~ByTable(p, inv, m)
      BY <1>5, <2>1, <2>3
    <3>3. <<m, k>> \in DOMAIN B /\ B[<<m, k>>] = bucket
      BY <3>1, <3>2
    <3>4. ShownBelow(p, B, c[2], m) = ShownBelow(p, b.buckets, c[2], m)
      BY <3>3 DEF ShownBelow
    <3>5. m \in 1..Len(p.nested) /\ p.nested[m].parent = c[1]
      <4>1. m \in DOMAIN p.nested /\ p.nested[m].parent = c[1]
        BY DEF Children
      <4> QED BY <4>1 DEF IsTree
    <3>6. bucket \in Seq(ToSet(bucket)) /\ \A x \in ToSet(bucket) : x[p.nested[m].ccol] = k
      <4> DEFINE y == <<m, k>>
      <4>1. IsBucket(p, y, b.buckets[y]) /\ y[1] = m /\ y[2] = k
        BY <3>1 DEF BatchOK
      <4> QED BY <4>1 DEF IsBucket
    <3>7. ToSet(Shown(p.nested[m], bucket)) \subseteq ToSet(bucket)
      BY <3>6, ShownFacts
    <3>8. ASSUME NEW x \in ShownBelow(p, b.buckets, c[2], m) PROVE <<m, x>> \notin gone
      <4>1. x[p.nested[m].ccol] = k
        BY <3>6, <3>7 DEF ShownBelow
      <4> DEFINE y == <<m, x>>
      <4>2. y[1] = m /\ y[2] = x
        OBVIOUS
      <4> HIDE DEF y
      <4>3. c \in Members(p, b, m, k)
        BY <2>1, <3>5 DEF Members
      <4>4. c \in Parents(p, b, y)
        BY <3>5, <4>1, <4>2, <4>3 DEF Parents
      <4> QED BY <1>4, <2>1, <4>4 DEF y
    <3> QED BY <3>1, <3>3, <3>4, <3>8
  <2>4. IsMade(p, C, B, c[1], c[2])
    BY <2>3 DEF IsMade
  <2>5. Object(p, C, B, c[1], c[2]) = Object(p, b.cache, b.buckets, c[1], c[2])
    <3> HIDE DEF C, B
    <3> QED BY <2>3, ObjectSame
  <2> QED BY <2>1, <2>2, <2>4, <2>5
<1>8. BatchOK(p, r)
  <2>1. ASSUME NEW x \in DOMAIN B PROVE IsBucket(p, x, B[x])
    BY DEF BatchOK
  <2>2. \A c \in DOMAIN C : c = <<c[1], c[2]>> /\ c[1] \in 0..Len(p.nested)
    BY <1>3
  <2> HIDE DEF C, B
  <2> QED BY <1>1, <1>7, <2>1, <2>2 DEF BatchOK
<1>9. {x \in gone : x[1] = 0} = {x \in DOMAIN b.cache \ DOMAIN r.cache : x[1] = 0}
  <2>1. DOMAIN b.cache \ DOMAIN r.cache = gone
    BY <1>1, <1>4
  <2> QED BY <2>1
<1>10. dirty = b.dirty \cup (IF inv.root THEN inv.dirty ELSE {})
                 \cup {c[2].id : c \in {x \in DOMAIN b.cache \ DOMAIN r.cache : x[1] = 0}}
  BY <1>9 DEF dirty
<1>11. \A c \in DOMAIN b.cache : c[1] = 0 /\ c[2].id \notin dirty => c \in DOMAIN C
  BY DEF dirty
<1> HIDE DEF C, B
<1> QED BY <1>1, <1>6, <1>8, <1>10, <1>11 DEF r, IsInvalidated


-----------------------------------------------------------------------------
(* Rendering the root list.                                                 *)
IsListed(b, rows, items, patch, r) ==
  /\ IsBatch(r) /\ r.cache = b.cache /\ r.buckets = b.buckets /\ r.rows = rows /\ r.items = items
  /\ r.dirty = {} /\ r.full = FALSE /\ r.patch = patch

LEMMA ListedFacts ==
  ASSUME NEW b, IsBatch(b), NEW rows, NEW items, NEW patch
  PROVE  IsListed(b, rows, items, patch, Listed(b, rows, items, patch))
<1> DEFINE r == Listed(b, rows, items, patch)
<1>1. b = [cache |-> b.cache, buckets |-> b.buckets, rows |-> b.rows, items |-> b.items,
           dirty |-> b.dirty, full |-> b.full, patch |-> b.patch]
  BY DEF IsBatch
<1>2. r = [b EXCEPT !.rows = rows, !.items = items, !.dirty = {}, !.full = FALSE, !.patch = patch]
  BY DEF Listed
<1> HIDE DEF r
<1>3. r = [cache |-> b.cache, buckets |-> b.buckets, rows |-> rows, items |-> items,
           dirty |-> {}, full |-> FALSE, patch |-> patch]
  BY <1>1, <1>2
<1>4. IsBatch(r)
  BY <1>3 DEF IsBatch
<1> QED BY <1>3, <1>4 DEF r, IsListed

LEMMA ListedGrown ==
  ASSUME NEW d, NEW p, NEW b, NEW r, Grown(d, p, b, r), NEW rows, NEW items, NEW patch
  PROVE  Grown(d, p, b, Listed(r, rows, items, patch))
<1> DEFINE s == Listed(r, rows, items, patch)
<1>1. IsBatch(s) /\ s.cache = r.cache /\ s.buckets = r.buckets
  <2>1. IsBatch(r)
    BY DEF Grown, BatchOK
  <2>2. IsListed(r, rows, items, patch, s)
    BY <2>1, ListedFacts
  <2> QED BY <2>2 DEF IsListed
<1> HIDE DEF s
<1>2. Grown(d, p, b, s)
  BY <1>1 DEF Grown, BatchOK
<1> QED BY <1>2 DEF s

LEMMA RenderListGrown ==
  ASSUME NEW d, NEW p, Selects(d, p), NEW b, BatchOK(p, b), NEW rows
  PROVE  Grown(d, p, b, RenderList(d, p, b, rows))
<1> DEFINE r == RenderList(d, p, b, rows)
<1>1. Grown(d, p, b, b)
  BY DEF Grown, Within
<1>2. r \in {b, Listed(b, <<>>, <<>>, NoPatch), RenderInPlace(d, p, b, rows), RenderSplice(d, p, b, rows),
             RenderAll(Rendered(d, p, b, ToSet(rows)), rows)}
  BY DEF RenderList
<1>3. Grown(d, p, b, Listed(b, <<>>, <<>>, NoPatch))
  BY <1>1, ListedGrown
<1>4. Grown(d, p, b, RenderInPlace(d, p, b, rows))
  <2> DEFINE places == {At(b.rows, id) : id \in b.dirty}
             s == Rendered(d, p, b, {rows[n] : n \in places})
  <2>1. RenderInPlace(d, p, b, rows) = PutInPlace(b, s, rows, places)
    BY DEF RenderInPlace
  <2>2. Grown(d, p, b, s)
    BY RenderedFacts
  <2> HIDE DEF s, places
  <2> QED BY <2>1, <2>2, ListedGrown DEF PutInPlace
<1>5. Grown(d, p, b, RenderSplice(d, p, b, rows))
  <2> DEFINE s == Rendered(d, p, b, {rows[n] : n \in DOMAIN rows \ KeptItems(b, rows)})
  <2>1. RenderSplice(d, p, b, rows) = Spliced(b, s, rows)
    BY DEF RenderSplice
  <2>2. Grown(d, p, b, s)
    BY RenderedFacts
  <2> HIDE DEF s
  <2> QED BY <2>1, <2>2, ListedGrown DEF Spliced
<1>6. Grown(d, p, b, RenderAll(Rendered(d, p, b, ToSet(rows)), rows))
  BY RenderedFacts, ListedGrown DEF RenderAll
<1> HIDE DEF r
<1>7. Grown(d, p, b, r)
  BY <1>1, <1>2, <1>3, <1>4, <1>5, <1>6
<1> QED BY <1>7 DEF r

-----------------------------------------------------------------------------
(* A bucket has what the table holds, or one of the queued rows had or has  *)
(* its key.                                                                 *)
BucketsCurrent(d, p, b, D) ==
  \A x \in DOMAIN b.buckets :
    \/ b.buckets[x] = Fetch(d, p.nested[x[1]], x[2])
    \/ \E r \in D[p.nested[x[1]].root] : r[p.nested[x[1]].ccol] = x[2]

LEMMA GrownCurrent ==
  ASSUME NEW d, NEW p, NEW b, NEW r, Grown(d, p, b, r), NEW D, BucketsCurrent(d, p, b, D)
  PROVE  BucketsCurrent(d, p, r, D)
<1>1. ASSUME NEW x \in DOMAIN r.buckets
      PROVE  \/ r.buckets[x] = Fetch(d, p.nested[x[1]], x[2])
             \/ \E y \in D[p.nested[x[1]].root] : y[p.nested[x[1]].ccol] = x[2]
  <2>1. CASE x \in DOMAIN b.buckets
    BY <2>1 DEF Grown, BucketsCurrent, Within
  <2>2. CASE x \notin DOMAIN b.buckets
    BY <2>2 DEF Grown
  <2> QED BY <2>1, <2>2
<1> QED BY <1>1 DEF BucketsCurrent

(* What an invalidation is told of need not be waited for any more.         *)
LEMMA InvalidationCurrent ==
  ASSUME NEW d, NEW p, IsTree(p), NEW b, BatchOK(p, b), NEW D, BucketsCurrent(d, p, b, D), NEW inv, NEW T, NEW D2,
         \A t \in T : DirtyKeys(p, t, D[t]) \subseteq inv.keys,
         \A m \in DOMAIN p.nested : p.nested[m].root \in T \/ D2[p.nested[m].root] = D[p.nested[m].root]
  PROVE  BucketsCurrent(d, p, ApplyInvalidation(p, b, inv), D2)
<1> DEFINE r == ApplyInvalidation(p, b, inv)
<1>1. Within(r.buckets, b.buckets) /\ \A x \in DOMAIN r.buckets : x \notin inv.keys
  BY InvalidationFacts DEF IsInvalidated
<1> HIDE DEF r
<1>2. ASSUME NEW x \in DOMAIN r.buckets, r.buckets[x] # Fetch(d, p.nested[x[1]], x[2])
      PROVE  \E y \in D2[p.nested[x[1]].root] : y[p.nested[x[1]].ccol] = x[2]
  <2> DEFINE e == p.nested[x[1]]
  <2>1. x \in DOMAIN b.buckets /\ r.buckets[x] = b.buckets[x]
    BY <1>1 DEF Within
  <2>2. PICK y \in D[e.root] : y[e.ccol] = x[2]
    BY <1>2, <2>1 DEF BucketsCurrent
  <2>3. x = <<x[1], x[2]>> /\ x[1] \in DOMAIN p.nested /\ x[2] # Null
    BY <2>1 DEF BatchOK, IsBucket
  <2>4. CASE e.root \in T
    <3> DEFINE t == e.root
               Keys(m) == {m} \X ({z[p.nested[m].ccol] : z \in D[t]} \ {Null})
    <3>1. x \in Keys(x[1])
      BY <2>2, <2>3
    <3>2. DirtyKeys(p, t, D[t]) = UNION {Keys(m) : m \in {n \in DOMAIN p.nested : p.nested[n].root = t}}
      BY DEF DirtyKeys
    <3> HIDE DEF Keys
    <3>3. x \in DirtyKeys(p, t, D[t])
      BY <2>3, <3>1, <3>2
    <3> QED BY <1>1, <2>4, <3>3
  <2>5. CASE e.root \notin T
    BY <2>2, <2>3, <2>5
  <2> QED BY <2>4, <2>5
<1>3. BucketsCurrent(d, p, r, D2)
  BY <1>2 DEF BucketsCurrent
<1> QED BY <1>3 DEF r


-----------------------------------------------------------------------------
(* The tables of a selection.                                               *)
LEMMA SelectsIn ==
  ASSUME NEW s \in Scenario, s.api # "rows", NEW d, DOMAIN d = DOMAIN s.db, NEW n,
         \A t \in DOMAIN d : TableOf(d[t], n[t]) /\ n[t] \in 1..(MaxId + 1)
  PROVE  Selects(d, s.q) /\ IsTree(s.q) /\ s.q.joins = <<>>
<1> DEFINE p == s.q
<1>1. /\ p.joins = <<>> /\ DOMAIN p.nested = 1..Len(p.nested) /\ Len(p.nested) \in Nat
      /\ \A m \in DOMAIN p.nested : IsNode(s.db, p.nested[m], m)
  BY NestedAssumption
<1>2. ASSUME NEW m \in DOMAIN p.nested PROVE IsNode(d, p.nested[m], m) /\ IsDatabase(d, p.nested[m])
  <2> DEFINE e == p.nested[m]
  <2>1. IsNode(s.db, e, m)
    BY <1>1
  <2>2. IsNode(d, e, m)
    BY <2>1 DEF IsNode
  <2> HIDE DEF e
  <2>3. Tables(e) = {e.root} /\ e.root \in DOMAIN d
    <3>1. DOMAIN e.joins = {}
      BY <2>2 DEF IsNode
    <3> QED BY <2>2, <3>1 DEF IsNode, Tables
  <2>4. TableOf(d[e.root], n[e.root]) /\ n[e.root] \in 1..(MaxId + 1)
    BY <2>3
  <2>5. \A r \in d[e.root] : r.id \in Nat /\ r.id # 0 /\ r.v \in Int
    BY <2>4, MaxIdAssumption DEF TableOf
  <2>6. IsDatabase(d, e)
    BY <2>3, <2>4, <2>5 DEF IsDatabase, TableOf
  <2> QED BY <2>2, <2>6 DEF e
<1>3. Selects(d, p)
  BY <1>1, <1>2 DEF Selects
<1> QED BY <1>1, <1>3, SelectsTree

LEMMA SelectsTables ==
  ASSUME Typed, scenario.api # "rows"
  PROVE  Selects(db, q) /\ IsTree(q) /\ q.joins = <<>>
<1>1. scenario \in Scenario /\ DOMAIN db = DOMAIN scenario.db
      /\ \A t \in DOMAIN db : TableOf(db[t], nextId[t]) /\ nextId[t] \in 1..(MaxId + 1)
  BY DEF Typed
<1>2. Selects(db, scenario.q) /\ IsTree(scenario.q) /\ scenario.q.joins = <<>>
  BY <1>1, SelectsIn
<1> QED BY <1>2 DEF q

LEMMA GraphqlTyped ==
  ASSUME Typed, [GraphqlNext]_<<vars, gvars>>
  PROVE  Typed' /\ q' = q
<1>1. CASE GraphqlStatement
  <2>1. PICK t, old, new : Replaces(t, old, new)
    BY <1>1, StatementReplaces DEF GraphqlStatement
  <2>2. Typed'
    BY <2>1, ReplacesTyped
  <2>3. q' = q
    BY <2>1 DEF Replaces, Write, q
  <2> QED BY <2>2, <2>3
<1>2. CASE Drain
  BY <1>2, DrainTyped
<1>3. CASE Observe \/ Create
  <2>1. /\ scenario' = scenario /\ db' = db /\ nextId' = nextId /\ ids' = ids /\ deltas' = deltas
        /\ opened' \in BOOLEAN /\ changes' = changes
    BY <1>3 DEF Observe, Create, tables, Typed
  <2> QED BY <2>1 DEF Typed, q
<1>4. CASE UNCHANGED vars
  <2>1. /\ scenario' = scenario /\ db' = db /\ nextId' = nextId /\ ids' = ids /\ deltas' = deltas
        /\ opened' = opened /\ changes' = changes
    BY <1>4 DEF vars
  <2> QED BY <2>1 DEF Typed, q
<1>5. GraphqlStatement \/ Drain \/ Observe \/ Create \/ UNCHANGED vars
  BY DEF GraphqlNext, RowsNext, PatchRefresh, WindowRefresh, SubsetRefresh, Unaffected, Requery, Flush,
         Subscribe, Unsubscribe, SnapshotFlush, DeltaFlush
<1> QED BY <1>1, <1>2, <1>3, <1>4, <1>5

-----------------------------------------------------------------------------
(* What an observable has cached, with D queued.                            *)
IsPayload(p) == p = [known |-> p.known, items |-> p.items, dirty |-> p.dirty, array |-> p.array, len |-> p.len]

IsObservable(o) ==
  o = [batch |-> o.batch, payload |-> o.payload, heard |-> o.heard, slips |-> o.slips] /\ IsPayload(o.payload)

LEMMA PayloadSet ==
  ASSUME NEW p, IsPayload(p), NEW x
  PROVE  IsPayload([p EXCEPT !.dirty = x])
<1> DEFINE K == p.known
           I == p.items
           A == p.array
           N == p.len
           E == p.dirty
<1>1. p = [known |-> K, items |-> I, dirty |-> E, array |-> A, len |-> N]
  BY DEF IsPayload
<1> HIDE DEF K, I, A, N, E
<1>2. [p EXCEPT !.dirty = x] = [known |-> K, items |-> I, dirty |-> x, array |-> A, len |-> N]
  BY <1>1
<1> QED BY <1>2 DEF IsPayload

LEMMA ObservableMade ==
  ASSUME NEW b, NEW p, IsPayload(p), NEW h, NEW s
  PROVE  IsObservable([batch |-> b, payload |-> p, heard |-> h, slips |-> s])
BY DEF IsObservable

ObservableOK(d, p, o, D) ==
  /\ IsObservable(o) /\ BatchOK(p, o.batch)
  /\ "unseen" \notin o.slips => BucketsCurrent(d, p, o.batch, D)

LEMMA MaterializedFacts ==
  ASSUME NEW p, IsPayload(p), NEW b
  PROVE  IsPayload(Materialized(p, b))
<1> DEFINE made == [known |-> TRUE, items |-> b.items, dirty |-> FALSE, array |-> Encoded(p, b), len |-> Len(b.items)]
<1>1. IsPayload(made)
  BY DEF IsPayload
<1>2. IsPayload([p EXCEPT !.dirty = FALSE])
  BY PayloadSet
<1>3. Materialized(p, b) = IF Differs(p, b) THEN made ELSE [p EXCEPT !.dirty = FALSE]
  BY DEF Materialized
<1> HIDE DEF made
<1> QED BY <1>1, <1>2, <1>3

LEMMA EmittedFacts ==
  ASSUME NEW o, IsObservable(o), NEW b, NEW again
  PROVE  IsObservable(Emitted(o, b, again)) /\ Emitted(o, b, again).batch = b
         /\ o.slips \subseteq Emitted(o, b, again).slips
<1> DEFINE p == Materialized(o.payload, b)
           h == IF Differs(o.payload, b) THEN p.array ELSE o.heard
           s == o.slips \cup (IF again THEN {"spliced"} ELSE {})
           r == Emitted(o, b, again)
<1>1. IsPayload(p)
  BY MaterializedFacts DEF IsObservable
<1>2. r = [batch |-> b, payload |-> p, heard |-> h, slips |-> s]
  BY DEF Emitted
<1>3. o.slips \subseteq s
  OBVIOUS
<1> HIDE DEF p, h, s, r
<1>4. IsObservable(r)
  BY <1>1, <1>2, ObservableMade
<1>5. r.batch = b /\ o.slips \subseteq r.slips
  BY <1>2, <1>3
<1> QED BY <1>4, <1>5 DEF r

LEMMA RespondedOK ==
  ASSUME Selects(db, q), NEW o, NEW D, ObservableOK(db, q, o, D), NEW rows
  PROVE  ObservableOK(db, q, Responded(o, rows), D) /\ o.slips \subseteq Responded(o, rows).slips
<1> DEFINE b == RenderList(db, q, o.batch, rows)
           r == Responded(o, rows)
<1>1. IsObservable(r) /\ r.batch = b /\ o.slips \subseteq r.slips
  BY EmittedFacts DEF Responded, ObservableOK
<1>2. Grown(db, q, o.batch, b)
  BY RenderListGrown DEF ObservableOK
<1> HIDE DEF b, r
<1>3. BatchOK(q, b)
  BY <1>2 DEF Grown
<1>4. "unseen" \notin r.slips => BucketsCurrent(db, q, b, D)
  BY <1>1, <1>2, GrownCurrent DEF ObservableOK
<1>5. ObservableOK(db, q, r, D)
  BY <1>1, <1>3, <1>4 DEF ObservableOK
<1> QED BY <1>1, <1>5 DEF r

LEMMA InvalidateFacts ==
  ASSUME NEW o, IsObservable(o), NEW inv
  PROVE  /\ IsObservable(Invalidate(o, inv)) /\ Invalidate(o, inv).batch = ApplyInvalidation(q, o.batch, inv)
         /\ Invalidate(o, inv).slips = o.slips /\ Invalidate(o, inv).heard = o.heard
         /\ Invalidate(o, inv).payload = [o.payload EXCEPT !.dirty = TRUE]
<1> DEFINE b == o.batch
           p == o.payload
           h == o.heard
           s == o.slips
           r == Invalidate(o, inv)
           c == ApplyInvalidation(q, o.batch, inv)
           y == [o.payload EXCEPT !.dirty = TRUE]
<1>1. o = [batch |-> b, payload |-> p, heard |-> h, slips |-> s] /\ IsPayload(p)
  BY DEF IsObservable
<1>2. r = [o EXCEPT !.batch = c, !.payload = y]
  BY <1>1 DEF Invalidate
<1>3. IsPayload(y)
  BY <1>1, PayloadSet
<1> HIDE DEF b, p, h, s, r, c, y
<1>4. r = [batch |-> c, payload |-> y, heard |-> h, slips |-> s]
  BY <1>1, <1>2
<1>5. IsObservable(r)
  BY <1>3, <1>4, ObservableMade
<1>6. r.batch = c /\ r.payload = y /\ r.heard = h /\ r.slips = s
  BY <1>4
<1> QED BY <1>5, <1>6 DEF r, c, y, h, s

LEMMA InvalidateOK ==
  ASSUME Selects(db, q), NEW o, NEW D, ObservableOK(db, q, o, D), NEW inv, NEW T, NEW D2,
         \A t \in T : DirtyKeys(q, t, D[t]) \subseteq inv.keys,
         \A m \in DOMAIN q.nested : q.nested[m].root \in T \/ D2[q.nested[m].root] = D[q.nested[m].root]
  PROVE  ObservableOK(db, q, Invalidate(o, inv), D2)
<1> DEFINE b == ApplyInvalidation(q, o.batch, inv)
           r == Invalidate(o, inv)
<1>1. IsObservable(r) /\ r.batch = b /\ r.slips = o.slips
  BY InvalidateFacts DEF ObservableOK
<1>2. IsTree(q) /\ BatchOK(q, o.batch)
  BY SelectsTree DEF ObservableOK
<1>3. BatchOK(q, b)
  BY <1>2, InvalidationFacts DEF IsInvalidated
<1>4. "unseen" \notin o.slips => BucketsCurrent(db, q, b, D2)
  BY <1>2, InvalidationCurrent DEF ObservableOK
<1> HIDE DEF b, r
<1>5. ObservableOK(db, q, r, D2)
  BY <1>1, <1>3, <1>4 DEF ObservableOK
<1> QED BY <1>5 DEF r

LEMMA ToldOK ==
  ASSUME Selects(db, q), NEW o, NEW D, ObservableOK(db, q, o, D), NEW rows
  PROVE  ObservableOK(db, q, Told(o, rows), D) /\ o.slips \subseteq Told(o, rows).slips
BY RespondedOK DEF Told

-----------------------------------------------------------------------------
(* What every step does to what is cached.                                  *)
CacheInv ==
  /\ Typed
  /\ stage # "none" => scenario.api # "rows"
  /\ scenario.api # "rows" => ObservableOK(db, q, obs, deltas)

LEMMA CacheInit == GraphqlInit => CacheInv
<1> SUFFICES ASSUME GraphqlInit PROVE CacheInv
  OBVIOUS
<1>1. Typed /\ stage = "none"
  BY InitInv DEF GraphqlInit, Inv
<1>2. obs = [batch |-> NewBatch, payload |-> NoPayload, heard |-> <<>>, slips |-> {}]
  BY DEF GraphqlInit
<1>3. IsObservable(obs)
  <2>1. IsPayload(NoPayload)
    BY DEF IsPayload, NoPayload
  <2> QED BY <1>2, <2>1, ObservableMade
<1>4. obs.batch = NewBatch
  BY <1>2
<1>5. DOMAIN NewBatch.buckets = {} /\ DOMAIN NewBatch.cache = {} /\ IsBatch(NewBatch)
  BY DEF NewBatch, Empty, IsBatch
<1>6. BatchOK(q, obs.batch) /\ BucketsCurrent(db, q, obs.batch, deltas)
  BY <1>4, <1>5 DEF BatchOK, BucketsCurrent
<1> QED BY <1>1, <1>3, <1>6 DEF CacheInv, ObservableOK

\* A statement queues the rows of every key that it changes.
LEMMA StatementCurrent ==
  ASSUME Typed, scenario.api # "rows", NEW t, NEW old, NEW new, Replaces(t, old, new),
         NEW b, BatchOK(q, b), BucketsCurrent(db, q, b, deltas)
  PROVE  BucketsCurrent(db', q, b, deltas')
<1>1. /\ t \in DOMAIN db /\ db' = [db EXCEPT ![t] = (@ \ old) \cup new]
      /\ deltas' = [deltas EXCEPT ![t] = @ \cup old \cup new] /\ scenario' = scenario
  BY DEF Replaces, Write
<1>2. /\ \A u \in DOMAIN db : u # t => db'[u] = db[u] /\ deltas'[u] = deltas[u]
      /\ db'[t] = (db[t] \ old) \cup new /\ deltas'[t] = deltas[t] \cup old \cup new
  BY <1>1 DEF Typed
<1>3. Typed' /\ q' = q
  BY <1>1, ReplacesTyped DEF q
<1>4. Selects(db, q) /\ Selects(db', q)
  <2>1. scenario \in Scenario /\ DOMAIN db' = DOMAIN scenario.db
        /\ \A u \in DOMAIN db' : TableOf(db'[u], nextId'[u]) /\ nextId'[u] \in 1..(MaxId + 1)
    BY <1>1, <1>3 DEF Typed
  <2> DEFINE d == db'
             n == nextId'
  <2>2. DOMAIN d = DOMAIN scenario.db /\ \A u \in DOMAIN d : TableOf(d[u], n[u]) /\ n[u] \in 1..(MaxId + 1)
    BY <2>1
  <2> HIDE DEF d, n
  <2>3. Selects(d, scenario.q)
    BY <2>1, <2>2, SelectsIn
  <2> QED BY <2>3, SelectsTables DEF d, q
<1>5. ASSUME NEW x \in DOMAIN b.buckets
      PROVE  \/ b.buckets[x] = Fetch(db', q.nested[x[1]], x[2])
             \/ \E r \in deltas'[q.nested[x[1]].root] : r[q.nested[x[1]].ccol] = x[2]
  <2> DEFINE e == q.nested[x[1]]
             k == x[2]
             d == db'
  <2>1. x[1] \in DOMAIN q.nested
    BY DEF BatchOK, IsBucket
  <2>2. IsQuery(e) /\ e.joins = <<>> /\ IsDatabase(db, e) /\ IsDatabase(d, e) /\ e.root \in DOMAIN db
    BY <1>4, <2>1 DEF Selects, IsNode
  <2>3. b.buckets[x] = Fetch(db, e, k) \/ \E r \in deltas[e.root] : r[e.ccol] = k
    BY DEF BucketsCurrent
  <2>4. deltas[e.root] \subseteq deltas'[e.root]
    BY <1>2, <2>2
  <2>5. (\E r \in old \cup new : e.root = t /\ r[e.ccol] = k) => \E r \in deltas'[e.root] : r[e.ccol] = k
    BY <1>2
  <2>6. ASSUME ~\E r \in old \cup new : e.root = t /\ r[e.ccol] = k PROVE Fetch(db, e, k) = Fetch(d, e, k)
    <3>1. \A r : r[e.ccol] = k => (r \in db[e.root] <=> r \in d[e.root])
      BY <1>2, <2>2, <2>6
    <3> HIDE DEF e, k, d
    <3> QED BY <2>2, <3>1, FetchSame
  <2> HIDE DEF e, k, d
  <2>7. b.buckets[x] = Fetch(d, e, k) \/ \E r \in deltas'[e.root] : r[e.ccol] = k
    BY <2>3, <2>4, <2>5, <2>6
  <2> QED BY <2>7 DEF e, k, d
<1> QED BY <1>5 DEF BucketsCurrent


-----------------------------------------------------------------------------
(* Flushes.                                                                 *)
LEMMA SlipsOK ==
  ASSUME NEW d, NEW p, NEW o, NEW D, ObservableOK(d, p, o, D), NEW s, "unseen" \in o.slips => "unseen" \in s
  PROVE  ObservableOK(d, p, [o EXCEPT !.slips = s], D)
<1> DEFINE b == o.batch
           y == o.payload
           h == o.heard
           z == o.slips
           r == [o EXCEPT !.slips = s]
<1>1. o = [batch |-> b, payload |-> y, heard |-> h, slips |-> z] /\ IsPayload(y)
  BY DEF ObservableOK, IsObservable
<1>2. BatchOK(p, b) /\ ("unseen" \notin z => BucketsCurrent(d, p, b, D))
  BY DEF ObservableOK
<1> HIDE DEF b, y, h, z
<1>3. r = [batch |-> b, payload |-> y, heard |-> h, slips |-> s]
  BY <1>1
<1>4. IsObservable(r) /\ r.batch = b /\ r.slips = s
  BY <1>1, <1>3, ObservableMade
<1>5. "unseen" \notin s => "unseen" \notin z
  BY DEF z
<1> HIDE DEF r
<1>6. ObservableOK(d, p, r, D)
  BY <1>2, <1>4, <1>5 DEF ObservableOK
<1> QED BY <1>6 DEF r

LEMMA UnchangedEmpty ==
  ASSUME Typed, NEW t \in DOMAIN db, t \notin Changed
  PROVE  deltas[t] = {}
<1>1. ids[t] = {} /\ {r.id : r \in deltas[t]} = ids[t]
  BY DEF Typed, QueuedOf, Changed
<1> QED BY <1>1

LEMMA NodeRoots ==
  ASSUME Typed, scenario.api # "rows"
  PROVE  \A m \in DOMAIN q.nested : q.nested[m].root \in DOMAIN db
BY SelectsTables DEF Selects, IsNode

LEMMA SnapshotCache ==
  ASSUME CacheInv, SnapshotFlush
  PROVE  ObservableOK(db, q, obs', deltas')
<1> DEFINE inv == [root |-> result' # result,
                   dirty |-> IF RegroupsRoots THEN Roots ELSE ids[q.root], stable |-> FALSE,
                   tables |-> {}, rows |-> ids, keys |-> UNION {DirtyKeys(q, t, deltas[t]) : t \in DOMAIN db}]
           early == result' = result /\ Changed \subseteq {q.root}
           o == IF early THEN obs ELSE Told(Invalidate(obs, inv), RootRows(result'))
           s == (o.slips \ {"behind"}) \cup Slips(early)
           D == deltas'
<1>1. Typed /\ scenario.api # "rows" /\ ObservableOK(db, q, obs, deltas) /\ obs' = [o EXCEPT !.slips = s]
  BY DEF CacheInv, SnapshotFlush
<1>2. Selects(db, q) /\ \A m \in DOMAIN q.nested : q.nested[m].root \in DOMAIN db
  BY <1>1, SelectsTables, NodeRoots
<1>3. \A t \in DOMAIN db : D[t] = {}
  BY DEF SnapshotFlush, Drain, None
<1>4. CASE ~early
  <2> DEFINE i == Invalidate(obs, inv)
             rows == RootRows(result')
  <2>1. \A t \in DOMAIN db : DirtyKeys(q, t, deltas[t]) \subseteq inv.keys
    OBVIOUS
  <2>2. o = Told(i, rows)
    BY <1>4
  <2>3. "unseen" \in o.slips => "unseen" \in s
    OBVIOUS
  <2> HIDE DEF inv, early, s, D, rows
  <2>4. ObservableOK(db, q, i, D)
    BY <1>1, <1>2, <2>1, InvalidateOK
  <2> HIDE DEF i
  <2>5. ObservableOK(db, q, o, D)
    BY <1>2, <2>2, <2>4, ToldOK
  <2> HIDE DEF o
  <2>6. ObservableOK(db, q, [o EXCEPT !.slips = s], D)
    BY <2>3, <2>5, SlipsOK
  <2> QED BY <1>1, <2>6 DEF D
<1>5. CASE early
  <2>1. o = obs /\ Changed \subseteq {q.root}
    BY <1>5
  <2>2. NestsRoot => "unseen" \in s
    BY <1>5 DEF Slips
  <2>3. "unseen" \in o.slips => "unseen" \in s
    OBVIOUS
  <2> HIDE DEF o, s, early
  <2>4. ASSUME ~NestsRoot PROVE ObservableOK(db, q, o, D)
    <3>1. \A m \in DOMAIN q.nested : D[q.nested[m].root] = deltas[q.nested[m].root]
      BY <1>1, <1>2, <1>3, <2>1, <2>4, UnchangedEmpty DEF NestsRoot
    <3> HIDE DEF D
    <3>2. BatchOK(q, obs.batch) /\ DOMAIN obs.batch.buckets = DOMAIN obs.batch.buckets
          /\ \A x \in DOMAIN obs.batch.buckets : x[1] \in DOMAIN q.nested
      BY <1>1 DEF ObservableOK, BatchOK, IsBucket
    <3>3. "unseen" \notin obs.slips => BucketsCurrent(db, q, obs.batch, D)
      BY <1>1, <3>1, <3>2 DEF ObservableOK, BucketsCurrent
    <3> QED BY <1>1, <2>1, <3>3 DEF ObservableOK
  <2> DEFINE x == [o EXCEPT !.slips = s]
  <2>5. CASE ~NestsRoot
    <3> HIDE DEF D
    <3> QED BY <1>1, <2>3, <2>4, <2>5, SlipsOK DEF D
  <2>6. CASE NestsRoot
    <3>1. ObservableOK(db, q, x, deltas)
      BY <1>1, <2>1, <2>3, SlipsOK
    <3>2. x.slips = s
      BY <1>1, <2>1 DEF ObservableOK, IsObservable
    <3> HIDE DEF x
    <3>3. ObservableOK(db, q, x, D)
      BY <2>2, <2>6, <3>1, <3>2 DEF ObservableOK
    <3> QED BY <1>1, <3>3 DEF x, D
  <2> QED BY <2>5, <2>6
<1> QED BY <1>4, <1>5


\* One table after another: what OnTableChange leads to.
AfterRun(f, order) ==
  f = [n \in 0..Len(order) |-> IF n = 0 THEN [view |-> view, obs |-> obs] ELSE OnTableChange(f[n - 1], order[n])]

LEMMA AfterRunExists ==
  ASSUME NEW order, Len(order) \in Nat
  PROVE  \E f : AfterRun(f, order) /\ AfterTables(order) = f[Len(order)]
<1> DEFINE N == Len(order)
           start == [view |-> view, obs |-> obs]
           Is(f, k) == f = [n \in 0..k |-> IF n = 0 THEN start ELSE OnTableChange(f[n - 1], order[n])]
           P == {k \in 0..N : \E f : Is(f, k)}
<1> HIDE DEF N, start
<1>1. N \in Nat
  BY DEF N
<1>2. 0 \in P
  <2> DEFINE f == [n \in 0..0 |-> start]
  <2>1. Is(f, 0)
    OBVIOUS
  <2> HIDE DEF f
  <2> QED BY <1>1, <2>1
<1>3. ASSUME NEW k \in 1..N, k - 1 \in P PROVE k \in P
  <2>1. PICK f : Is(f, k - 1)
    BY <1>3
  <2> DEFINE h == [n \in 0..k |-> IF n < k THEN f[n] ELSE OnTableChange(f[k - 1], order[k])]
  <2>2. ASSUME NEW n \in 0..k PROVE h[n] = IF n = 0 THEN start ELSE OnTableChange(h[n - 1], order[n])
    <3>1. CASE n = 0
      BY <2>1, <3>1
    <3>2. CASE n \in 1..(k - 1)
      <4>1. h[n] = f[n] /\ h[n - 1] = f[n - 1] /\ n \in 0..(k - 1) /\ n # 0
        BY <3>2
      <4> QED BY <2>1, <4>1
    <3>3. CASE n = k
      <4>1. h[k] = OnTableChange(f[k - 1], order[k]) /\ h[k - 1] = f[k - 1] /\ k # 0
        OBVIOUS
      <4> QED BY <3>3, <4>1
    <3> QED BY <3>1, <3>2, <3>3
  <2>3. h = [n \in 0..k |-> h[n]]
    OBVIOUS
  <2> HIDE DEF h
  <2>4. Is(h, k)
    BY <2>2, <2>3
  <2>5. k \in 0..N
    BY <1>1
  <2> QED BY <2>4, <2>5
<1> HIDE DEF P
<1>4. 0..N \subseteq P
  BY <1>1, <1>2, <1>3, StepByStep
<1>5. \E f : Is(f, N)
  <2>1. N \in P
    BY <1>1, <1>4
  <2> QED BY <2>1 DEF P
<1>6. \E f : AfterRun(f, order)
  BY <1>5 DEF AfterRun, N, start
<1> DEFINE Fun == CHOOSE f : AfterRun(f, order)
<1>7. AfterTables(order) = Fun[Len(order)]
  BY DEF AfterTables, AfterRun
<1>8. AfterRun(Fun, order)
  BY <1>6, Zenon
<1> QED BY <1>7, <1>8

LEMMA AllInTurn ==
  ASSUME NEW S, IsFiniteSet(S), NEW order \in SetToSeqs(S)
  PROVE  /\ order \in [1..Len(order) -> S] /\ Len(order) \in Nat /\ ToSet(order) = S
         /\ \A m, n \in 1..Len(order) : m # n => order[m] # order[n]
<1> DEFINE D == 1..Cardinality(S)
<1>1. Cardinality(S) \in Nat
  BY FS_CardinalityType
<1>2. order \in [D -> S] /\ \A i, j \in D : i # j => order[i] # order[j]
  BY DEF SetToSeqs
<1>3. IsFiniteSet(D) /\ Cardinality(D) = Cardinality(S)
  <2>1. \A m, n \in Int : IsFiniteSet(m..n) /\ Cardinality(m..n) = (IF m > n THEN 0 ELSE n - m + 1)
    BY FS_Interval
  <2>2. 1 \in Int /\ Cardinality(S) \in Int /\ (1 > Cardinality(S) => Cardinality(S) = 0)
        /\ Cardinality(S) - 1 + 1 = Cardinality(S)
    BY <1>1
  <2> QED BY <2>1, <2>2
<1> HIDE DEF D
<1>4. order \in Injection(D, S)
  BY <1>2 DEF Injection, IsInjective
<1>5. order \in Surjection(D, S)
  BY <1>3, <1>4, FS_Injection
<1>6. Len(order) = Cardinality(S) /\ D = 1..Len(order)
  BY <1>1, <1>2 DEF D
<1>7. ToSet(order) = S
  BY <1>2, <1>5 DEF ToSet, Surjection
<1> QED BY <1>1, <1>2, <1>6, <1>7

\* What is still queued once the first n tables have been.
Remaining(order, n) == [t \in DOMAIN db |-> IF \E m \in 1..n : order[m] = t THEN {} ELSE deltas[t]]

LEMMA OnTableChangeOK ==
  ASSUME Typed, scenario.api # "rows", NEW s, NEW D, ObservableOK(db, q, s.obs, D), NEW t \in DOMAIN db,
         D[t] = deltas[t], NEW D2, \A u \in DOMAIN db : u # t => D2[u] = D[u]
  PROVE  ObservableOK(db, q, OnTableChange(s, t).obs, D2)
<1> DEFINE out == Output(t)
           v == Applied(s.view, Output(t))
           inv == [root |-> out # <<>>, dirty |-> {out[n].row.id : n \in DOMAIN out}, stable |-> PositionsKept(out),
                   tables |-> {t}, rows |-> [u \in DOMAIN db |-> IF u = t THEN ids[t] ELSE {}],
                   keys |-> DirtyKeys(q, t, deltas[t])]
           o == Told(Invalidate(s.obs, inv), ViewRows(v))
<1>1. OnTableChange(s, t).obs = o
  BY DEF OnTableChange, OutputApplied
<1>2. Selects(db, q) /\ \A m \in DOMAIN q.nested : q.nested[m].root \in DOMAIN db
  BY SelectsTables, NodeRoots
<1>3. \A u \in {t} : DirtyKeys(q, u, D[u]) \subseteq inv.keys
  OBVIOUS
<1>4. \A m \in DOMAIN q.nested : q.nested[m].root \in {t} \/ D2[q.nested[m].root] = D[q.nested[m].root]
  BY <1>2
<1> DEFINE was == s.obs
           T == {t}
<1> HIDE DEF inv, v
<1>5. ObservableOK(db, q, Invalidate(s.obs, inv), D2)
  <2>1. ObservableOK(db, q, was, D)
    OBVIOUS
  <2>2. \A u \in T : DirtyKeys(q, u, D[u]) \subseteq inv.keys
    BY <1>3
  <2>3. \A m \in DOMAIN q.nested : q.nested[m].root \in T \/ D2[q.nested[m].root] = D[q.nested[m].root]
    BY <1>4
  <2> HIDE DEF was, T
  <2>4. ObservableOK(db, q, Invalidate(was, inv), D2)
    BY <1>2, <2>1, <2>2, <2>3, InvalidateOK
  <2> QED BY <2>4 DEF was
<1> DEFINE i == Invalidate(s.obs, inv)
           rows == ViewRows(v)
<1> HIDE DEF i, rows
<1>6. ObservableOK(db, q, Told(i, rows), D2)
  BY <1>2, <1>5, ToldOK DEF i
<1> QED BY <1>1, <1>6 DEF i, rows

LEMMA DeltaCache ==
  ASSUME CacheInv, IsFiniteSet(Changed), DeltaFlush
  PROVE  ObservableOK(db, q, obs', deltas')
<1>1. Typed /\ scenario.api # "rows" /\ ObservableOK(db, q, obs, deltas)
  BY DEF CacheInv, DeltaFlush
<1>2. PICK order \in SetToSeqs(Changed) : obs' = AfterTables(order).obs
  BY DEF DeltaFlush
<1> DEFINE N == Len(order)
<1>3. /\ order \in [1..N -> Changed] /\ N \in Nat /\ ToSet(order) = Changed
      /\ \A m, n \in 1..N : m # n => order[m] # order[n]
  BY <1>2, AllInTurn
<1>4. PICK f : AfterRun(f, order) /\ AfterTables(order) = f[N]
  BY <1>3, AfterRunExists
<1> DEFINE P == {n \in 0..N : ObservableOK(db, q, f[n].obs, Remaining(order, n))}
<1>5. 0 \in P
  <2>1. f[0] = [view |-> view, obs |-> obs]
    BY <1>3, <1>4 DEF AfterRun
  <2>2. \A t \in DOMAIN db : Remaining(order, 0)[t] = deltas[t]
    BY DEF Remaining
  <2>3. \A m \in DOMAIN q.nested : q.nested[m].root \in DOMAIN db
    BY <1>1, NodeRoots
  <2>4. \A x \in DOMAIN obs.batch.buckets : x[1] \in DOMAIN q.nested
    BY <1>1 DEF ObservableOK, BatchOK, IsBucket
  <2>5. ObservableOK(db, q, obs, Remaining(order, 0))
    BY <1>1, <2>2, <2>3, <2>4 DEF ObservableOK, BucketsCurrent
  <2> QED BY <1>3, <2>1, <2>5
<1>6. ASSUME NEW n \in 1..N, n - 1 \in P PROVE n \in P
  <2> DEFINE t == order[n]
             s == f[n - 1]
             D == Remaining(order, n - 1)
             D2 == Remaining(order, n)
  <2>1. t \in DOMAIN db /\ D[t] = deltas[t]
    <3>1. t \in DOMAIN db
      BY <1>3 DEF Changed
    <3>2. \A m \in 1..(n - 1) : order[m] # t
      BY <1>3
    <3> QED BY <3>1, <3>2 DEF Remaining
  <2>2. \A u \in DOMAIN db : u # t => D2[u] = D[u]
    BY <1>3 DEF Remaining
  <2>3. f[n] = OnTableChange(s, t)
    <3>1. AfterRun(f, order)
      BY <1>4
    <3> HIDE DEF s, t
    <3>2. f[n] = OnTableChange(f[n - 1], order[n])
      BY <3>1, SMTT(30) DEF AfterRun
    <3> QED BY <3>2 DEF s, t
  <2>4. ObservableOK(db, q, s.obs, D)
    BY <1>6
  <2> HIDE DEF t, s, D, D2
  <2>5. ObservableOK(db, q, OnTableChange(s, t).obs, D2)
    BY <1>1, <2>1, <2>2, <2>4, OnTableChangeOK
  <2> QED BY <2>3, <2>5 DEF D2
<1> HIDE DEF P
<1>7. 0..N \subseteq P
  BY <1>3, <1>5, <1>6, StepByStep
<1>8. ObservableOK(db, q, obs', Remaining(order, N))
  <2>1. N \in P
    BY <1>3, <1>7
  <2> QED BY <1>2, <1>4, <2>1 DEF P
<1>9. \A t \in DOMAIN db : Remaining(order, N)[t] = deltas'[t]
  <2> TAKE t \in DOMAIN db
  <2>1. deltas'[t] = {}
    BY DEF DeltaFlush, Drain, None
  <2>2. CASE t \in Changed
    <3>1. \E m \in 1..N : order[m] = t
      BY <1>3, <2>2 DEF ToSet
    <3> QED BY <2>1, <3>1 DEF Remaining
  <2>3. CASE t \notin Changed
    BY <1>1, <2>1, <2>3, UnchangedEmpty DEF Remaining
  <2> QED BY <2>2, <2>3
<1> DEFINE D == Remaining(order, N)
           E == deltas'
           o == obs'
<1>10. \A m \in DOMAIN q.nested : q.nested[m].root \in DOMAIN db
  BY <1>1, NodeRoots
<1>11. (\A t \in DOMAIN db : D[t] = E[t]) /\ ObservableOK(db, q, o, D)
  BY <1>8, <1>9
<1> HIDE DEF D, E, o
<1>12. \A x \in DOMAIN o.batch.buckets : x[1] \in DOMAIN q.nested
  BY <1>11 DEF ObservableOK, BatchOK, IsBucket
<1>13. ObservableOK(db, q, o, E)
  BY <1>10, <1>11, <1>12 DEF ObservableOK, BucketsCurrent
<1> QED BY <1>13 DEF o, E


LEMMA ChangedFinite ==
  ASSUME Typed, IsFiniteSet(Changed), [GraphqlNext]_<<vars, gvars>>
  PROVE  IsFiniteSet(Changed')
<1>1. CASE GraphqlStatement
  <2>1. PICK t, old, new : Replaces(t, old, new)
    BY <1>1, StatementReplaces DEF GraphqlStatement
  <2>2. t \in DOMAIN db /\ DOMAIN db' = DOMAIN db /\ ids' = [ids EXCEPT ![t] = @ \cup {r.id : r \in old \cup new}]
    BY <2>1 DEF Replaces, Write
  <2>3. Changed' \subseteq Changed \cup {t}
    BY <2>2 DEF Changed, Typed
  <2>4. IsFiniteSet(Changed \cup {t})
    BY FS_AddElement
  <2> QED BY <2>3, <2>4, FS_Subset
<1>2. CASE Drain
  <2>1. Changed' = {}
    BY <1>2 DEF Drain, None, Changed
  <2> QED BY <2>1, FS_EmptySet
<1>3. CASE ids' = ids /\ db' = db
  BY <1>3 DEF Changed
<1>4. GraphqlStatement \/ Drain \/ (ids' = ids /\ db' = db)
  BY DEF GraphqlNext, RowsNext, Observe, Create, PatchRefresh, WindowRefresh, SubsetRefresh, Unaffected, Requery, Flush,
         Subscribe, Unsubscribe, SnapshotFlush, DeltaFlush, vars, tables
<1> QED BY <1>1, <1>2, <1>3, <1>4

LEMMA CacheStep ==
  ASSUME CacheInv, IsFiniteSet(Changed), [GraphqlNext]_<<vars, gvars>>
  PROVE  CacheInv'
<1>1. Typed' /\ q' = q /\ scenario' = scenario
  <2>1. scenario' = scenario
    BY DEF GraphqlNext, GraphqlStatement, Statement, Insert, Update, Delete, Write, RowsNext, Observe, Create, PatchRefresh,
           WindowRefresh, SubsetRefresh, Unaffected, Requery, Flush, Drain, Subscribe, Unsubscribe, SnapshotFlush,
           DeltaFlush, vars
  <2> QED BY <2>1, GraphqlTyped DEF CacheInv
<1>2. stage' # "none" => scenario.api # "rows"
  BY DEF CacheInv, GraphqlNext, GraphqlStatement, RowsNext, Create, Subscribe, Unsubscribe, SnapshotFlush, DeltaFlush,
         vars, gvars
<1>3. ASSUME scenario.api # "rows" PROVE ObservableOK(db', q, obs', deltas')
  <2>1. Typed /\ ObservableOK(db, q, obs, deltas) /\ Selects(db, q)
    BY <1>3, SelectsTables DEF CacheInv
  <2>2. CASE GraphqlStatement
    <3>1. PICK t, old, new : Replaces(t, old, new)
      BY <2>1, <2>2, StatementReplaces DEF GraphqlStatement
    <3>2. obs' = obs
      BY <2>2 DEF GraphqlStatement
    <3>3. ASSUME "unseen" \notin obs.slips PROVE BucketsCurrent(db', q, obs.batch, deltas')
      BY <1>3, <2>1, <3>1, <3>3, StatementCurrent DEF ObservableOK
    <3>4. ObservableOK(db', q, obs, deltas')
      BY <2>1, <3>3 DEF ObservableOK
    <3> QED BY <3>2, <3>4
  <2>3. CASE SnapshotFlush
    <3>1. db' = db
      BY <2>3 DEF SnapshotFlush, Drain
    <3> QED BY <2>3, <3>1, SnapshotCache
  <2>4. CASE DeltaFlush
    <3>1. db' = db
      BY <2>4 DEF DeltaFlush, Drain
    <3> QED BY <2>4, <3>1, DeltaCache
  <2>5. CASE Subscribe
    <3> DEFINE rows == RootRows(result)
               o == IF obs.payload.known /\ ~obs.payload.dirty THEN obs ELSE Responded(obs, rows)
    <3>1. obs' = Hearing(o) /\ db' = db /\ deltas' = deltas
      BY <2>5 DEF Subscribe, vars
    <3> HIDE DEF rows
    <3>2. ObservableOK(db, q, o, deltas)
      BY <2>1, RespondedOK
    <3> HIDE DEF o
    <3>3. ObservableOK(db, q, Hearing(o), deltas)
      <4> DEFINE b == o.batch
                 y == o.payload
                 z == o.slips
                 h == o.heard
                 a == o.payload.array
      <4>1. o = [batch |-> b, payload |-> y, heard |-> h, slips |-> z] /\ IsPayload(y)
        BY <3>2 DEF ObservableOK, IsObservable
      <4>2. Hearing(o) = [o EXCEPT !.heard = a]
        BY DEF Hearing
      <4>3. BatchOK(q, b) /\ ("unseen" \notin z => BucketsCurrent(db, q, b, deltas))
        BY <3>2 DEF ObservableOK
      <4> HIDE DEF b, y, z, h, a
      <4>4. Hearing(o) = [batch |-> b, payload |-> y, heard |-> a, slips |-> z]
        BY <4>1, <4>2
      <4>5. IsObservable(Hearing(o)) /\ Hearing(o).batch = b /\ Hearing(o).slips = z
        BY <4>1, <4>4, ObservableMade
      <4> QED BY <4>3, <4>5 DEF ObservableOK
    <3> QED BY <3>1, <3>3
  <2>6. CASE Create \/ Unsubscribe \/ UNCHANGED <<vars, gvars>>
    <3>1. obs' = obs /\ db' = db /\ deltas' = deltas
      BY <2>6 DEF Create, Unsubscribe, vars, gvars, tables
    <3> QED BY <2>1, <3>1
  <2> QED BY <1>3, <2>2, <2>3, <2>4, <2>5, <2>6 DEF GraphqlNext, RowsNext
<1> QED BY <1>1, <1>2, <1>3 DEF CacheInv

LEMMA CacheBatchCurrent == CacheInv => BatchCurrent
<1> SUFFICES ASSUME CacheInv, stage # "none", ~Pending
             PROVE  /\ "unseen" \notin obs.slips =>
                         \A p \in DOMAIN obs.batch.buckets :
                           obs.batch.buckets[p] = Fetch(db, q.nested[p[1]], p[2])
                    /\ \A c \in DOMAIN obs.batch.cache :
                         /\ \A m \in Children(q, c[1]) :
                              c[2][q.nested[m].pcol] # Null =>
                                /\ <<m, c[2][q.nested[m].pcol]>> \in DOMAIN obs.batch.buckets
                                /\ {m} \X ToSet(Shown(q.nested[m], obs.batch.buckets[<<m, c[2][q.nested[m].pcol]>>]))
                                     \subseteq DOMAIN obs.batch.cache
                         /\ obs.batch.cache[c] = Object(q, obs.batch.cache, obs.batch.buckets, c[1], c[2])
  BY DEF BatchCurrent
<1>1. Typed /\ scenario.api # "rows" /\ ObservableOK(db, q, obs, deltas)
  BY DEF CacheInv
<1>2. ASSUME "unseen" \notin obs.slips, NEW x \in DOMAIN obs.batch.buckets
      PROVE  obs.batch.buckets[x] = Fetch(db, q.nested[x[1]], x[2])
  <2>1. q.nested[x[1]].root \in DOMAIN db
    BY <1>1, NodeRoots DEF ObservableOK, BatchOK, IsBucket
  <2>2. deltas[q.nested[x[1]].root] = {}
    BY <1>1, <2>1, UnchangedEmpty DEF Pending
  <2> QED BY <1>1, <1>2, <2>2 DEF ObservableOK, BucketsCurrent
<1>3. ASSUME NEW c \in DOMAIN obs.batch.cache
      PROVE  /\ IsMade(q, obs.batch.cache, obs.batch.buckets, c[1], c[2])
             /\ obs.batch.cache[c] = Object(q, obs.batch.cache, obs.batch.buckets, c[1], c[2])
  BY <1>1 DEF ObservableOK, BatchOK
<1> QED BY <1>2, <1>3 DEF IsMade, ShownBelow

(* Whatever tables a selection nests, and however statements, flushes and   *)
(* subscribers take turns: every bucket that is cached holds what its key   *)
(* fetches, or a row with that key is still queued, and every object is     *)
(* made of the objects and buckets that are cached with it                  *)
(* (batch_render.rs apply_invalidation, prefetch_node_edges).               *)
THEOREM CacheAlways == GraphqlSpec => []CacheInv
<1>1. GraphqlInit => CacheInv /\ IsFiniteSet(Changed)
  <2> SUFFICES ASSUME GraphqlInit PROVE IsFiniteSet(Changed)
    BY CacheInit
  <2>1. Changed = {}
    BY DEF GraphqlInit, Init, None, Changed
  <2> QED BY <2>1, FS_EmptySet
<1>2. CacheInv /\ IsFiniteSet(Changed) /\ [GraphqlNext]_<<vars, gvars>> => (CacheInv /\ IsFiniteSet(Changed))'
  BY CacheStep, ChangedFinite DEF CacheInv
<1> QED BY <1>1, <1>2, PTL DEF GraphqlSpec

(* Between flushes, what is cached is what rendering would give: buckets    *)
(* are what the tables hold for their keys and objects are made of what is  *)
(* cached (batch_render.rs apply_invalidation).                             *)
THEOREM BatchAlwaysCurrent == GraphqlSpec => []BatchCurrent
<1>1. CacheInv => BatchCurrent
  BY CacheBatchCurrent
<1> QED BY <1>1, CacheAlways, PTL


-----------------------------------------------------------------------------
(* Next to subscriptions, an observe() query is refreshed as on its own.    *)
BesideInv ==
  /\ scenario.api = "rows" => Inv
  /\ scenario.api # "rows" => ~opened /\ window = <<>>

LEMMA BesideStep ==
  ASSUME Typed, BesideInv, [GraphqlNext]_<<vars, gvars>>
  PROVE  BesideInv'
<1>1. scenario' = scenario
  BY DEF GraphqlNext, GraphqlStatement, Statement, Insert, Update, Delete, Write, RowsNext, Observe, Create, PatchRefresh,
         WindowRefresh, SubsetRefresh, Unaffected, Requery, Flush, Drain, Subscribe, Unsubscribe, SnapshotFlush,
         DeltaFlush, vars
<1>2. CASE scenario.api = "rows"
  <2>1. CASE GraphqlStatement \/ RowsNext
    <3>1. [Next]_vars
      BY <2>1 DEF GraphqlStatement, RowsNext, Next
    <3> QED BY <1>1, <1>2, <3>1, StepInv DEF BesideInv
  <2>2. CASE Subscribe \/ Unsubscribe \/ UNCHANGED <<vars, gvars>>
    <3>1. [Next]_vars
      BY <2>2 DEF Subscribe, Unsubscribe, vars
    <3> QED BY <1>1, <1>2, <3>1, StepInv DEF BesideInv
  <2> QED BY <1>2, <2>1, <2>2 DEF GraphqlNext, Create, SnapshotFlush, DeltaFlush
<1>3. CASE scenario.api # "rows"
  <2>1. opened' = opened /\ window' = window
    BY <1>3 DEF GraphqlNext, GraphqlStatement, Statement, Insert, Update, Delete, Write, RowsNext, Create, Drain, Subscribe,
                Unsubscribe, SnapshotFlush, DeltaFlush, vars
  <2> QED BY <1>1, <1>3, <2>1 DEF BesideInv
<1> QED BY <1>2, <1>3

THEOREM BesideAlways == GraphqlSpec => []BesideInv
<1>1. GraphqlInit => BesideInv
  BY InitInv DEF GraphqlInit, Init, BesideInv
<1>2. CacheInv /\ BesideInv /\ [GraphqlNext]_<<vars, gvars>> => BesideInv'
  BY BesideStep DEF CacheInv
<1> QED BY <1>1, <1>2, CacheAlways, PTL DEF GraphqlSpec

(* Once nothing is queued, what an observe() query was told is its answer,  *)
(* also next to subscriptions (reactive_bridge.rs on_change_inner).         *)
THEOREM BesideAnswersCurrent == GraphqlSpec => []AnswersCurrent
<1>1. BesideInv => AnswersCurrent
  BY InvAnswersCurrent DEF BesideInv, AnswersCurrent, Quiet
<1> QED BY <1>1, BesideAlways, PTL

(* So is its window as deep (reactive_bridge.rs try_partial_refresh).       *)
THEOREM BesideWindowDeep == GraphqlSpec => []WindowDeep
<1>1. BesideInv => WindowDeep
  BY InvWindowDeep DEF BesideInv, WindowDeep, Quiet
<1> QED BY <1>1, BesideAlways, PTL

(* So are its groups those of the tables (snapshot_refresh.rs               *)
(* apply_subset_rows).                                                      *)
THEOREM BesideGroupsCurrent == GraphqlSpec => []GroupsCurrent
<1>1. BesideInv => GroupsCurrent
  BY InvGroupsCurrent DEF BesideInv, GroupsCurrent, Quiet
<1> QED BY <1>1, BesideAlways, PTL

-----------------------------------------------------------------------------
(* The root rows of a subscription: one table, no joins.                    *)
LEMMA NoJoinsRoots ==
  ASSUME NEW c, NEW p, IsQuery(p), p.joins = <<>>, IsDatabase(c, p), NEW marked,
         \A t \in Tables(p) : marked[t] \subseteq Nat, NEW seen
  PROVE  AffectedRoots(c, p, marked, seen) = marked[p.root]
<1>1. PICK f : DirtyRun(f, c, p, marked, seen) /\ DirtyRows(c, p, marked, seen) = f[Len(p.joins)]
  BY DirtyRunExists
<1>2. Len(p.joins) = 0
  OBVIOUS
<1>3. p.root \in Tables(p)
  BY DEF Tables
<1> QED BY <1>1, <1>2, <1>3 DEF DirtyRun, AffectedRoots

LEMMA InOrderOne ==
  ASSUME NEW d, NEW p, IsQuery(p), IsDatabase(d, p), NEW o, AreOutputs({o}, d, p)
  PROVE  InOrder(p, {o}) = <<o>>
<1>1. IsFiniteSet({o}) /\ Cardinality({o}) = 1
  BY FS_Singleton
<1> DEFINE S == {o}
           s == InOrder(p, S)
<1> HIDE DEF S
<1>2. s \in Seq(S) /\ Len(s) = Cardinality(S)
  BY <1>1, InOrderFacts DEF S
<1> HIDE DEF s
<1>3. s \in Seq({o}) /\ Len(s) = 1
  BY <1>1, <1>2 DEF S
<1>4. s = <<o>>
  BY <1>3
<1> QED BY <1>4 DEF s, S

\* What a runtime is, whether or not it is that of the tables: groups are of one row.
IsGroup(p, rt, k) ==
  \E r : /\ rt.groups[k] = <<RootRow(p, r)>>
         /\ r.id \in DOMAIN rt.keyOf /\ r.id \in Nat /\ rt.keyOf[r.id] = k

InTurn(rt) == rt.order \in Seq(DOMAIN rt.groups) /\ NoTwice(rt.order) /\ ToSet(rt.order) = DOMAIN rt.groups

RuntimeShape(p, rt) ==
  /\ InTurn(rt)
  /\ IsOrdinal(rt.ordinal) /\ \A i \in DOMAIN rt.keyOf : rt.keyOf[i] \in DOMAIN rt.ordinal
  /\ \A k \in DOMAIN rt.groups : IsGroup(p, rt, k)

LEMMA OneTableGroups ==
  ASSUME NEW d, NEW p, IsQuery(p), p.joins = <<>>, IsDatabase(d, p), UniqueKeys(d, p), NEW A,
         NEW F, F = Outputs(d, p, A)
  PROVE  /\ \A k : k \in DOMAIN Grouped(p, InOrder(p, F)) <=>
                     \E r \in d[p.root] : r.id \in A /\ r.v \notin p.hidden /\ r.key = k
         /\ \A r \in d[p.root] : r.id \in A /\ r.v \notin p.hidden => Grouped(p, InOrder(p, F))[r.key] = <<RootRow(p, r)>>
<1>1. F = {RootRow(p, r) : r \in Chosen(d, p, A)}
  <2>1. Outputs(d, p, A) = RowsAlone(p, Chosen(d, p, A))
    BY RootOutputs
  <2> QED BY <2>1 DEF RowsAlone
<1>2. IsFiniteSet(F) /\ F \subseteq WholeSet(d, p) /\ AreOutputs(F, d, p)
  <2>1. IsFiniteSet(F)
    BY OutputFacts
  <2>2. WholeSet(d, p) = {RootRow(p, r) : r \in Chosen(d, p, AllRoots(d, p))}
    BY RootOutputs DEF WholeSet, RowsAlone
  <2>3. F \subseteq WholeSet(d, p)
    BY <1>1, <2>2 DEF Chosen, AllRoots
  <2> QED BY <2>1, <2>3, WholeFacts DEF AreOutputs
<1>3. Grouped(p, InOrder(p, F)) = [k \in KeysIn(p, F) |-> InOrder(p, KeyGroup(p, F, k))]
  BY <1>2, GroupedIs
<1>4. \A r : RootRow(p, r)[p.root] = r /\ RootKey(p, RootRow(p, r)) = r.key
  BY DEF RootRow, RootKey
<1>5. ASSUME NEW k PROVE k \in KeysIn(p, F) <=> \E r \in d[p.root] : r.id \in A /\ r.v \notin p.hidden /\ r.key = k
  <2>1. k \in KeysIn(p, F) <=> \E r \in Chosen(d, p, A) : RootKey(p, RootRow(p, r)) = k
    BY <1>1 DEF KeysIn
  <2> QED BY <1>4, <2>1 DEF Chosen
<1>6. ASSUME NEW r \in d[p.root], r.id \in A, r.v \notin p.hidden
      PROVE  r.key \in KeysIn(p, F) /\ InOrder(p, KeyGroup(p, F, r.key)) = <<RootRow(p, r)>>
  <2>1. RootRow(p, r) \in F
    BY <1>1, <1>6 DEF Chosen
  <2>2. ASSUME NEW o \in F, RootKey(p, o) = r.key PROVE o = RootRow(p, r)
    <3>1. PICK x \in Chosen(d, p, A) : o = RootRow(p, x)
      BY <1>1
    <3>2. x.key = r.key /\ x \in d[p.root]
      BY <1>4, <2>2, <3>1 DEF Chosen
    <3> QED BY <3>1, <3>2 DEF UniqueKeys
  <2>3. KeyGroup(p, F, r.key) = {RootRow(p, r)}
    BY <1>4, <2>1, <2>2 DEF KeyGroup
  <2>4. AreOutputs({RootRow(p, r)}, d, p)
    BY <1>2, <2>1 DEF AreOutputs
  <2>5. InOrder(p, {RootRow(p, r)}) = <<RootRow(p, r)>>
    BY <2>4, InOrderOne
  <2> QED BY <1>5, <1>6, <2>3, <2>5
<1>7. /\ DOMAIN Grouped(p, InOrder(p, F)) = KeysIn(p, F)
      /\ \A k \in KeysIn(p, F) : Grouped(p, InOrder(p, F))[k] = InOrder(p, KeyGroup(p, F, k))
  BY <1>3
<1> QED BY <1>5, <1>6, <1>7

LEMMA GroupsShape ==
  ASSUME NEW d, NEW p, IsQuery(p), p.joins = <<>>, IsDatabase(d, p), UniqueKeys(d, p), NEW rt, GroupsOf(d, p, rt)
  PROVE  RuntimeShape(p, rt)
<1>1. /\ rt.keyOf = KeysOf(d, p) /\ rt.groups = Grouped(p, Whole(d, p))
      /\ rt.order \in Seq(DOMAIN rt.groups) /\ NoTwice(rt.order) /\ ToSet(rt.order) = DOMAIN rt.groups
      /\ IsOrdinal(rt.ordinal) /\ \A r \in d[p.root] : r.key \in DOMAIN rt.ordinal
  BY DEF GroupsOf
<1>2. DOMAIN KeysOf(d, p) = AllRoots(d, p) /\ \A r \in d[p.root] : r.id \in AllRoots(d, p) /\ KeysOf(d, p)[r.id] = r.key
  BY KeysOfFacts
<1>3. ASSUME NEW i \in DOMAIN rt.keyOf PROVE rt.keyOf[i] \in DOMAIN rt.ordinal
  <2>1. \E r \in d[p.root] : r.id = i
    BY <1>1, <1>2 DEF AllRoots
  <2> QED BY <1>1, <1>2, <2>1
<1> DEFINE F == Outputs(d, p, AllRoots(d, p))
<1>4. /\ \A k : k \in DOMAIN Grouped(p, InOrder(p, F)) <=>
                  \E r \in d[p.root] : r.id \in AllRoots(d, p) /\ r.v \notin p.hidden /\ r.key = k
      /\ \A r \in d[p.root] : r.id \in AllRoots(d, p) /\ r.v \notin p.hidden
                              => Grouped(p, InOrder(p, F))[r.key] = <<RootRow(p, r)>>
  BY OneTableGroups
<1>5. Grouped(p, InOrder(p, F)) = rt.groups
  BY <1>1 DEF Whole
<1>6. ASSUME NEW k \in DOMAIN rt.groups PROVE IsGroup(p, rt, k)
  <2>1. PICK r \in d[p.root] : r.id \in AllRoots(d, p) /\ r.v \notin p.hidden /\ r.key = k
    BY <1>4, <1>5
  <2>2. rt.groups[k] = <<RootRow(p, r)>>
    BY <1>4, <1>5, <2>1
  <2>3. r.id \in Nat
    BY DEF IsDatabase, Tables
  <2> QED BY <1>1, <1>2, <2>1, <2>2, <2>3 DEF IsGroup
<1> QED BY <1>1, <1>3, <1>6 DEF RuntimeShape, InTurn

LEMMA ShapeGroups ==
  ASSUME NEW d, NEW p, IsQuery(p), IsDatabase(d, p), NEW rt, RuntimeShape(p, rt),
         NEW fresh, fresh = NewRuntime(d, p, Whole(d, p)), rt.groups = fresh.groups, rt.keyOf = fresh.keyOf
  PROVE  GroupsOf(d, p, rt)
<1>1. GroupsOf(d, p, fresh)
  BY NewGroups
<1>2. rt.keyOf = KeysOf(d, p) /\ rt.groups = Grouped(p, Whole(d, p))
  BY <1>1 DEF GroupsOf
<1>3. \A r \in d[p.root] : r.id \in DOMAIN rt.keyOf /\ rt.keyOf[r.id] = r.key
  BY <1>2, KeysOfFacts
<1> QED BY <1>2, <1>3 DEF GroupsOf, RuntimeShape, InTurn


-----------------------------------------------------------------------------
(* Lists of root rows.                                                      *)
IsList(s) == s \in Seq(ToSet(s))

RootListing(p, s) ==
  /\ IsList(s)
  /\ \A n \in DOMAIN s : s[n] = RootRow(p, s[n][p.root]) /\ s[n][p.root].id \in Nat
  /\ \A m, n \in DOMAIN s : s[m][p.root].id = s[n][p.root].id => m = n

LEMMA ListIn ==
  ASSUME NEW E, NEW s \in Seq(E)
  PROVE  IsList(s) /\ ToSet(s) \subseteq E
<1>1. Len(s) \in Nat /\ DOMAIN s = 1..Len(s) /\ s \in [1..Len(s) -> E]
  OBVIOUS
<1>2. \A n \in 1..Len(s) : s[n] \in ToSet(s)
  BY <1>1 DEF ToSet
<1>3. ToSet(s) \subseteq E
  BY <1>1 DEF ToSet
<1> QED BY <1>1, <1>2, <1>3 DEF IsList

LEMMA ListingOf ==
  ASSUME NEW p, NEW E, NEW s \in Seq(E), NoTwice(s),
         \A o \in ToSet(s) : o = RootRow(p, o[p.root]) /\ o[p.root].id \in Nat,
         \A o, u \in ToSet(s) : o[p.root].id = u[p.root].id => o = u
  PROVE  RootListing(p, s)
<1>1. IsList(s) /\ \A n \in DOMAIN s : s[n] \in ToSet(s)
  BY ListIn DEF ToSet
<1> QED BY <1>1 DEF RootListing, NoTwice

LEMMA ShapeListing ==
  ASSUME NEW p, NEW rt, RuntimeShape(p, rt)
  PROVE  RootListing(p, Ungrouped(rt))
<1> DEFINE G == DOMAIN rt.groups
           E == {rt.groups[k][1] : k \in G}
           row(k) == rt.groups[k][1][p.root]
<1>1. ASSUME NEW k \in G
      PROVE  /\ rt.groups[k] = <<rt.groups[k][1]>> /\ rt.groups[k][1] = RootRow(p, row(k))
             /\ row(k).id \in Nat /\ row(k).id \in DOMAIN rt.keyOf /\ rt.keyOf[row(k).id] = k
  <2>1. PICK r : rt.groups[k] = <<RootRow(p, r)>> /\ r.id \in DOMAIN rt.keyOf /\ r.id \in Nat /\ rt.keyOf[r.id] = k
    BY DEF RuntimeShape, InTurn, IsGroup
  <2>2. rt.groups[k][1] = RootRow(p, r) /\ RootRow(p, r)[p.root] = r
    BY <2>1 DEF RootRow
  <2> QED BY <2>1, <2>2
<1>2. ASSUME NEW k \in G
      PROVE  rt.groups[k] \in Seq(E) /\ NoTwice(rt.groups[k]) /\ ToSet(rt.groups[k]) = {rt.groups[k][1]}
  <2> DEFINE o == rt.groups[k][1]
  <2>1. rt.groups[k] = <<o>> /\ o \in E
    BY <1>1
  <2> HIDE DEF o, E
  <2>2. <<o>> \in Seq(E) /\ NoTwice(<<o>>) /\ ToSet(<<o>>) = {o}
    BY <2>1 DEF NoTwice, ToSet
  <2> QED BY <2>1, <2>2 DEF o
<1>3. ASSUME NEW k \in G, NEW l \in G, row(k).id = row(l).id PROVE k = l
  BY <1>1, <1>3
<1>4. \A k, l \in G : k # l => ToSet(rt.groups[k]) \cap ToSet(rt.groups[l]) = {}
  BY <1>2, <1>3
<1> HIDE DEF E
<1>5. /\ Ungrouped(rt) \in Seq(E) /\ NoTwice(Ungrouped(rt))
      /\ \A x : x \in ToSet(Ungrouped(rt)) <=> \E k \in ToSet(rt.order) : x \in ToSet(rt.groups[k])
  <2>1. rt.order \in Seq(DOMAIN rt.groups) /\ NoTwice(rt.order)
    BY DEF RuntimeShape, InTurn
  <2> QED BY <1>2, <1>4, <2>1, UngroupedFacts
<1>6. ASSUME NEW x \in ToSet(Ungrouped(rt)) PROVE \E k \in G : x = rt.groups[k][1]
  <2>1. PICK k \in ToSet(rt.order) : x \in ToSet(rt.groups[k])
    BY <1>5
  <2>2. k \in G
    BY DEF RuntimeShape, InTurn
  <2> QED BY <1>2, <2>1, <2>2
<1>7. \A o \in ToSet(Ungrouped(rt)) : o = RootRow(p, o[p.root]) /\ o[p.root].id \in Nat
  BY <1>1, <1>6
<1>8. \A o, u \in ToSet(Ungrouped(rt)) : o[p.root].id = u[p.root].id => o = u
  BY <1>3, <1>6
<1> QED BY <1>5, <1>7, <1>8, ListingOf

(* A regrouping of whatever shape: the root table has changed, so that all  *)
(* that is regrouped is learnt anew.                                        *)
IsRegrouped(c, p, rt, R, refresh, new, fresh, K) ==
  /\ new = Regrouped(c, p, rt, R, refresh)
  /\ fresh = Grouped(p, InOrder(p, Outputs(c, p, R)))
  /\ K = AffectedKeys(c, p, rt, R, refresh)

LEMMA RegroupedOrder ==
  ASSUME NEW c, NEW p, NEW rt, NEW R, NEW refresh, NEW new, NEW fresh, NEW K,
         IsRegrouped(c, p, rt, R, refresh, new, fresh, K),
         InTurn(rt),
         IsOrdinal(new.ordinal), DOMAIN fresh \subseteq DOMAIN new.ordinal, DOMAIN fresh \subseteq K
  PROVE  /\ new.groups = [k \in (DOMAIN rt.groups \ K) \cup DOMAIN fresh |-> IF k \in DOMAIN fresh THEN fresh[k] ELSE rt.groups[k]]
         /\ InTurn(new)
<1>0. rt.order \in Seq(DOMAIN rt.groups) /\ NoTwice(rt.order) /\ ToSet(rt.order) = DOMAIN rt.groups
  BY DEF InTurn
<1> DEFINE kept == Picked(rt.order, {k \in ToSet(rt.order) : k \notin K \/ k \in DOMAIN fresh})
           N == DOMAIN fresh \ (ToSet(rt.order) \cap K)
           newInOrder == [n \in 1..Cardinality(N) |->
                            CHOOSE k \in N : Cardinality({l \in N : new.ordinal[l] < new.ordinal[k]}) = n - 1]
<1>1. /\ new.groups = [k \in (DOMAIN rt.groups \ K) \cup DOMAIN fresh |-> IF k \in DOMAIN fresh
                                                                          THEN fresh[k] ELSE rt.groups[k]]
      /\ new.order = AllPlaced(new.ordinal, kept, newInOrder)
  BY DEF Regrouped, IsRegrouped
<1> DEFINE X == DOMAIN new.groups
           ordinal == new.ordinal
<1>2. X = (DOMAIN rt.groups \ K) \cup DOMAIN fresh
  BY <1>1
<1>3. kept \in Seq(DOMAIN rt.groups) /\ NoTwice(kept)
      /\ \A k : k \in ToSet(kept) <=> k \in DOMAIN rt.groups /\ (k \notin K \/ k \in DOMAIN fresh)
  <2> DEFINE C == {k \in ToSet(rt.order) : k \notin K \/ k \in DOMAIN fresh}
  <2>1. \A k : k \in C <=> k \in DOMAIN rt.groups /\ (k \notin K \/ k \in DOMAIN fresh)
    BY <1>0
  <2> HIDE DEF C
  <2>2. Picked(rt.order, C) \in Seq(DOMAIN rt.groups) /\ NoTwice(Picked(rt.order, C))
        /\ ToSet(Picked(rt.order, C)) = ToSet(rt.order) \cap C
    BY <1>0, PickedFacts, PickedNoTwice
  <2> QED BY <1>0, <2>1, <2>2 DEF C
<1>4. \A k : k \in N <=> k \in DOMAIN fresh /\ k \notin DOMAIN rt.groups
  BY <1>0
<1> HIDE DEF kept, N, X
<1>5. newInOrder \in Seq(N) /\ ToSet(newInOrder) = N /\ NoTwice(newInOrder)
  <2> DEFINE f == new.ordinal
  <2>1. IsOrdinal(f) /\ N \in SUBSET DOMAIN f
    BY <1>4
  <2>2. newInOrder = OrdinalOrder(f, N)
    BY DEF OrdinalOrder
  <2> HIDE DEF f, newInOrder
  <2>3. OrdinalOrder(f, N) \in Seq(N) /\ ToSet(OrdinalOrder(f, N)) = N /\ NoTwice(OrdinalOrder(f, N))
    BY <2>1, ByOrdinal
  <2> QED BY <2>2, <2>3
<1> HIDE DEF newInOrder, ordinal
<1>6. kept \in Seq(X)
  <2>1. \A k : k \in ToSet(kept) => k \in X
    BY <1>2, <1>3
  <2>2. \A n \in 1..Len(kept) : kept[n] \in ToSet(kept)
    BY <1>3 DEF ToSet
  <2> QED BY <2>1, <2>2, <1>3
<1>7. newInOrder \in Seq(X)
  <2>1. N \subseteq X
    BY <1>2, <1>4
  <2> QED BY <2>1, <1>5
<1>8. ToSet(kept) \cap ToSet(newInOrder) = {}
  BY <1>3, <1>4, <1>5
<1>9. NoTwice(kept) /\ NoTwice(newInOrder)
  BY <1>3, <1>5
<1>10. AllPlaced(ordinal, kept, newInOrder) \in Seq(X) /\ NoTwice(AllPlaced(ordinal, kept, newInOrder))
  BY <1>6, <1>7, <1>8, <1>9, AllPlacedFacts
<1>11. \A k : k \in ToSet(AllPlaced(ordinal, kept, newInOrder)) <=> k \in ToSet(kept) \/ k \in ToSet(newInOrder)
  BY <1>6, <1>7, <1>8, <1>9, AllPlacedFacts
<1>12. \A k : k \in X <=> k \in ToSet(kept) \/ k \in ToSet(newInOrder)
  BY <1>2, <1>3, <1>4, <1>5
<1>13. ToSet(AllPlaced(ordinal, kept, newInOrder)) = X
  BY <1>11, <1>12
<1>14. new.order = AllPlaced(ordinal, kept, newInOrder)
  BY <1>1 DEF ordinal
<1> QED BY <1>1, <1>10, <1>13, <1>14 DEF X, InTurn


LEMMA RegroupedShape ==
  ASSUME NEW c, NEW p, IsQuery(p), p.joins = <<>>, IsDatabase(c, p), UniqueKeys(c, p), NEW rt, RuntimeShape(p, rt),
         NEW R, NEW refresh, Relearnt(rt, R, refresh) = R, NEW new, NEW fresh, NEW K,
         IsRegrouped(c, p, rt, R, refresh, new, fresh, K)
  PROVE  RuntimeShape(p, new)
<1> DEFINE L == Relearnt(rt, R, refresh)
           live == L \cap AllRoots(c, p)
<1>1. L = R
  OBVIOUS
<1>2. /\ new.keyOf = [i \in (DOMAIN rt.keyOf \ L) \cup live |->
                        IF i \in live THEN (CHOOSE r \in c[p.root] : r.id = i).key ELSE rt.keyOf[i]]
      /\ new.ordinal = WithOrdinals(c, p, rt.ordinal, live)
  BY DEF Regrouped, IsRegrouped
<1>3. \A k : k \in K <=> \/ \E i \in R \cap DOMAIN rt.keyOf : k = rt.keyOf[i]
                         \/ \E r \in c[p.root] : r.id \in R /\ k = r.key
  BY <1>1 DEF AffectedKeys, IsRegrouped
<1>4. \A r \in c[p.root] : r.id \in AllRoots(c, p) /\ KeysOf(c, p)[r.id] = r.key
  BY KeysOfFacts
<1>5. \A i \in AllRoots(c, p) : (\E r \in c[p.root] : r.id = i) /\ KeysOf(c, p)[i] = (CHOOSE r \in c[p.root] : r.id = i).key
  BY DEF AllRoots, KeysOf
<1>6. /\ \A k : k \in DOMAIN fresh <=> \E r \in c[p.root] : r.id \in R /\ r.v \notin p.hidden /\ r.key = k
      /\ \A r \in c[p.root] : r.id \in R /\ r.v \notin p.hidden => fresh[r.key] = <<RootRow(p, r)>>
  BY OneTableGroups DEF IsRegrouped
<1>7. IsOrdinal(new.ordinal) /\ DOMAIN new.ordinal = DOMAIN rt.ordinal \cup {r.key : r \in RowsWithId(c, p, live)}
  <2> DEFINE o == rt.ordinal
  <2>1. IsOrdinal(o) /\ new.ordinal = WithOrdinals(c, p, o, live)
    BY <1>2 DEF RuntimeShape, InTurn
  <2> HIDE DEF o, live
  <2>2. IsOrdinal(WithOrdinals(c, p, o, live)) /\ DOMAIN WithOrdinals(c, p, o, live) = DOMAIN o \cup {r.key : r \in RowsWithId(c, p, live)}
    BY <2>1, WithOrdinalsFacts
  <2> QED BY <2>1, <2>2 DEF o
<1> HIDE DEF L
<1>8. \A r \in c[p.root] : r.id \in R => r.id \in live /\ r.key \in DOMAIN new.ordinal /\ r.key \in K
  BY <1>1, <1>3, <1>4, <1>7 DEF RowsWithId
<1>9. DOMAIN new.keyOf = (DOMAIN rt.keyOf \ R) \cup live
  BY <1>1, <1>2
<1>10. ASSUME NEW r \in c[p.root], r.id \in R PROVE r.id \in DOMAIN new.keyOf /\ new.keyOf[r.id] = r.key
  <2>1. r.id \in live /\ (CHOOSE x \in c[p.root] : x.id = r.id).key = r.key
    BY <1>4, <1>5, <1>8, <1>10
  <2> HIDE DEF live
  <2> QED BY <1>2, <2>1
<1>11. \A i \in DOMAIN rt.keyOf : i \notin R => i \in DOMAIN new.keyOf /\ new.keyOf[i] = rt.keyOf[i]
  BY <1>1, <1>2
<1> HIDE DEF live
<1>12. ASSUME NEW i \in DOMAIN new.keyOf PROVE new.keyOf[i] \in DOMAIN new.ordinal
  <2>1. CASE i \in live
    <3>1. PICK r \in c[p.root] : r.id = i /\ r.id \in R
      BY <1>1, <1>5, <2>1 DEF live
    <3> QED BY <1>8, <1>10, <3>1
  <2>2. CASE i \notin live
    <3>1. i \in DOMAIN rt.keyOf /\ i \notin R
      BY <1>9, <2>2
    <3> QED BY <1>7, <1>11, <3>1 DEF RuntimeShape, InTurn
  <2> QED BY <2>1, <2>2
<1>13. /\ InTurn(rt)
       /\ DOMAIN fresh \subseteq DOMAIN new.ordinal /\ DOMAIN fresh \subseteq K
  <2>1. \A k \in DOMAIN fresh : k \in DOMAIN new.ordinal /\ k \in K
    BY <1>6, <1>8
  <2> QED BY <2>1 DEF RuntimeShape, InTurn
<1>14. /\ new.groups = [k \in (DOMAIN rt.groups \ K) \cup DOMAIN fresh |-> IF k \in DOMAIN fresh THEN fresh[k] ELSE rt.groups[k]]
       /\ InTurn(new)
  BY <1>7, <1>13, RegroupedOrder, Zenon
<1>15. ASSUME NEW k \in DOMAIN new.groups PROVE IsGroup(p, new, k)
  <2>1. CASE k \in DOMAIN fresh
    <3>1. PICK r \in c[p.root] : r.id \in R /\ r.v \notin p.hidden /\ r.key = k
      BY <1>6, <2>1
    <3>2. new.groups[k] = <<RootRow(p, r)>>
      BY <1>6, <1>14, <2>1, <3>1
    <3>3. r.id \in Nat
      BY DEF IsDatabase, Tables
    <3> QED BY <1>10, <3>1, <3>2, <3>3 DEF IsGroup
  <2>2. CASE k \notin DOMAIN fresh
    <3>1. k \in DOMAIN rt.groups /\ k \notin K /\ new.groups[k] = rt.groups[k]
      BY <1>14, <2>2
    <3>2. PICK r : /\ rt.groups[k] = <<RootRow(p, r)>>
                   /\ r.id \in DOMAIN rt.keyOf /\ r.id \in Nat /\ rt.keyOf[r.id] = k
      BY <3>1 DEF RuntimeShape, InTurn, IsGroup
    <3>3. r.id \notin R
      BY <1>3, <3>1, <3>2
    <3> QED BY <1>11, <3>1, <3>2, <3>3 DEF IsGroup
  <2> QED BY <2>1, <2>2
<1> QED BY <1>7, <1>12, <1>14, <1>15 DEF RuntimeShape, InTurn

-----------------------------------------------------------------------------
(* Patching.                                                                *)
Placeable(p, E) == \A o \in E : o = RootRow(p, o[p.root]) /\ o[p.root].id \in Nat

LEMMA OrderedListing ==
  ASSUME NEW p, NEW E, Placeable(p, E), NEW s \in Seq(E), Ordered(s, ById(p, E))
  PROVE  RootListing(p, s)
<1>1. IsList(s) /\ Len(s) \in Nat /\ DOMAIN s = 1..Len(s) /\ \A n \in 1..Len(s) : s[n] \in E
  BY ListIn
<1>2. \A m, n \in DOMAIN s : m < n => s[m][p.root].id < s[n][p.root].id
  BY DEF Ordered, ById
<1>3. \A n \in DOMAIN s : s[n] = RootRow(p, s[n][p.root]) /\ s[n][p.root].id \in Nat
  BY <1>1 DEF Placeable
<1>4. ASSUME NEW m \in DOMAIN s, NEW n \in DOMAIN s, s[m][p.root].id = s[n][p.root].id PROVE m = n
  <2>1. ~(m < n) /\ ~(n < m)
    BY <1>2, <1>3, <1>4
  <2> QED BY <1>1, <2>1
<1> QED BY <1>1, <1>3, <1>4 DEF RootListing

LEMMA PatchedListing ==
  ASSUME NEW c, NEW p, IsDatabase(c, p), NEW s, RootListing(p, s),
         \A m, n \in DOMAIN s : m < n => s[m][p.root].id < s[n][p.root].id,
         NEW changed, changed \subseteq Nat, IsFiniteSet(changed)
  PROVE  RootListing(p, Patched(c, p, s, changed))
<1> DEFINE keys == SetToSeq(changed)
           N == Len(keys)
           E == ToSet(s) \cup ShownRows(c, p)
           R == ById(p, E)
           Row(x, i) == PatchedRow(p, x, i, {r \in c[p.root] : r.id = i /\ r.v \notin p.hidden})
<1>1. keys \in Seq(changed)
  BY Enumerated
<1>2. keys \in Seq(Nat) /\ N \in Nat /\ \A n \in 1..N : keys[n] \in Nat
  <2> HIDE DEF keys
  <2>1. Len(keys) \in Nat /\ DOMAIN keys = 1..Len(keys) /\ \A n \in 1..Len(keys) : keys[n] \in Nat
    <3>1. Len(keys) \in Nat /\ DOMAIN keys = 1..Len(keys)
      BY <1>1
    <3>2. \A n \in 1..Len(keys) : keys[n] \in changed
      BY <1>1
    <3> QED BY <3>1, <3>2
  <2>2. keys = [n \in 1..Len(keys) |-> keys[n]]
    BY <1>1
  <2> QED BY <2>1, <2>2
<1>3. \A n \in DOMAIN s : s[n] = RootRow(p, s[n][p.root]) /\ s[n][p.root].id \in Nat
  BY DEF RootListing
<1>4. Placeable(p, E)
  <2>1. \A o \in ToSet(s) : o = RootRow(p, o[p.root]) /\ o[p.root].id \in Nat
    BY <1>3 DEF ToSet
  <2>2. \A o \in ShownRows(c, p) : o = RootRow(p, o[p.root]) /\ o[p.root].id \in Nat
    BY DEF ShownRows, RootRow, IsDatabase, Tables
  <2> QED BY <2>1, <2>2 DEF Placeable
<1>5. s \in Seq(ToSet(s)) /\ DOMAIN s = 1..Len(s) /\ Len(s) \in Nat /\ \A n \in DOMAIN s : s[n] \in ToSet(s)
  BY DEF RootListing, IsList, ToSet
<1>6. s \in Seq(E) /\ Ordered(s, R) /\ ShownRows(c, p) \subseteq E
  <2>1. s \in Seq(E)
    BY <1>5
  <2> QED BY <1>5, <2>1 DEF Ordered, ById
<1>7. \A o \in E : o[p.root].id \in Nat
  BY <1>4 DEF Placeable
<1> HIDE DEF E, R, keys
<1>8. PICK f : PatchRun(f, c, p, s, keys, E) /\ Patched(c, p, s, changed) = f[N]
  <2>1. keys = SetToSeq(changed)
    BY DEF keys
  <2> QED BY <1>2, <1>6, <1>7, <2>1, PatchRunExists
<1>9. f \in [0..N -> Seq(E)] /\ f[0] = s /\ \A n \in 1..N : f[n] = Row(f[n - 1], keys[n])
  BY <1>8 DEF PatchRun
<1>10. ASSUME NEW x \in Seq(E), NEW i \in Nat PROVE Ordered(x, R) => Ordered(Row(x, i), R)
  BY <1>6, <1>7, PatchedRowFacts DEF R
<1> HIDE DEF N, Row
<1> DEFINE P == {n \in 0..N : Ordered(f[n], R)}
<1>11. 0 \in P
  BY <1>2, <1>6, <1>9
<1>12. ASSUME NEW n \in 1..N, n - 1 \in P PROVE n \in P
  <2>1. n \in 0..N /\ n - 1 \in 0..N /\ f[n - 1] \in Seq(E) /\ Ordered(f[n - 1], R)
    BY <1>2, <1>9, <1>12
  <2> QED BY <1>2, <1>9, <1>10, <2>1
<1> HIDE DEF P
<1>13. 0..N \subseteq P
  BY <1>2, <1>11, <1>12, StepByStep
<1>14. Ordered(f[N], R) /\ f[N] \in Seq(E)
  <2>1. N \in P /\ N \in 0..N
    BY <1>2, <1>13
  <2> QED BY <2>1, <1>9 DEF P
<1>15. RootListing(p, f[N])
  BY <1>4, <1>14, OrderedListing DEF R
<1> QED BY <1>8, <1>15


-----------------------------------------------------------------------------
(* What the snapshot lane keeps between flushes, for the database d of the  *)
(* last one.  Whatever went wrong, the runtime has its shape, and unless a  *)
(* row was misplaced the list has no row id twice.                          *)
RootsKept(d, p, res, rt, slips) ==
  /\ ~ShowsAll(p) => res = Answer(d, p)
  /\ ShowsAll(p) => RuntimeShape(p, rt)
  /\ ShowsAll(p) /\ "behind" \notin slips => GroupsOf(d, p, rt)
  /\ ShowsAll(p) /\ "regrouped" \notin slips /\ "misplaced" \notin slips =>
       res \in Seq(WholeSet(d, p)) /\ NoTwice(res) /\ ToSet(res) = WholeSet(d, p)
  /\ "misplaced" \notin slips => RootListing(p, res)

UpToDate(c, p, rt) ==
  /\ rt.groups = NewRuntime(c, p, Whole(c, p)).groups
  /\ rt.keyOf = NewRuntime(c, p, Whole(c, p)).keyOf

LEMMA RootsListing ==
  ASSUME NEW d, NEW p, IsQuery(p), p.joins = <<>>, IsDatabase(d, p), NEW res, res \in Seq(WholeSet(d, p)), NoTwice(res)
  PROVE  RootListing(p, res)
<1>1. WholeSet(d, p) = {RootRow(p, r) : r \in Chosen(d, p, AllRoots(d, p))}
  <2>1. Outputs(d, p, AllRoots(d, p)) = RowsAlone(p, Chosen(d, p, AllRoots(d, p)))
    BY RootOutputs
  <2> QED BY <2>1 DEF WholeSet, RowsAlone
<1>2. \A o \in WholeSet(d, p) : o = RootRow(p, o[p.root]) /\ o[p.root] \in d[p.root]
  BY <1>1 DEF RootRow, Chosen
<1>3. /\ \A r \in d[p.root] : r.id \in Nat
      /\ \A r, s \in d[p.root] : r.id = s.id => r = s
  BY DEF IsDatabase, Tables
<1> DEFINE E == WholeSet(d, p)
<1> HIDE DEF E
<1>4. res \in Seq(E) /\ ToSet(res) \subseteq E
  BY ListIn DEF E
<1>5. \A o \in ToSet(res) : o = RootRow(p, o[p.root]) /\ o[p.root].id \in Nat
  BY <1>2, <1>3, <1>4 DEF E
<1>6. \A o, u \in ToSet(res) : o[p.root].id = u[p.root].id => o = u
  <2>1. \A o \in ToSet(res) : o = RootRow(p, o[p.root]) /\ o[p.root] \in d[p.root]
    BY <1>2, <1>4 DEF E
  <2> QED BY <1>3, <2>1
<1> QED BY <1>4, <1>5, <1>6, ListingOf

LEMMA AnswerOfAll ==
  ASSUME NEW d, NEW p, IsQuery(p), IsDatabase(d, p), ShowsAll(p)
  PROVE  /\ Answer(d, p) = Whole(d, p)
         /\ Answer(d, p) \in Seq(WholeSet(d, p)) /\ NoTwice(Answer(d, p)) /\ ToSet(Answer(d, p)) = WholeSet(d, p)
<1>1. Answer(d, p) = Whole(d, p)
  BY DEF Answer, Visible, ShowsAll
<1> QED BY <1>1, AnswerRows

LEMMA VisibleNoTwice ==
  ASSUME NEW p, IsQuery(p), NEW E, NEW s \in Seq(E), NoTwice(s)
  PROVE  NoTwice(Visible(p, s))
<1>1. ASSUME NEW m \in Nat, m >= 1, NEW n \in Nat PROVE NoTwice(Cut(s, m, n))
  <2> DEFINE k == IF n < Len(s) THEN n ELSE Len(s)
             u == SubSeq(s, m, k)
  <2>1. k \in Nat /\ k <= Len(s) /\ Len(s) \in Nat /\ DOMAIN s = 1..Len(s)
    OBVIOUS
  <2>2. Cut(s, m, n) = u
    BY DEF Cut
  <2> HIDE DEF k
  <2>3. u \in Seq(E) /\ Len(u) = (IF m <= k THEN k - m + 1 ELSE 0) /\ \A i \in 1..Len(u) : u[i] = s[m + i - 1]
    BY <1>1, <2>1
  <2>4. DOMAIN u = 1..Len(u) /\ Len(u) \in Nat
    BY <2>3
  <2> HIDE DEF u
  <2>5. \A i \in 1..Len(u) : m + i - 1 \in DOMAIN s
    BY <1>1, <2>1, <2>3
  <2>6. ASSUME NEW i \in DOMAIN u, NEW j \in DOMAIN u, u[i] = u[j] PROVE i = j
    <3>1. m + i - 1 = m + j - 1
      BY <2>3, <2>4, <2>5, <2>6 DEF NoTwice
    <3> QED BY <1>1, <2>4, <3>1
  <2>7. NoTwice(u)
    BY <2>6 DEF NoTwice
  <2> QED BY <2>2, <2>7
<1>2. p.offset + 1 \in Nat /\ p.offset + 1 >= 1 /\ p.offset + p.limit \in Nat
  BY Limits
<1>3. CASE p.limit = 0
  BY <1>3 DEF Visible
<1>4. CASE p.limit # 0
  BY <1>1, <1>2, <1>4 DEF Visible
<1> QED BY <1>3, <1>4

LEMMA AnswerListing ==
  ASSUME NEW d, NEW p, IsQuery(p), p.joins = <<>>, IsDatabase(d, p)
  PROVE  RootListing(p, Answer(d, p))
<1> DEFINE W == WholeSet(d, p)
           w == Whole(d, p)
<1>1. w \in Seq(W) /\ NoTwice(w)
  BY AnswerRows
<1> HIDE DEF W, w
<1>2. NoTwice(Visible(p, w))
  BY <1>1, VisibleNoTwice
<1>3. Answer(d, p) = Visible(p, w)
  BY DEF Answer, w
<1>4. Answer(d, p) \in Seq(WholeSet(d, p))
  BY AnswerRows
<1> QED BY <1>2, <1>3, <1>4, RootsListing

LEMMA RootsAtFirst ==
  ASSUME NEW d, NEW p, IsQuery(p), p.joins = <<>>, IsDatabase(d, p), UniqueKeys(d, p),
         NEW rt, ShowsAll(p) => rt = NewRuntime(d, p, Answer(d, p)), NEW slips
  PROVE  RootsKept(d, p, Answer(d, p), rt, slips)
<1>1. RootListing(p, Answer(d, p))
  BY AnswerListing
<1>2. ASSUME ShowsAll(p) PROVE GroupsOf(d, p, rt) /\ RuntimeShape(p, rt)
  <2>1. GroupsOf(d, p, rt)
    BY <1>2, AnswerOfAll, NewGroups
  <2> QED BY <2>1, GroupsShape
<1> QED BY <1>1, <1>2, AnswerOfAll DEF RootsKept

Keeping(c, p, slips, rt, now) ==
  /\ "regrouped" \in slips => "regrouped" \in now
  /\ "misplaced" \in slips => "misplaced" \in now
  /\ ShowsAll(p) /\ "behind" \notin now => UpToDate(c, p, rt)

LEMMA RootsRegrouped ==
  ASSUME NEW d, NEW c, NEW p, IsQuery(p), p.joins = <<>>, ShowsAll(p), IsDatabase(d, p), IsDatabase(c, p),
         UniqueKeys(d, p), UniqueKeys(c, p), NEW marked, NEW seen,
         \A t \in Tables(p) : marked[t] \subseteq Nat, Covered(d, c, p, marked, seen),
         NEW res, NEW rt, NEW slips, RootsKept(d, p, res, rt, slips),
         NEW R, R = AffectedRoots(c, p, marked, seen),
         NEW refresh \in BOOLEAN, refresh, NEW new, new = Regrouped(c, p, rt, R, refresh),
         NEW now, Keeping(c, p, slips, new, now), "behind" \in slips => "regrouped" \in now
  PROVE  RootsKept(c, p, Ungrouped(new), new, now)
<1>1. RuntimeShape(p, rt) /\ ("behind" \notin slips => GroupsOf(d, p, rt))
  BY DEF RootsKept
<1>2. RuntimeShape(p, new)
  <2>1. PICK fresh, K : IsRegrouped(c, p, rt, R, refresh, new, fresh, K)
    BY DEF IsRegrouped
  <2>2. Relearnt(rt, R, refresh) = R
    BY DEF Relearnt
  <2> QED BY <1>1, <2>1, <2>2, RegroupedShape
<1>3. RootListing(p, Ungrouped(new))
  BY <1>2, ShapeListing
<1>4. "behind" \notin now => GroupsOf(c, p, new)
  <2> DEFINE fresh == NewRuntime(c, p, Whole(c, p))
  <2>1. "behind" \notin now => new.groups = fresh.groups /\ new.keyOf = fresh.keyOf
    BY DEF Keeping, UpToDate
  <2> HIDE DEF fresh
  <2> QED BY <1>2, <2>1, ShapeGroups DEF fresh
<1>5. ASSUME "regrouped" \notin now PROVE GroupsOf(c, p, new)
  <2>1. GroupsOf(d, p, rt)
    BY <1>1, <1>5
  <2>2. ~refresh => marked[p.root] = {}
    OBVIOUS
  <2>3. GroupsOf(c, p, Regrouped(c, p, rt, R, refresh))
    BY <2>1, <2>2, RegroupedGroups
  <2> QED BY <2>3
<1>6. "regrouped" \notin now =>
        /\ Ungrouped(new) \in Seq(WholeSet(c, p)) /\ NoTwice(Ungrouped(new))
        /\ ToSet(Ungrouped(new)) = WholeSet(c, p)
  BY <1>5, UngroupedAnswer
<1> QED BY <1>2, <1>3, <1>4, <1>6 DEF RootsKept


LEMMA RootsPatchedInOrder ==
  ASSUME NEW d, NEW c, NEW p, IsQuery(p), OneTable(p), IsDatabase(d, p), IsDatabase(c, p),
         NEW marked, NEW seen, marked[p.root] \subseteq Nat, IsFiniteSet(marked[p.root]), Covered(d, c, p, marked, seen),
         NEW res, NEW rt, NEW slips, RootsKept(d, p, res, rt, slips),
         \A m, n \in DOMAIN res : m < n => res[m][p.root].id < res[n][p.root].id,
         NEW now, Keeping(c, p, slips, rt, now)
  PROVE  RootsKept(c, p, Patched(c, p, res, marked[p.root]), rt, now)
<1>1. ShowsAll(p) /\ p.joins = <<>>
  BY DEF OneTable, ShowsAll
<1>2. RuntimeShape(p, rt)
  BY <1>1 DEF RootsKept
<1>3. "behind" \notin now => GroupsOf(c, p, rt)
  <2> DEFINE fresh == NewRuntime(c, p, Whole(c, p))
  <2>1. "behind" \notin now => rt.groups = fresh.groups /\ rt.keyOf = fresh.keyOf
    BY <1>1 DEF Keeping, UpToDate
  <2> HIDE DEF fresh
  <2> QED BY <1>2, <2>1, ShapeGroups DEF fresh
<1>4. "misplaced" \notin now => RootListing(p, Patched(c, p, res, marked[p.root]))
  <2>1. "misplaced" \notin now => RootListing(p, res)
    BY DEF Keeping, RootsKept
  <2> QED BY <2>1, PatchedListing
<1>5. ASSUME "regrouped" \notin now, "misplaced" \notin now
      PROVE  Patched(c, p, res, marked[p.root]) = Answer(c, p)
  <2> DEFINE W == WholeSet(d, p)
  <2>1. res \in Seq(W) /\ ToSet(res) = W
    BY <1>1, <1>5 DEF Keeping, RootsKept
  <2>2. IsFiniteSet(W) /\ AreOutputs(W, d, p) /\ Answer(d, p) = InOrder(p, W) /\ \A o \in W : o[p.root].id \in Nat
    <3>1. W = ShownRows(d, p) /\ Answer(d, p) = InOrder(p, ShownRows(d, p))
      BY OneTableAnswer
    <3>2. \A o \in ShownRows(d, p) : o[p.root].id \in Nat
      BY DEF ShownRows, RootRow, IsDatabase, Tables
    <3> QED BY <3>1, <3>2, OneTableAnswer
  <2> HIDE DEF W
  <2>3. Ordered(res, ById(p, W))
    <3>1. \A n \in DOMAIN res : res[n] \in W
      BY <2>1
    <3> QED BY <3>1 DEF Ordered, ById
  <2>4. SortPairs(p, W) = ById(p, W)
    BY <2>2, OneTableOrder
  <2>5. res = InOrder(p, W)
    BY <2>1, <2>2, <2>3, <2>4, InOrderFacts
  <2>6. Patched(c, p, Answer(d, p), marked[p.root]) = Answer(c, p)
    BY PatchedAnswer
  <2> QED BY <2>2, <2>5, <2>6
<1> QED BY <1>1, <1>2, <1>3, <1>4, <1>5, AnswerOfAll DEF RootsKept

LEMMA RootsMisplaced ==
  ASSUME NEW d, NEW c, NEW p, IsQuery(p), ShowsAll(p), IsDatabase(c, p), NEW res, NEW rt, NEW slips, RootsKept(d, p, res, rt, slips),
         NEW new, NEW now, Keeping(c, p, slips, rt, now), "misplaced" \in now
  PROVE  RootsKept(c, p, new, rt, now)
<1>2. RuntimeShape(p, rt)
  BY DEF RootsKept
<1>3. "behind" \notin now => GroupsOf(c, p, rt)
  <2> DEFINE fresh == NewRuntime(c, p, Whole(c, p))
  <2>1. "behind" \notin now => rt.groups = fresh.groups /\ rt.keyOf = fresh.keyOf
    BY DEF Keeping, UpToDate
  <2> HIDE DEF fresh
  <2> QED BY <1>2, <2>1, ShapeGroups DEF fresh
<1> QED BY <1>2, <1>3 DEF RootsKept

LEMMA RootsAlike ==
  ASSUME NEW d, NEW c, NEW p, IsQuery(p), IsDatabase(d, p), IsDatabase(c, p), Alike(d, c, p),
         NEW res, NEW rt, NEW slips, RootsKept(d, p, res, rt, slips), NEW now, Keeping(c, p, slips, rt, now)
  PROVE  RootsKept(c, p, res, rt, now)
<1>1. Answer(d, p) = Answer(c, p) /\ WholeSet(d, p) = WholeSet(c, p)
  BY AlikeFacts DEF Alike
<1>2. ShowsAll(p) => RuntimeShape(p, rt)
  BY DEF RootsKept
<1>3. ShowsAll(p) /\ "behind" \notin now => GroupsOf(c, p, rt)
  <2> DEFINE fresh == NewRuntime(c, p, Whole(c, p))
  <2>1. ShowsAll(p) /\ "behind" \notin now => rt.groups = fresh.groups /\ rt.keyOf = fresh.keyOf
    BY DEF Keeping, UpToDate
  <2> HIDE DEF fresh
  <2> QED BY <1>2, <2>1, ShapeGroups DEF fresh
<1> QED BY <1>1, <1>2, <1>3 DEF RootsKept, Keeping

LEMMA RootsAnew ==
  ASSUME NEW c, NEW p, IsQuery(p), p.joins = <<>>, ~ShowsAll(p), IsDatabase(c, p), NEW rt, NEW now
  PROVE  RootsKept(c, p, Answer(c, p), rt, now)
BY AnswerListing DEF RootsKept

-----------------------------------------------------------------------------
(* The snapshot lane: between flushes there is a database d, that of the    *)
(* last flush, that the root rows are kept for; what has changed since is   *)
(* queued.                                                                  *)
RootsSince(d) ==
  /\ IsDatabase(d, q) /\ UniqueKeys(d, q)
  /\ Covered(d, db, q, ids, deltas)
  /\ RootsKept(d, q, result, runtime, obs.slips)

SnapshotInv == scenario.api = "snapshot" /\ stage # "none" => \E d : RootsSince(d)

\* What a flush leaves of what went wrong before.
LEMMA SlipsAfter ==
  ASSUME CacheInv, SnapshotFlush
  PROVE  \E early : /\ \A x \in Slips(early) : x \in obs'.slips
                    /\ \A x \in obs.slips : x # "behind" => x \in obs'.slips
<1> DEFINE inv == [root |-> result' # result,
                   dirty |-> IF RegroupsRoots THEN Roots ELSE ids[q.root], stable |-> FALSE,
                   tables |-> {}, rows |-> ids, keys |-> UNION {DirtyKeys(q, t, deltas[t]) : t \in DOMAIN db}]
           early == result' = result /\ Changed \subseteq {q.root}
           o == IF early THEN obs ELSE Told(Invalidate(obs, inv), RootRows(result'))
           s == (o.slips \ {"behind"}) \cup Slips(early)
<1>1. Typed /\ scenario.api # "rows" /\ ObservableOK(db, q, obs, deltas) /\ obs' = [o EXCEPT !.slips = s]
  BY DEF CacheInv, SnapshotFlush
<1>2. Selects(db, q) /\ \A m \in DOMAIN q.nested : q.nested[m].root \in DOMAIN db
  BY <1>1, SelectsTables, NodeRoots
<1> DEFINE D == deltas'
<1>3. \A t \in DOMAIN db : DirtyKeys(q, t, deltas[t]) \subseteq inv.keys
  OBVIOUS
<1> HIDE DEF inv, early, s, D
<1>4. obs.slips \subseteq o.slips /\ IsObservable(o)
  <2>1. CASE early
    BY <1>1, <2>1 DEF ObservableOK
  <2>2. CASE ~early
    <3> DEFINE i == Invalidate(obs, inv)
               rows == RootRows(result')
    <3>1. o = Told(i, rows)
      BY <2>2
    <3>2. IsObservable(i) /\ i.slips = obs.slips
      BY <1>1, InvalidateFacts DEF ObservableOK
    <3> HIDE DEF i, rows
    <3>3. IsObservable(Told(i, rows)) /\ i.slips \subseteq Told(i, rows).slips
      BY <3>2, EmittedFacts DEF Told, Responded
    <3> HIDE DEF o
    <3> QED BY <3>1, <3>2, <3>3
  <2> QED BY <2>1, <2>2
<1> HIDE DEF o
<1>5. obs'.slips = s
  BY <1>1, <1>4 DEF IsObservable
<1>6. /\ \A x \in Slips(early) : x \in s
      /\ \A x \in obs.slips : x # "behind" => x \in s
  BY <1>4 DEF s
<1> QED BY <1>5, <1>6

LEMMA FlushKeeping ==
  ASSUME CacheInv, SnapshotFlush
  PROVE  /\ Keeping(db, q, obs.slips, runtime', obs'.slips)
         /\ RegroupsRoots /\ Roots # {} /\ "behind" \in obs.slips => "regrouped" \in obs'.slips
         /\ PatchesRoots /\ ~InIdOrder(result) => "misplaced" \in obs'.slips
<1>1. PICK early : /\ \A x \in Slips(early) : x \in obs'.slips
                   /\ \A x \in obs.slips : x # "behind" => x \in obs'.slips
  BY SlipsAfter
<1>2. /\ RegroupsRoots /\ Roots # {} /\ "behind" \in obs.slips => "regrouped" \in Slips(early)
      /\ PatchesRoots /\ ~InIdOrder(result) => "misplaced" \in Slips(early)
      /\ Behind(runtime') => "behind" \in Slips(early)
  BY DEF Slips
<1>3. ShowsAll(q) /\ ~Behind(runtime') => UpToDate(db, q, runtime')
  BY Ways DEF Behind, UpToDate
<1> QED BY <1>1, <1>2, <1>3 DEF Keeping

LEMMA SnapshotRoots ==
  ASSUME CacheInv, SnapshotFlush, NEW d, RootsSince(d)
  PROVE  RootsKept(db, q, result', runtime', obs'.slips)
<1> DEFINE now == obs'.slips
           slips == obs.slips
           new == runtime'
           rows == result'
<1>1. Typed /\ IsQuery(q) /\ IsDatabase(db, q) /\ UniqueKeys(db, q) /\ q.root \in Tables(q) /\ q.root \in DOMAIN db
      /\ \A t \in Tables(q) : ids[t] \subseteq Nat /\ IsFiniteSet(ids[t])
  BY TypedFacts DEF CacheInv
<1>2. q.joins = <<>>
  BY SelectsTables DEF CacheInv, SnapshotFlush
<1>3. /\ IsDatabase(d, q) /\ UniqueKeys(d, q) /\ Covered(d, db, q, ids, deltas)
      /\ RootsKept(d, q, result, runtime, slips)
  BY DEF RootsSince
<1>4. /\ Keeping(db, q, slips, new, now)
      /\ RegroupsRoots /\ Roots # {} /\ "behind" \in slips => "regrouped" \in now
      /\ PatchesRoots /\ ~InIdOrder(result) => "misplaced" \in now
  BY FlushKeeping
<1>5. Roots = ids[q.root]
  BY <1>1, <1>2, NoJoinsRoots DEF Roots
<1>6. Known /\ Patchable = OneTable(q) /\ Subsettable = ShowsAll(q)
  BY <1>1, AlwaysKnown, Ways
<1>7. /\ new = (IF RegroupsRoots /\ Roots # {} THEN Regrouped(db, q, runtime, Roots, q.root \in Changed) ELSE runtime)
      /\ rows \in CASE ~ReadsRoots -> {result}
                    [] ReadsRoots /\ PatchesRoots -> RootsPatched
                    [] ReadsRoots /\ RegroupsRoots -> {IF Roots = {} THEN result ELSE Ungrouped(new)}
                    [] OTHER -> {Answer(db, q)}
  BY DEF SnapshotFlush, RootsRefreshed
<1>8. OneTable(q) => ShowsAll(q)
  BY DEF OneTable, ShowsAll
<1> HIDE DEF now, slips, new, rows
<1>9. CASE ~ReadsRoots \/ (ReadsRoots /\ RegroupsRoots /\ Roots = {})
  <2>1. Roots = {}
    BY <1>1, <1>5, <1>9 DEF ReadsRoots, Changed
  <2>2. Alike(d, db, q)
    BY <1>1, <1>3, <2>1, Untouched DEF Roots
  <2>3. rows = result
    BY <1>7, <1>9 DEF RegroupsRoots
  <2>4. new = runtime
    BY <1>7, <2>1
  <2>5. Keeping(db, q, slips, runtime, now)
    BY <1>4, <2>4
  <2>6. RootsKept(db, q, result, runtime, now)
    BY <1>1, <1>3, <2>2, <2>5, RootsAlike
  <2> QED BY <2>3, <2>4, <2>6 DEF now, new, rows
<1>10. CASE ReadsRoots /\ PatchesRoots
  <2>1. rows \in RootsPatched /\ OneTable(q) /\ ~RegroupsRoots
    BY <1>6, <1>7, <1>10 DEF PatchesRoots, RegroupsRoots
  <2>2. new = runtime
    BY <1>7, <2>1
  <2>3. Keeping(db, q, slips, runtime, now)
    BY <1>4, <2>2
  <2>4. CASE InIdOrder(result)
    <3>1. rows = Patched(db, q, result, ids[q.root])
      BY <2>1, <2>4 DEF RootsPatched
    <3>2. RootsKept(db, q, Patched(db, q, result, ids[q.root]), runtime, now)
      BY <1>1, <1>3, <2>1, <2>3, <2>4, RootsPatchedInOrder DEF InIdOrder
    <3> QED BY <2>2, <3>1, <3>2 DEF now, new, rows
  <2>5. CASE ~InIdOrder(result)
    <3>1. "misplaced" \in now
      BY <1>4, <1>10, <2>5
    <3>2. RootsKept(db, q, rows, runtime, now)
      BY <1>1, <1>3, <1>8, <2>1, <2>3, <3>1, RootsMisplaced
    <3> QED BY <2>2, <3>2 DEF now, new, rows
  <2> QED BY <2>4, <2>5
<1>11. CASE ReadsRoots /\ RegroupsRoots /\ Roots # {}
  <2>1. new = Regrouped(db, q, runtime, Roots, q.root \in Changed) /\ rows = Ungrouped(new)
    BY <1>7, <1>11 DEF RegroupsRoots
  <2> DEFINE refresh == q.root \in Changed
  <2>2. refresh \in BOOLEAN /\ refresh
    BY <1>1, <1>5, <1>11 DEF Changed
  <2>3. Roots = AffectedRoots(db, q, ids, deltas)
    BY DEF Roots
  <2>4. "behind" \in slips => "regrouped" \in now
    BY <1>4, <1>11
  <2>5. ShowsAll(q)
    BY <1>6, <1>11 DEF RegroupsRoots
  <2>6. new = Regrouped(db, q, runtime, Roots, refresh)
    BY <2>1
  <2> HIDE DEF refresh
  <2>7. RootsKept(db, q, Ungrouped(new), new, now)
    BY <1>1, <1>2, <1>3, <1>4, <2>2, <2>3, <2>4, <2>5, <2>6, RootsRegrouped
  <2> QED BY <2>1, <2>7 DEF now, new, rows
<1>12. CASE ReadsRoots /\ ~PatchesRoots /\ ~RegroupsRoots
  <2>1. rows = Answer(db, q) /\ ~ShowsAll(q)
    BY <1>6, <1>7, <1>12 DEF RegroupsRoots
  <2>2. RootsKept(db, q, Answer(db, q), new, now)
    BY <1>1, <1>2, <2>1, RootsAnew
  <2> QED BY <2>1, <2>2 DEF now, new, rows
<1> QED BY <1>9, <1>10, <1>11, <1>12

LEMMA RootsSlips ==
  ASSUME NEW d, NEW p, NEW res, NEW rt, NEW slips, RootsKept(d, p, res, rt, slips), NEW now, slips \subseteq now
  PROVE  RootsKept(d, p, res, rt, now)
BY DEF RootsKept

LEMMA SubscribeSlips ==
  ASSUME CacheInv, scenario.api # "rows", Subscribe
  PROVE  obs.slips \subseteq obs'.slips
<1> DEFINE rows == RootRows(result)
           o == IF obs.payload.known /\ ~obs.payload.dirty THEN obs ELSE Responded(obs, rows)
<1>1. obs' = Hearing(o) /\ IsObservable(obs)
  BY DEF Subscribe, CacheInv, ObservableOK
<1> HIDE DEF rows
<1>2. IsObservable(o) /\ obs.slips \subseteq o.slips
  <2>1. IsObservable(Responded(obs, rows)) /\ obs.slips \subseteq Responded(obs, rows).slips
    BY <1>1, EmittedFacts DEF Responded
  <2> QED BY <1>1, <2>1
<1> HIDE DEF o
<1>3. Hearing(o).slips = o.slips
  BY <1>2 DEF Hearing, IsObservable
<1> QED BY <1>1, <1>2, <1>3

LEMMA SnapshotStep ==
  ASSUME CacheInv, SnapshotInv, [GraphqlNext]_<<vars, gvars>>
  PROVE  SnapshotInv'
<1>1. Typed
  BY DEF CacheInv
<1>2. scenario' = scenario /\ q' = q /\ Typed'
  BY <1>1, GraphqlTyped DEF GraphqlNext, GraphqlStatement, Statement, Insert, Update, Delete, Write, RowsNext, Observe, Create, PatchRefresh,
         WindowRefresh, SubsetRefresh, Unaffected, Requery, Flush, Drain, Subscribe, Unsubscribe, SnapshotFlush,
         DeltaFlush, vars
<1>3. CASE scenario.api # "snapshot"
  BY <1>2, <1>3 DEF SnapshotInv
<1>4. CASE scenario.api = "snapshot"
  <2>1. CASE GraphqlStatement
    <3>1. Statement /\ stage' = stage /\ obs' = obs
      BY <2>1 DEF GraphqlStatement
    <3>2. PICK t, old, new : Replaces(t, old, new)
      BY <1>1, <3>1, StatementReplaces
    <3>3. ASSUME NEW d, RootsSince(d) PROVE RootsSince(d)'
      <4>1. Covered(d, db, q, ids, deltas)
        BY <3>3 DEF RootsSince
      <4>2. /\ Covered(d, db', q, ids', deltas') /\ q' = q /\ result' = result /\ runtime' = runtime
        BY <1>1, <3>2, <4>1, CoveredStep
      <4>3. Covered(d, db', q', ids', deltas') /\ IsDatabase(d, q') /\ UniqueKeys(d, q')
            /\ RootsKept(d, q', result', runtime', obs'.slips)
        BY <3>1, <3>3, <4>2 DEF RootsSince
      <4> QED BY <4>3 DEF RootsSince
    <3> QED BY <1>2, <3>1, <3>3 DEF SnapshotInv
  <2>2. CASE Create
    <3>1. /\ result' = Answer(db, q) /\ (ShowsAll(q) => runtime' = NewRuntime(db, q, Answer(db, q)))
          /\ db' = db /\ ids' = ids /\ deltas' = deltas
      BY <1>4, <2>2, Ways DEF Create, tables
    <3>2. IsQuery(q) /\ IsDatabase(db, q) /\ UniqueKeys(db, q) /\ Covered(db, db, q, ids, deltas) /\ q.joins = <<>>
      BY <1>1, <1>4, TypedFacts, SelectsTables
    <3> DEFINE now == obs'.slips
               rt == runtime'
    <3>3. ShowsAll(q) => rt = NewRuntime(db, q, Answer(db, q))
      BY <3>1
    <3> HIDE DEF now, rt
    <3>4. RootsKept(db, q, Answer(db, q), rt, now)
      BY <3>2, <3>3, RootsAtFirst
    <3>5. /\ Covered(db, db', q', ids', deltas') /\ IsDatabase(db, q') /\ UniqueKeys(db, q')
          /\ RootsKept(db, q', result', runtime', obs'.slips)
      BY <1>2, <3>1, <3>2, <3>4 DEF now, rt
    <3>6. \E d : RootsSince(d)'
      BY <3>5 DEF RootsSince
    <3> QED BY <3>6 DEF SnapshotInv
  <2>3. CASE Subscribe \/ Unsubscribe \/ UNCHANGED <<vars, gvars>>
    <3>1. /\ db' = db /\ ids' = ids /\ deltas' = deltas /\ result' = result /\ runtime' = runtime
          /\ (stage' # "none" => stage # "none")
      BY <2>3 DEF Subscribe, Unsubscribe, vars, gvars
    <3>2. obs.slips \subseteq obs'.slips
      BY <1>4, <2>3, SubscribeSlips DEF Unsubscribe, gvars
    <3>3. ASSUME NEW d, RootsSince(d) PROVE RootsSince(d)'
      <4>1. RootsKept(d, q, result, runtime, obs'.slips)
        BY <3>2, <3>3, RootsSlips DEF RootsSince
      <4>2. Covered(d, db', q', ids', deltas') /\ IsDatabase(d, q') /\ UniqueKeys(d, q')
            /\ RootsKept(d, q', result', runtime', obs'.slips)
        BY <1>2, <3>1, <3>3, <4>1 DEF RootsSince
      <4> QED BY <4>2 DEF RootsSince
    <3> QED BY <1>2, <3>1, <3>3 DEF SnapshotInv
  <2>4. CASE SnapshotFlush
    <3>1. PICK d : RootsSince(d)
      BY <1>4, <2>4 DEF SnapshotInv, SnapshotFlush
    <3>2. RootsKept(db, q, result', runtime', obs'.slips)
      BY <2>4, <3>1, SnapshotRoots
    <3>3. db' = db
      BY <2>4 DEF SnapshotFlush, Drain
    <3>4. IsDatabase(db', q') /\ UniqueKeys(db', q') /\ Covered(db', db', q', ids', deltas')
      <4>1. IsDatabase(db, q) /\ UniqueKeys(db, q)
        BY <1>1, TypedFacts
      <4>2. \A t \in Tables(q) : t \in DOMAIN db /\ ids'[t] = {}
        BY <1>1, <2>4, TypedFacts DEF SnapshotFlush, Drain, None
      <4> QED BY <1>2, <3>3, <4>1, <4>2 DEF Covered
    <3>5. /\ Covered(db, db', q', ids', deltas') /\ IsDatabase(db, q') /\ UniqueKeys(db, q')
          /\ RootsKept(db, q', result', runtime', obs'.slips)
      BY <1>2, <3>2, <3>3, <3>4
    <3>6. \E x : RootsSince(x)'
      BY <3>5 DEF RootsSince
    <3> QED BY <3>6 DEF SnapshotInv
  <2> QED BY <1>4, <2>1, <2>2, <2>3, <2>4 DEF GraphqlNext, RowsNext, DeltaFlush
<1> QED BY <1>3, <1>4

(* On the snapshot lane the root rows, and the runtime that the next flush  *)
(* regroups them from, are at any moment those of a database from which     *)
(* only queued rows differ.  What a regrouping from a runtime left behind,  *)
(* or a search in a list out of order, has spoilt is what slips names       *)
(* (graphql_observable.rs refresh_root_rows).                               *)
THEOREM SnapshotAlways == GraphqlSpec => []SnapshotInv
<1>1. GraphqlInit => SnapshotInv
  BY DEF GraphqlInit, SnapshotInv
<1>2. CacheInv /\ SnapshotInv /\ [GraphqlNext]_<<vars, gvars>> => SnapshotInv'
  BY SnapshotStep
<1> QED BY <1>1, <1>2, CacheAlways, PTL DEF GraphqlSpec

-----------------------------------------------------------------------------
(* Picking, again.                                                          *)
LEMMA IsListFacts ==
  ASSUME NEW s, IsList(s)
  PROVE  /\ Len(s) \in Nat /\ DOMAIN s = 1..Len(s) /\ s = [n \in 1..Len(s) |-> s[n]]
         /\ \A n \in 1..Len(s) : s[n] \in ToSet(s)
<1>1. Len(s) \in Nat /\ DOMAIN s = 1..Len(s) /\ s = [n \in 1..Len(s) |-> s[n]]
  BY DEF IsList
<1> QED BY <1>1 DEF ToSet

LEMMA MadeOf ==
  ASSUME NEW N \in Nat, NEW s, s = [n \in 1..N |-> s[n]]
  PROVE  IsList(s) /\ Len(s) = N /\ DOMAIN s = 1..N
<1>1. \A n \in 1..N : s[n] \in ToSet(s)
  BY DEF ToSet
<1>2. s \in [1..N -> ToSet(s)]
  BY <1>1
<1>3. s \in Seq(ToSet(s))
  BY <1>2
<1>4. Len(s) = N /\ DOMAIN s = 1..N
  BY <1>2
<1> QED BY <1>3, <1>4 DEF IsList

LEMMA PickedAppend ==
  ASSUME NEW E, NEW s \in Seq(E), NEW e \in E, NEW C, NEW D, \A x \in ToSet(s) : x \in C <=> x \in D
  PROVE  Picked(Append(s, e), D) = (IF e \in D THEN Append(Picked(s, C), e) ELSE Picked(s, C))
<1> DEFINE N == Len(s)
           u == Append(s, e)
<1>1. N \in Nat /\ u \in Seq(E) /\ Len(u) = N + 1 /\ u[N + 1] = e /\ \A n \in 1..N : u[n] = s[n] /\ s[n] \in ToSet(s)
  BY DEF ToSet
<1> HIDE DEF u
<1>2. PICK f : Picks(f, u, D, E) /\ Picked(u, D) = f[Len(u)]
  BY <1>1, PicksExists
<1>3. PICK g : Picks(g, s, C, E) /\ Picked(s, C) = g[Len(s)]
  BY PicksExists
<1> DEFINE P == {n \in 0..N : f[n] = g[n]}
<1>4. 0 \in P
  BY <1>1, <1>2, <1>3 DEF Picks
<1>5. ASSUME NEW n \in 1..N, n - 1 \in P PROVE n \in P
  <2>1. n \in 1..(N + 1) /\ n \in 0..N /\ f[n - 1] = g[n - 1]
    BY <1>1, <1>5
  <2>2. f[n] = (IF u[n] \in D THEN Append(f[n - 1], u[n]) ELSE f[n - 1])
    BY <1>1, <1>2, <2>1 DEF Picks
  <2>3. g[n] = (IF s[n] \in C THEN Append(g[n - 1], s[n]) ELSE g[n - 1])
    BY <1>3 DEF Picks
  <2>4. u[n] = s[n] /\ (s[n] \in C <=> s[n] \in D)
    BY <1>1
  <2>5. f[n] = g[n]
    BY <2>1, <2>2, <2>3, <2>4
  <2> QED BY <2>1, <2>5
<1> HIDE DEF P, N
<1>6. 0..N \subseteq P
  BY <1>1, <1>4, <1>5, StepByStep
<1>7. f[N] = g[N]
  <2>1. N \in P
    BY <1>1, <1>6
  <2> QED BY <2>1 DEF P
<1>8. f[N + 1] = (IF u[N + 1] \in D THEN Append(f[N], u[N + 1]) ELSE f[N])
  <2>1. N + 1 \in 1..Len(u) /\ (N + 1) - 1 = N
    BY <1>1
  <2>2. f[N + 1] = (IF u[N + 1] \in D THEN Append(f[(N + 1) - 1], u[N + 1]) ELSE f[(N + 1) - 1])
    BY <1>2, <2>1 DEF Picks
  <2> QED BY <2>1, <2>2
<1> QED BY <1>1, <1>2, <1>3, <1>7, <1>8 DEF N, u

LEMMA PickedAll ==
  ASSUME NEW E, NEW s \in Seq(E), NEW C, ToSet(s) \subseteq C
  PROVE  Picked(s, C) = s
<1> DEFINE N == Len(s)
<1>1. N \in Nat /\ DOMAIN s = 1..N /\ s = [n \in 1..N |-> s[n]] /\ \A n \in 1..N : s[n] \in E /\ s[n] \in C
  BY DEF ToSet
<1>2. PICK f : Picks(f, s, C, E) /\ Picked(s, C) = f[Len(s)]
  BY PicksExists
<1> DEFINE P == {n \in 0..N : Len(f[n]) = n /\ \A m \in 1..n : f[n][m] = s[m]}
<1>3. 0 \in P
  BY <1>1, <1>2 DEF Picks
<1>4. ASSUME NEW n \in 1..N, n - 1 \in P PROVE n \in P
  <2>1. f[n] = Append(f[n - 1], s[n]) /\ f[n - 1] \in Seq(E) /\ n - 1 \in 0..N
    <3>1. n - 1 \in 0..N
      BY <1>1
    <3>2. f[n] = (IF s[n] \in C THEN Append(f[n - 1], s[n]) ELSE f[n - 1]) /\ f[n - 1] \in Seq(E)
      BY <1>2, <3>1 DEF Picks
    <3> QED BY <1>1, <3>1, <3>2
  <2>2. Len(f[n - 1]) = n - 1 /\ \A m \in 1..(n - 1) : f[n - 1][m] = s[m]
    BY <1>4
  <2>3. Len(f[n]) = n /\ f[n][n] = s[n] /\ \A m \in 1..(n - 1) : f[n][m] = f[n - 1][m]
    BY <1>1, <2>1, <2>2
  <2>4. \A m \in 1..n : m = n \/ m \in 1..(n - 1)
    BY <1>1
  <2>5. \A m \in 1..n : f[n][m] = s[m]
    BY <2>2, <2>3, <2>4
  <2> QED BY <1>1, <2>3, <2>5
<1> HIDE DEF P, N
<1>5. 0..N \subseteq P
  BY <1>1, <1>3, <1>4, StepByStep
<1>6. Len(f[N]) = N /\ \A m \in 1..N : f[N][m] = s[m]
  <2>1. N \in P
    BY <1>1, <1>5
  <2> QED BY <2>1 DEF P
<1>7. f[N] \in Seq(E)
  BY <1>1, <1>2 DEF Picks, N
<1>8. f[N] = [n \in 1..N |-> f[N][n]]
  BY <1>6, <1>7
<1>9. f[N] = s
  BY <1>1, <1>6, <1>8
<1> QED BY <1>2, <1>9 DEF N

LEMMA PickedNone == ASSUME NEW C PROVE Picked(<<>>, C) = <<>>
<1>1. <<>> \in Seq({}) /\ Len(<<>>) = 0
  OBVIOUS
<1>2. PICK f : Picks(f, <<>>, C, {}) /\ Picked(<<>>, C) = f[Len(<<>>)]
  BY <1>1, PicksExists
<1> QED BY <1>1, <1>2 DEF Picks

LEMMA EnumeratedFew ==
  ASSUME NEW x
  PROVE  SetToSeq({}) = <<>> /\ SetToSeq({x}) = <<x>>
<1>1. IsFiniteSet({}) /\ IsFiniteSet({x}) /\ Cardinality({x}) = 1
  BY FS_EmptySet, FS_Singleton
<1>2. SetToSeq({}) \in Seq({})
  BY <1>1, Enumerated
<1>3. SetToSeq({}) = <<>>
  BY <1>2
<1>4. SetToSeq({x}) \in Seq({x}) /\ ToSet(SetToSeq({x})) = {x}
  BY <1>1, Enumerated
<1>5. \E f \in [1..1 -> {x}] : \A a, b \in DOMAIN f : f[a] = f[b] => a = b
  <2>1. [n \in 1..1 |-> x] \in [1..1 -> {x}]
    OBVIOUS
  <2>2. \A a, b \in DOMAIN [n \in 1..1 |-> x] : a = b
    OBVIOUS
  <2> QED BY <2>1, <2>2
<1>6. SetToSeq({x}) \in [1..1 -> {x}]
  BY <1>1, <1>5 DEF SetToSeq, IsInjective
<1>7. SetToSeq({x}) = <<x>>
  BY <1>6
<1> QED BY <1>3, <1>7

-----------------------------------------------------------------------------
(* The view: rows in slots.                                                 *)
Holding(v) == ToSet(v.slots) \ {Hole}

ViewOK(v) ==
  /\ v = [slots |-> v.slots, free |-> v.free]
  /\ IsList(v.slots) /\ IsList(v.free) /\ NoTwice(v.free)
  /\ \A n \in DOMAIN v.free : v.free[n] \in DOMAIN v.slots /\ v.slots[v.free[n]] = Hole
  /\ \A m, n \in DOMAIN v.slots :
       v.slots[m] # Hole /\ v.slots[n] # Hole /\ v.slots[m].id = v.slots[n].id => m = n

\* What becomes of the rows of V when r comes, or goes.
Comes(V, r, W) == \A x : x \in W <=> x = r \/ (x \in V /\ x.id # r.id)
Goes(V, r, W) == \A x : x \in W <=> x \in V /\ x.id # r.id

LEMMA ViewMade ==
  ASSUME NEW s, NEW f, IsList(s), IsList(f), NoTwice(f),
         \A n \in DOMAIN f : f[n] \in DOMAIN s /\ s[f[n]] = Hole,
         \A m, n \in DOMAIN s : s[m] # Hole /\ s[n] # Hole /\ s[m].id = s[n].id => m = n
  PROVE  ViewOK([slots |-> s, free |-> f])
BY DEF ViewOK

LEMMA FrontFacts ==
  ASSUME NEW f, IsList(f), f # <<>>
  PROVE  /\ IsList(Front(f)) /\ Len(f) \in 1..Len(f) /\ DOMAIN Front(f) = 1..(Len(f) - 1)
         /\ \A n \in 1..(Len(f) - 1) : Front(f)[n] = f[n]
<1>1. Len(f) \in Nat /\ Len(f) # 0 /\ f = [n \in 1..Len(f) |-> f[n]] /\ f \in Seq(ToSet(f))
  BY IsListFacts DEF IsList
<1>2. Front(f) = SubSeq(f, 1, Len(f) - 1)
  BY DEF Front
<1>3. /\ SubSeq(f, 1, Len(f) - 1) \in Seq(ToSet(f)) /\ Len(SubSeq(f, 1, Len(f) - 1)) = Len(f) - 1
      /\ \A n \in 1..(Len(f) - 1) : SubSeq(f, 1, Len(f) - 1)[n] = f[n]
  BY <1>1
<1>4. IsList(Front(f))
  BY <1>2, <1>3, ListIn
<1>5. Len(Front(f)) = Len(f) - 1 /\ DOMAIN Front(f) = 1..Len(Front(f))
  BY <1>2, <1>3, <1>4, IsListFacts
<1> QED BY <1>1, <1>2, <1>3, <1>4, <1>5

LEMMA UpsertedFacts ==
  ASSUME NEW v, ViewOK(v), NEW r, r # Hole
  PROVE  ViewOK(Upserted(v, r)) /\ Comes(Holding(v), r, Holding(Upserted(v, r)))
<1> DEFINE s == v.slots
           L == Len(s)
           At0 == SlotsOf(v, r.id)
           w == Upserted(v, r)
<1>1. /\ L \in Nat /\ DOMAIN s = 1..L /\ s = [n \in 1..L |-> s[n]]
      /\ v = [slots |-> s, free |-> v.free] /\ IsList(v.free) /\ NoTwice(v.free)
      /\ \A n \in DOMAIN v.free : v.free[n] \in 1..L /\ s[v.free[n]] = Hole
      /\ \A m, n \in 1..L : s[m] # Hole /\ s[n] # Hole /\ s[m].id = s[n].id => m = n
  BY IsListFacts DEF ViewOK
<1>2. \A n : n \in At0 <=> n \in 1..L /\ s[n] # Hole /\ s[n].id = r.id
  BY <1>1 DEF SlotsOf
<1>3. \A x : x \in Holding(v) <=> x # Hole /\ \E n \in 1..L : x = s[n]
  BY <1>1 DEF Holding, ToSet
<1> HIDE DEF s, L, At0
<1>4. CASE At0 # {}
  <2> DEFINE k == CHOOSE n \in At0 : TRUE
             t == [n \in 1..L |-> IF n = k THEN r ELSE s[n]]
  <2>1. k \in At0
    BY <1>4
  <2>2. w = [slots |-> t, free |-> v.free]
    BY <1>1, <1>4 DEF Upserted, At0, s, L
  <2> HIDE DEF k, w
  <2>3. IsList(t) /\ DOMAIN t = 1..L
    BY <1>1, MadeOf
  <2>4. \A n \in 1..L : t[n] = IF n = k THEN r ELSE s[n]
    OBVIOUS
  <2> HIDE DEF t
  <2>5. \A n \in DOMAIN v.free : v.free[n] \in DOMAIN t /\ t[v.free[n]] = Hole
    BY <1>1, <1>2, <2>1, <2>3, <2>4
  <2>6. \A m, n \in DOMAIN t : t[m] # Hole /\ t[n] # Hole /\ t[m].id = t[n].id => m = n
    BY <1>1, <1>2, <2>1, <2>3, <2>4
  <2>7. ViewOK(w)
    BY <1>1, <2>2, <2>3, <2>5, <2>6, ViewMade
  <2>8. \A x : x \in Holding(w) <=> x # Hole /\ \E n \in 1..L : x = t[n]
    BY <2>2, <2>3 DEF Holding, ToSet
  <2>9. ASSUME NEW x PROVE x \in Holding(w) <=> x = r \/ (x \in Holding(v) /\ x.id # r.id)
    <3>1. ASSUME x \in Holding(w) PROVE x = r \/ (x \in Holding(v) /\ x.id # r.id)
      <4>1. PICK n \in 1..L : x = t[n] /\ x # Hole
        BY <2>8, <3>1
      <4> QED BY <1>1, <1>2, <1>3, <2>1, <2>4, <4>1
    <3>2. ASSUME x = r PROVE x \in Holding(w)
      BY <1>2, <2>1, <2>4, <2>8, <3>2
    <3>3. ASSUME x \in Holding(v), x.id # r.id PROVE x \in Holding(w)
      <4>1. PICK n \in 1..L : x = s[n] /\ x # Hole
        BY <1>3, <3>3
      <4>2. n # k
        BY <1>2, <2>1, <3>3, <4>1
      <4> QED BY <2>4, <2>8, <4>1, <4>2
    <3> QED BY <3>1, <3>2, <3>3
  <2> QED BY <2>7, <2>9 DEF Comes, w
<1>5. CASE At0 = {} /\ v.free # <<>>
  <2> DEFINE f == v.free
             k == f[Len(f)]
             t == [n \in 1..L |-> IF n = k THEN r ELSE s[n]]
             g == Front(f)
  <2>1. /\ IsList(g) /\ Len(f) \in 1..Len(f) /\ DOMAIN g = 1..(Len(f) - 1)
        /\ \A n \in 1..(Len(f) - 1) : g[n] = f[n]
    BY <1>1, <1>5, FrontFacts
  <2>2. DOMAIN f = 1..Len(f) /\ Len(f) \in Nat
    BY <1>1, IsListFacts
  <2>3. k \in 1..L /\ s[k] = Hole
    BY <1>1, <2>1, <2>2
  <2>4. w = [slots |-> t, free |-> g]
    BY <1>1, <1>5 DEF Upserted, At0, s, L, Last
  <2>5. \A n \in 1..(Len(f) - 1) : n \in DOMAIN f /\ n # Len(f)
    BY <2>2
  <2> HIDE DEF w, g
  <2>6. NoTwice(g)
    BY <1>1, <2>1, <2>5 DEF NoTwice
  <2>7. \A n \in DOMAIN g : g[n] \in 1..L /\ s[g[n]] = Hole /\ g[n] # k
    BY <1>1, <2>1, <2>2, <2>5 DEF NoTwice
  <2> HIDE DEF k, f
  <2>8. IsList(t) /\ DOMAIN t = 1..L
    BY <1>1, MadeOf
  <2>9. \A n \in 1..L : t[n] = IF n = k THEN r ELSE s[n]
    OBVIOUS
  <2> HIDE DEF t
  <2>10. \A n \in DOMAIN g : g[n] \in DOMAIN t /\ t[g[n]] = Hole
    BY <2>7, <2>8, <2>9
  <2>11. ASSUME NEW m \in DOMAIN t, NEW n \in DOMAIN t, t[m] # Hole, t[n] # Hole, t[m].id = t[n].id PROVE m = n
    <3>1. \A i \in 1..L : s[i] # Hole => s[i].id # r.id
      BY <1>2, <1>5
    <3>2. \A i \in 1..L : i = k \/ t[i] = s[i]
      BY <2>9
    <3>3. t[k] = r
      BY <2>3, <2>9
    <3>4. m \in 1..L /\ n \in 1..L
      BY <2>8
    <3> QED BY <1>1, <2>11, <3>1, <3>2, <3>3, <3>4
  <2>12. ViewOK(w)
    BY <2>1, <2>4, <2>6, <2>8, <2>10, <2>11, ViewMade
  <2>13. \A x : x \in Holding(w) <=> x # Hole /\ \E n \in 1..L : x = t[n]
    BY <2>4, <2>8 DEF Holding, ToSet
  <2>14. ASSUME NEW x PROVE x \in Holding(w) <=> x = r \/ (x \in Holding(v) /\ x.id # r.id)
    <3>1. ASSUME x \in Holding(w) PROVE x = r \/ (x \in Holding(v) /\ x.id # r.id)
      <4>1. PICK n \in 1..L : x = t[n] /\ x # Hole
        BY <2>13, <3>1
      <4> QED BY <1>2, <1>3, <1>5, <2>9, <4>1
    <3>2. ASSUME x = r PROVE x \in Holding(w)
      BY <2>3, <2>9, <2>13, <3>2
    <3>3. ASSUME x \in Holding(v), x.id # r.id PROVE x \in Holding(w)
      <4>1. PICK n \in 1..L : x = s[n] /\ x # Hole
        BY <1>3, <3>3
      <4>2. n # k
        BY <2>3, <4>1
      <4> QED BY <2>9, <2>13, <4>1, <4>2
    <3> QED BY <3>1, <3>2, <3>3
  <2> QED BY <2>12, <2>14 DEF Comes, w
<1>6. CASE At0 = {} /\ v.free = <<>>
  <2> DEFINE t == Append(s, r)
  <2>1. w = [slots |-> t, free |-> v.free]
    BY <1>1, <1>6 DEF Upserted, At0, s
  <2> DEFINE E == ToSet(s) \cup {r}
  <2>2. t \in Seq(E) /\ Len(t) = L + 1 /\ t[L + 1] = r /\ \A n \in 1..L : t[n] = s[n]
    <3>1. s \in Seq(E)
      BY <1>1 DEF ToSet
    <3> QED BY <3>1 DEF L
  <2> HIDE DEF t, E, w
  <2>3. IsList(t) /\ DOMAIN t = 1..(L + 1)
    BY <2>2, ListIn, IsListFacts
  <2>4. \A n \in 1..(L + 1) : n = L + 1 \/ n \in 1..L
    BY <1>1
  <2>5. \A n \in 1..L : n \in 1..(L + 1)
    BY <1>1
  <2>6. \A n \in DOMAIN v.free : v.free[n] \in DOMAIN t /\ t[v.free[n]] = Hole
    BY <1>1, <2>2, <2>3, <2>5
  <2>7. ASSUME NEW m \in DOMAIN t, NEW n \in DOMAIN t, t[m] # Hole, t[n] # Hole, t[m].id = t[n].id PROVE m = n
    <3>1. \A i \in 1..L : s[i] # Hole => s[i].id # r.id
      BY <1>2, <1>6
    <3>2. (m = L + 1 \/ m \in 1..L) /\ (n = L + 1 \/ n \in 1..L)
      BY <2>3, <2>4
    <3> QED BY <1>1, <2>2, <2>7, <3>1, <3>2
  <2>8. ViewOK(w)
    BY <1>1, <2>1, <2>3, <2>6, <2>7, ViewMade
  <2>9. \A x : x \in Holding(w) <=> x # Hole /\ \E n \in 1..(L + 1) : x = t[n]
    BY <2>1, <2>3 DEF Holding, ToSet
  <2>10. L + 1 \in 1..(L + 1)
    BY <1>1
  <2>11. ASSUME NEW x PROVE x \in Holding(w) <=> x = r \/ (x \in Holding(v) /\ x.id # r.id)
    <3>1. ASSUME x \in Holding(w) PROVE x = r \/ (x \in Holding(v) /\ x.id # r.id)
      <4>1. PICK n \in 1..(L + 1) : x = t[n] /\ x # Hole
        BY <2>9, <3>1
      <4> QED BY <1>2, <1>3, <1>6, <2>2, <2>4, <4>1
    <3>2. ASSUME x = r PROVE x \in Holding(w)
      BY <2>2, <2>9, <2>10, <3>2
    <3>3. ASSUME x \in Holding(v), x.id # r.id PROVE x \in Holding(w)
      <4>1. PICK n \in 1..L : x = s[n] /\ x # Hole
        BY <1>3, <3>3
      <4> QED BY <2>2, <2>5, <2>9, <4>1
    <3> QED BY <3>1, <3>2, <3>3
  <2> QED BY <2>8, <2>11 DEF Comes, w
<1> QED BY <1>4, <1>5, <1>6

LEMMA RemovedFacts ==
  ASSUME NEW v, ViewOK(v), NEW r
  PROVE  ViewOK(Removed(v, r.id)) /\ Goes(Holding(v), r, Holding(Removed(v, r.id)))
<1> DEFINE s == v.slots
           L == Len(s)
           f == v.free
           At0 == SlotsOf(v, r.id)
           w == Removed(v, r.id)
<1>1. /\ L \in Nat /\ DOMAIN s = 1..L /\ s = [n \in 1..L |-> s[n]]
      /\ v = [slots |-> s, free |-> f] /\ IsList(f) /\ NoTwice(f)
      /\ \A n \in DOMAIN f : f[n] \in 1..L /\ s[f[n]] = Hole
      /\ \A m, n \in 1..L : s[m] # Hole /\ s[n] # Hole /\ s[m].id = s[n].id => m = n
  BY IsListFacts DEF ViewOK
<1>2. \A n : n \in At0 <=> n \in 1..L /\ s[n] # Hole /\ s[n].id = r.id
  BY <1>1 DEF SlotsOf
<1>3. \A x : x \in Holding(v) <=> x # Hole /\ \E n \in 1..L : x = s[n]
  BY <1>1 DEF Holding, ToSet
<1> HIDE DEF s, L, At0, f
<1>4. CASE At0 # {}
  <2> DEFINE k == CHOOSE n \in At0 : TRUE
             t == [n \in 1..L |-> IF n = k THEN Hole ELSE s[n]]
             g == Append(f, k)
  <2>1. k \in At0
    BY <1>4
  <2>2. w = [slots |-> t, free |-> g]
    BY <1>1, <1>4 DEF Removed, At0, s, L, f
  <2> DEFINE E == ToSet(f) \cup {k}
             M == Len(f)
  <2>3. M \in Nat /\ DOMAIN f = 1..M /\ g \in Seq(E) /\ Len(g) = M + 1 /\ g[M + 1] = k /\ \A n \in 1..M : g[n] = f[n]
    <3>1. f \in Seq(E) /\ DOMAIN f = 1..Len(f)
      BY <1>1, IsListFacts DEF IsList
    <3> QED BY <3>1 DEF M
  <2> HIDE DEF k, w, E, g, M
  <2>4. IsList(g) /\ DOMAIN g = 1..(M + 1)
    BY <2>3, ListIn, IsListFacts
  <2>5. \A n \in 1..(M + 1) : n = M + 1 \/ n \in 1..M
    BY <2>3
  <2>6. IsList(t) /\ DOMAIN t = 1..L
    BY <1>1, MadeOf
  <2>7. \A n \in 1..L : t[n] = IF n = k THEN Hole ELSE s[n]
    OBVIOUS
  <2>8. k \in 1..L /\ s[k] # Hole /\ s[k].id = r.id
    BY <1>2, <2>1
  <2> HIDE DEF t
  <2>9. \A n \in 1..M : f[n] # k
    BY <1>1, <2>3, <2>8
  <2>10. NoTwice(g)
    <3> SUFFICES ASSUME NEW m \in DOMAIN g, NEW n \in DOMAIN g, g[m] = g[n] PROVE m = n
      BY DEF NoTwice
    <3>1. (m = M + 1 \/ m \in 1..M) /\ (n = M + 1 \/ n \in 1..M)
      BY <2>4, <2>5
    <3> QED BY <1>1, <2>3, <2>9, <3>1 DEF NoTwice
  <2>11. \A n \in DOMAIN g : g[n] \in DOMAIN t /\ t[g[n]] = Hole
    <3> SUFFICES ASSUME NEW n \in DOMAIN g PROVE g[n] \in DOMAIN t /\ t[g[n]] = Hole
      OBVIOUS
    <3>1. n = M + 1 \/ n \in 1..M
      BY <2>4, <2>5
    <3> QED BY <1>1, <2>3, <2>6, <2>7, <2>8, <3>1
  <2>12. ASSUME NEW m \in DOMAIN t, NEW n \in DOMAIN t, t[m] # Hole, t[n] # Hole, t[m].id = t[n].id PROVE m = n
    BY <1>1, <2>6, <2>7, <2>12
  <2>13. ViewOK(w)
    BY <2>2, <2>4, <2>6, <2>10, <2>11, <2>12, ViewMade
  <2>14. \A x : x \in Holding(w) <=> x # Hole /\ \E n \in 1..L : x = t[n]
    BY <2>2, <2>6 DEF Holding, ToSet
  <2>15. ASSUME NEW x PROVE x \in Holding(w) <=> x \in Holding(v) /\ x.id # r.id
    <3>1. ASSUME x \in Holding(w) PROVE x \in Holding(v) /\ x.id # r.id
      <4>1. PICK n \in 1..L : x = t[n] /\ x # Hole
        BY <2>14, <3>1
      <4>2. n # k /\ x = s[n]
        BY <2>7, <4>1
      <4>3. x.id # r.id
        BY <1>1, <2>8, <4>1, <4>2
      <4> QED BY <1>3, <4>1, <4>2, <4>3
    <3>2. ASSUME x \in Holding(v), x.id # r.id PROVE x \in Holding(w)
      <4>1. PICK n \in 1..L : x = s[n] /\ x # Hole
        BY <1>3, <3>2
      <4>2. n # k
        BY <2>8, <3>2, <4>1
      <4> QED BY <2>7, <2>14, <4>1, <4>2
    <3> QED BY <3>1, <3>2
  <2> QED BY <2>13, <2>15 DEF Goes, w
<1>5. CASE At0 = {}
  <2>1. w = v
    BY <1>5 DEF Removed, At0
  <2>2. ASSUME NEW x \in Holding(v) PROVE x.id # r.id
    BY <1>2, <1>3, <1>5
  <2> QED BY <2>1, <2>2 DEF Goes, w
<1> QED BY <1>4, <1>5

\* What d makes of V.
Becomes(V, d, W) == \A x : x \in W <=> (d.d > 0 /\ x = d.row) \/ (x \in V /\ x.id # d.row.id)

LEMMA WithDeltaFacts ==
  ASSUME NEW v, ViewOK(v), NEW d, d.row # Hole
  PROVE  ViewOK(WithDelta(v, d)) /\ Becomes(Holding(v), d, Holding(WithDelta(v, d)))
<1> DEFINE r == d.row
<1>1. CASE d.d > 0
  <2>1. WithDelta(v, d) = Upserted(v, r)
    BY <1>1 DEF WithDelta
  <2> HIDE DEF r
  <2>2. ViewOK(Upserted(v, r)) /\ Comes(Holding(v), r, Holding(Upserted(v, r)))
    BY UpsertedFacts DEF r
  <2> QED BY <1>1, <2>1, <2>2 DEF Comes, Becomes, r
<1>2. CASE ~(d.d > 0)
  <2>1. WithDelta(v, d) = Removed(v, r.id)
    BY <1>2 DEF WithDelta
  <2> HIDE DEF r
  <2>2. ViewOK(Removed(v, r.id)) /\ Goes(Holding(v), r, Holding(Removed(v, r.id)))
    BY RemovedFacts
  <2> QED BY <1>2, <2>1, <2>2 DEF Goes, Becomes, r
<1> QED BY <1>1, <1>2

-----------------------------------------------------------------------------
(* Deltas, one after another.                                               *)
AppliedRun(f, v, out) == f = [n \in 0..Len(out) |-> IF n = 0 THEN v ELSE WithDelta(f[n - 1], out[n])]

LEMMA AppliedRunExists ==
  ASSUME NEW v, NEW out, Len(out) \in Nat
  PROVE  \E f : AppliedRun(f, v, out) /\ Applied(v, out) = f[Len(out)]
<1> DEFINE N == Len(out)
           Is(f, k) == f = [n \in 0..k |-> IF n = 0 THEN v ELSE WithDelta(f[n - 1], out[n])]
           P == {k \in 0..N : \E f : Is(f, k)}
<1> HIDE DEF N
<1>1. N \in Nat
  BY DEF N
<1>2. 0 \in P
  <2> DEFINE f == [n \in 0..0 |-> v]
  <2>1. Is(f, 0)
    OBVIOUS
  <2> HIDE DEF f
  <2> QED BY <1>1, <2>1
<1>3. ASSUME NEW k \in 1..N, k - 1 \in P PROVE k \in P
  <2>1. PICK f : Is(f, k - 1)
    BY <1>3
  <2> DEFINE h == [n \in 0..k |-> IF n < k THEN f[n] ELSE WithDelta(f[k - 1], out[k])]
  <2>2. ASSUME NEW n \in 0..k PROVE h[n] = IF n = 0 THEN v ELSE WithDelta(h[n - 1], out[n])
    <3>1. CASE n = 0
      BY <2>1, <3>1
    <3>2. CASE n \in 1..(k - 1)
      <4>1. h[n] = f[n] /\ h[n - 1] = f[n - 1] /\ n \in 0..(k - 1) /\ n # 0
        BY <3>2
      <4> QED BY <2>1, <4>1
    <3>3. CASE n = k
      <4>1. h[k] = WithDelta(f[k - 1], out[k]) /\ h[k - 1] = f[k - 1] /\ k # 0
        OBVIOUS
      <4> QED BY <3>3, <4>1
    <3> QED BY <3>1, <3>2, <3>3
  <2>3. h = [n \in 0..k |-> h[n]]
    OBVIOUS
  <2> HIDE DEF h
  <2>4. Is(h, k)
    BY <2>2, <2>3
  <2>5. k \in 0..N
    BY <1>1
  <2> QED BY <2>4, <2>5
<1> HIDE DEF P
<1>4. 0..N \subseteq P
  BY <1>1, <1>2, <1>3, StepByStep
<1>5. \E f : Is(f, N)
  <2>1. N \in P
    BY <1>1, <1>4
  <2> QED BY <2>1 DEF P
<1>6. \E f : AppliedRun(f, v, out)
  BY <1>5 DEF AppliedRun, N
<1> DEFINE A == CHOOSE f : AppliedRun(f, v, out)
<1>7. AppliedRun(A, v, out)
  BY <1>6
<1>8. Applied(v, out) = A[Len(out)]
  BY DEF Applied, AppliedRun
<1> QED BY <1>7, <1>8

IsDeltas(out) == IsList(out) /\ \A n \in DOMAIN out : out[n].row # Hole

\* The last delta for a row id, among the first n.
LastFor(out, m, n) == \A k \in (m + 1)..n : out[k].row.id # out[m].row.id

\* What the first n deltas make of the rows of V.
After(V, out, n, W) ==
  \A x : x \in W <=> \/ \E m \in 1..n : out[m].d > 0 /\ x = out[m].row /\ LastFor(out, m, n)
                     \/ x \in V /\ \A m \in 1..n : out[m].row.id # x.id

LEMMA AfterNext ==
  ASSUME NEW V, NEW out, NEW n \in Nat, n >= 1, NEW W, After(V, out, n - 1, W), NEW X, Becomes(W, out[n], X)
  PROVE  After(V, out, n, X)
<1> SUFFICES ASSUME NEW x
             PROVE  x \in X <=> \/ \E m \in 1..n : out[m].d > 0 /\ x = out[m].row /\ LastFor(out, m, n)
                                \/ x \in V /\ \A m \in 1..n : out[m].row.id # x.id
  BY DEF After
<1>1. x \in X <=> (out[n].d > 0 /\ x = out[n].row) \/ (x \in W /\ x.id # out[n].row.id)
  BY DEF Becomes
<1>2. x \in W <=> \/ \E m \in 1..(n - 1) : out[m].d > 0 /\ x = out[m].row /\ LastFor(out, m, n - 1)
                  \/ x \in V /\ \A m \in 1..(n - 1) : out[m].row.id # x.id
  BY DEF After
<1>3. n \in 1..n /\ LastFor(out, n, n) /\ \A m \in 1..n : m = n \/ m \in 1..(n - 1)
  BY DEF LastFor
<1>4. \A m \in 1..(n - 1) : m \in 1..n /\ (LastFor(out, m, n) <=> LastFor(out, m, n - 1) /\ out[n].row.id # out[m].row.id)
  <2> SUFFICES ASSUME NEW m \in 1..(n - 1)
               PROVE  m \in 1..n /\ (LastFor(out, m, n) <=> LastFor(out, m, n - 1) /\ out[n].row.id # out[m].row.id)
    OBVIOUS
  <2>1. \A k : k \in (m + 1)..n <=> k \in (m + 1)..(n - 1) \/ k = n
    OBVIOUS
  <2> QED BY <2>1 DEF LastFor
<1>5. ASSUME x \in X
      PROVE  \/ \E m \in 1..n : out[m].d > 0 /\ x = out[m].row /\ LastFor(out, m, n)
             \/ x \in V /\ \A m \in 1..n : out[m].row.id # x.id
  <2>1. CASE out[n].d > 0 /\ x = out[n].row
    BY <1>3, <2>1
  <2>2. CASE x \in W /\ x.id # out[n].row.id
    BY <1>2, <1>3, <1>4, <2>2
  <2> QED BY <1>1, <1>5, <2>1, <2>2
<1>6. ASSUME NEW m \in 1..n, out[m].d > 0, x = out[m].row, LastFor(out, m, n) PROVE x \in X
  <2>1. CASE m = n
    BY <1>1, <1>6, <2>1
  <2>2. CASE m \in 1..(n - 1)
    <3>1. LastFor(out, m, n - 1) /\ out[n].row.id # x.id
      BY <1>4, <1>6, <2>2
    <3> QED BY <1>1, <1>2, <1>6, <2>2, <3>1
  <2> QED BY <1>3, <2>1, <2>2
<1>7. ASSUME x \in V, \A m \in 1..n : out[m].row.id # x.id PROVE x \in X
  BY <1>1, <1>2, <1>3, <1>4, <1>7
<1> QED BY <1>5, <1>6, <1>7

LEMMA AppliedFacts ==
  ASSUME NEW v, ViewOK(v), NEW out, IsDeltas(out)
  PROVE  ViewOK(Applied(v, out)) /\ After(Holding(v), out, Len(out), Holding(Applied(v, out)))
<1> DEFINE N == Len(out)
           V == Holding(v)
<1>1. N \in Nat /\ DOMAIN out = 1..N /\ \A n \in 1..N : out[n].row # Hole
  BY IsListFacts DEF IsDeltas
<1>2. PICK f : AppliedRun(f, v, out) /\ Applied(v, out) = f[Len(out)]
  BY <1>1, AppliedRunExists
<1>3. \A n \in 0..N : f[n] = IF n = 0 THEN v ELSE WithDelta(f[n - 1], out[n])
  BY <1>2 DEF AppliedRun
<1> HIDE DEF N, V
<1> DEFINE P == {n \in 0..N : ViewOK(f[n]) /\ After(V, out, n, Holding(f[n]))}
<1>4. 0 \in P
  <2>1. f[0] = v /\ 0 \in 0..N
    BY <1>1, <1>3
  <2>2. After(V, out, 0, V)
    BY DEF After
  <2> QED BY <2>1, <2>2 DEF V
<1>5. ASSUME NEW n \in 1..N, n - 1 \in P PROVE n \in P
  <2>1. n \in 0..N /\ n # 0 /\ n \in Nat /\ n >= 1
    BY <1>1
  <2>2. f[n] = WithDelta(f[n - 1], out[n])
    BY <1>3, <2>1
  <2>3. ViewOK(f[n - 1]) /\ After(V, out, n - 1, Holding(f[n - 1]))
    BY <1>5
  <2>4. ViewOK(f[n]) /\ Becomes(Holding(f[n - 1]), out[n], Holding(f[n]))
    BY <1>1, <2>2, <2>3, WithDeltaFacts
  <2>5. After(V, out, n, Holding(f[n]))
    BY <2>1, <2>3, <2>4, AfterNext
  <2> QED BY <2>1, <2>4, <2>5
<1> HIDE DEF P
<1>6. 0..N \subseteq P
  BY <1>1, <1>4, <1>5, StepByStep
<1>7. ViewOK(f[N]) /\ After(V, out, N, Holding(f[N]))
  <2>1. N \in P
    BY <1>1, <1>6
  <2> QED BY <2>1 DEF P
<1> QED BY <1>2, <1>7 DEF N, V

\* The deltas that are queued lead to the rows of V, and W is V without them.
LeadTo(out, V) ==
  \A m \in DOMAIN out : LastFor(out, m, Len(out)) =>
    \A x : x.id = out[m].row.id => (x \in V <=> out[m].d > 0 /\ x = out[m].row)

BehindBy(W, out, V) == \A x : (\A m \in DOMAIN out : out[m].row.id # x.id) => (x \in W <=> x \in V)

LEMMA LastExists ==
  ASSUME NEW out, NEW N \in Nat, NEW i, \E m \in 1..N : out[m].row.id = i
  PROVE  \E m \in 1..N : out[m].row.id = i /\ LastFor(out, m, N)
<1> DEFINE P == {n \in 0..N : (\E m \in 1..n : out[m].row.id = i) => \E m \in 1..n : out[m].row.id = i /\ LastFor(out, m, n)}
<1>1. 0 \in P
  OBVIOUS
<1>2. ASSUME NEW n \in 1..N, n - 1 \in P PROVE n \in P
  <2>0. n \in 0..N /\ n \in 1..n
    OBVIOUS
  <2>1. ASSUME NEW m \in 1..n, out[m].row.id = i PROVE \E k \in 1..n : out[k].row.id = i /\ LastFor(out, k, n)
    <3>1. CASE out[n].row.id = i
      <4>1. LastFor(out, n, n)
        BY DEF LastFor
      <4> QED BY <2>0, <3>1, <4>1
    <3>2. CASE out[n].row.id # i
      <4>1. m \in 1..(n - 1)
        BY <2>1, <3>2
      <4>2. PICK k \in 1..(n - 1) : out[k].row.id = i /\ LastFor(out, k, n - 1)
        BY <1>2, <2>1, <4>1
      <4>3. \A l \in (k + 1)..n : l \in (k + 1)..(n - 1) \/ l = n
        OBVIOUS
      <4>4. LastFor(out, k, n) /\ k \in 1..n
        BY <3>2, <4>2, <4>3 DEF LastFor
      <4> QED BY <4>2, <4>4
    <3> QED BY <3>1, <3>2
  <2> QED BY <2>0, <2>1
<1> HIDE DEF P
<1>3. 0..N \subseteq P
  BY <1>1, <1>2, StepByStep
<1>4. N \in P
  BY <1>3
<1> QED BY <1>4 DEF P

LEMMA AppliedCurrent ==
  ASSUME NEW v, ViewOK(v), NEW out, IsDeltas(out), NEW V, LeadTo(out, V), BehindBy(Holding(v), out, V)
  PROVE  ViewOK(Applied(v, out)) /\ Holding(Applied(v, out)) = V
<1> DEFINE N == Len(out)
           W == Holding(Applied(v, out))
<1>1. ViewOK(Applied(v, out)) /\ After(Holding(v), out, N, W)
  BY AppliedFacts
<1>2. N \in Nat /\ DOMAIN out = 1..N
  BY IsListFacts DEF IsDeltas
<1> HIDE DEF N, W
<1>3. ASSUME NEW x PROVE x \in W <=> x \in V
  <2>1. x \in W <=> \/ \E m \in 1..N : out[m].d > 0 /\ x = out[m].row /\ LastFor(out, m, N)
                    \/ x \in Holding(v) /\ \A m \in 1..N : out[m].row.id # x.id
    BY <1>1 DEF After
  <2>2. CASE \A m \in 1..N : out[m].row.id # x.id
    BY <1>2, <2>1, <2>2 DEF BehindBy
  <2>3. CASE \E m \in 1..N : out[m].row.id = x.id
    <3>1. PICK m \in 1..N : out[m].row.id = x.id /\ LastFor(out, m, N)
      BY <1>2, <2>3, LastExists
    <3>2. x \in V <=> out[m].d > 0 /\ x = out[m].row
      BY <1>2, <3>1 DEF LeadTo, N
    <3>3. ASSUME x \in W PROVE out[m].d > 0 /\ x = out[m].row
      <4>1. PICK k \in 1..N : out[k].d > 0 /\ x = out[k].row /\ LastFor(out, k, N)
        BY <2>1, <2>3, <3>3
      <4>2. ~(k < m) /\ ~(m < k)
        BY <1>2, <3>1, <4>1 DEF LastFor
      <4>3. k = m
        BY <1>2, <4>2
      <4> QED BY <4>1, <4>3
    <3>4. ASSUME out[m].d > 0, x = out[m].row PROVE x \in W
      BY <2>1, <3>1, <3>4
    <3> QED BY <3>2, <3>3, <3>4
  <2> QED BY <2>2, <2>3
<1> QED BY <1>1, <1>3 DEF W

LEMMA DeltaAppended ==
  ASSUME NEW out, IsDeltas(out), NEW V, LeadTo(out, V), NEW d, d.row # Hole, NEW X, Becomes(V, d, X)
  PROVE  /\ IsDeltas(Append(out, d)) /\ LeadTo(Append(out, d), X)
         /\ \A W : BehindBy(W, out, V) => BehindBy(W, Append(out, d), X)
<1> DEFINE N == Len(out)
           new == Append(out, d)
           E == ToSet(out) \cup {d}
<1>1. N \in Nat /\ DOMAIN out = 1..N /\ out \in Seq(E) /\ \A n \in 1..N : out[n].row # Hole
  BY IsListFacts DEF IsDeltas, IsList
<1> HIDE DEF E
<1>2. new \in Seq(E) /\ Len(new) = N + 1 /\ new[N + 1] = d /\ \A n \in 1..N : new[n] = out[n]
  BY <1>1 DEF E
<1> HIDE DEF N, new
<1>3. IsList(new) /\ DOMAIN new = 1..(N + 1)
  BY <1>2, ListIn, IsListFacts
<1>4. \A n : n \in 1..(N + 1) <=> n = N + 1 \/ n \in 1..N
  BY <1>1
<1>5. IsDeltas(new)
  BY <1>1, <1>2, <1>3, <1>4 DEF IsDeltas
<1>6. ASSUME NEW m \in DOMAIN new, LastFor(new, m, Len(new)), NEW x, x.id = new[m].row.id
      PROVE  x \in X <=> new[m].d > 0 /\ x = new[m].row
  <2>1. x \in X <=> (d.d > 0 /\ x = d.row) \/ (x \in V /\ x.id # d.row.id)
    BY DEF Becomes
  <2>2. CASE m = N + 1
    BY <1>2, <1>6, <2>1, <2>2
  <2>3. CASE m \in 1..N
    <3>1. new[m] = out[m] /\ N + 1 \in (m + 1)..(N + 1)
      BY <1>1, <1>2, <2>3
    <3>2. d.row.id # x.id
      BY <1>2, <1>6, <3>1 DEF LastFor
    <3>3. ASSUME NEW k \in (m + 1)..N PROVE out[k].row.id # out[m].row.id
      <4>1. k \in (m + 1)..(N + 1) /\ k \in 1..N
        BY <1>1, <2>3
      <4> QED BY <1>2, <1>6, <3>1, <4>1 DEF LastFor
    <3>4. LastFor(out, m, N)
      BY <3>3 DEF LastFor
    <3>5. x \in V <=> out[m].d > 0 /\ x = out[m].row
      BY <1>1, <1>6, <2>3, <3>1, <3>4 DEF LeadTo, N
    <3> QED BY <2>1, <3>1, <3>2, <3>5
  <2> QED BY <1>3, <1>4, <2>2, <2>3
<1>7. ASSUME NEW W, BehindBy(W, out, V), NEW x, \A m \in DOMAIN new : new[m].row.id # x.id
      PROVE  x \in W <=> x \in X
  <2>1. d.row.id # x.id /\ \A m \in 1..N : out[m].row.id # x.id
    BY <1>2, <1>3, <1>4, <1>7
  <2>2. x \in W <=> x \in V
    BY <1>1, <1>7, <2>1 DEF BehindBy
  <2> QED BY <2>1, <2>2 DEF Becomes
<1> QED BY <1>5, <1>6, <1>7 DEF LeadTo, BehindBy, new

-----------------------------------------------------------------------------
(* The queue of the root table.  Rows that WHERE excludes are not output.   *)
Seen(p, s) == Picked(s, {d \in ToSet(s) : d.row.v \notin p.hidden})
Visibles(c, p) == {x \in c[p.root] : x.v \notin p.hidden}

LEMMA SeenFacts ==
  ASSUME NEW p, NEW s, IsDeltas(s)
  PROVE  IsDeltas(Seen(p, s)) /\ ToSet(Seen(p, s)) \subseteq ToSet(s)
<1> DEFINE E == ToSet(s)
           C == {d \in ToSet(s) : d.row.v \notin p.hidden}
<1>1. s \in Seq(E) /\ \A d \in E : d.row # Hole
  BY DEF IsDeltas, IsList, ToSet
<1> HIDE DEF E, C
<1>2. Picked(s, C) \in Seq(E)
  BY <1>1, PickedFacts
<1>3. IsList(Picked(s, C)) /\ ToSet(Picked(s, C)) \subseteq E
  BY <1>2, ListIn
<1>4. \A n \in DOMAIN Picked(s, C) : Picked(s, C)[n] \in ToSet(Picked(s, C))
  BY DEF ToSet
<1> QED BY <1>1, <1>3, <1>4 DEF Seen, IsDeltas, C, E

LEMMA SeenAppend ==
  ASSUME NEW p, NEW s, IsList(s), NEW e
  PROVE  Seen(p, Append(s, e)) = (IF e.row.v \notin p.hidden THEN Append(Seen(p, s), e) ELSE Seen(p, s))
<1> DEFINE E == ToSet(s) \cup {e}
           C == {d \in ToSet(s) : d.row.v \notin p.hidden}
           D == {d \in ToSet(Append(s, e)) : d.row.v \notin p.hidden}
<1>1. s \in Seq(E) /\ e \in E /\ s \in Seq(ToSet(s))
  BY DEF IsList
<1>2. ToSet(Append(s, e)) = ToSet(s) \cup {e}
  BY <1>1, AppendedFacts
<1>3. /\ \A x \in ToSet(s) : x \in C <=> x \in D
      /\ e \in D <=> e.row.v \notin p.hidden
  BY <1>2
<1> HIDE DEF C, D, E
<1>4. Picked(Append(s, e), D) = (IF e \in D THEN Append(Picked(s, C), e) ELSE Picked(s, C))
  BY <1>1, <1>3, PickedAppend
<1> QED BY <1>3, <1>4 DEF Seen, C, D

LEMMA QueueAppended ==
  ASSUME NEW p, NEW s, IsDeltas(s), NEW V, LeadTo(Seen(p, s), V), NEW d, d.row # Hole, NEW X,
         IF d.row.v \notin p.hidden THEN Becomes(V, d, X) ELSE X = V
  PROVE  /\ IsDeltas(Append(s, d)) /\ LeadTo(Seen(p, Append(s, d)), X)
         /\ \A W : BehindBy(W, Seen(p, s), V) => BehindBy(W, Seen(p, Append(s, d)), X)
         /\ ToSet(Append(s, d)) = ToSet(s) \cup {d}
<1>1. s \in Seq(ToSet(s) \cup {d}) /\ d \in ToSet(s) \cup {d} /\ IsList(s)
  BY DEF IsDeltas, IsList
<1>2. Append(s, d) \in Seq(ToSet(s) \cup {d}) /\ ToSet(Append(s, d)) = ToSet(s) \cup {d}
  BY <1>1, AppendedFacts
<1>3. IsDeltas(Append(s, d))
  <2>1. \A n \in DOMAIN Append(s, d) : Append(s, d)[n] \in ToSet(s) \cup {d}
    BY <1>2 DEF ToSet
  <2>2. \A e \in ToSet(s) \cup {d} : e.row # Hole
    BY DEF IsDeltas, ToSet
  <2>3. IsList(Append(s, d))
    BY <1>2, ListIn
  <2> QED BY <2>1, <2>2, <2>3 DEF IsDeltas
<1> DEFINE o == Seen(p, s)
<1>4. IsDeltas(o)
  BY SeenFacts
<1>5. Seen(p, Append(s, d)) = (IF d.row.v \notin p.hidden THEN Append(o, d) ELSE o)
  BY <1>1, SeenAppend
<1> HIDE DEF o
<1>6. CASE d.row.v \notin p.hidden
  <2>1. LeadTo(Append(o, d), X) /\ \A W : BehindBy(W, o, V) => BehindBy(W, Append(o, d), X)
    BY <1>4, <1>6, DeltaAppended DEF o
  <2> QED BY <1>2, <1>3, <1>5, <1>6, <2>1 DEF o
<1>7. CASE d.row.v \in p.hidden
  BY <1>2, <1>3, <1>5, <1>7 DEF o
<1> QED BY <1>6, <1>7

\* One row at most comes or goes: O, of sign n.
OneRow(O) == \A x, y \in O : x = y /\ x # Hole
Brings(p, V, O, n, X) ==
  /\ O = {} => X = V
  /\ \A x \in O : IF x.v \notin p.hidden THEN Becomes(V, [d |-> n, row |-> x], X) ELSE X = V
IsQueued(p, s, V, O, new, X) ==
  /\ IsDeltas(new) /\ LeadTo(Seen(p, new), X)
  /\ \A W : BehindBy(W, Seen(p, s), V) => BehindBy(W, Seen(p, new), X)
  /\ \A e \in ToSet(new) : e \in ToSet(s) \/ e.row \in O

LEMMA OneQueued ==
  ASSUME NEW p, NEW s, IsDeltas(s), NEW V, LeadTo(Seen(p, s), V), NEW O, OneRow(O), NEW n, NEW X, Brings(p, V, O, n, X),
         NEW new, new = s \o DeltasOf(n, O)
  PROVE  IsQueued(p, s, V, O, new, X)
<1>1. s \in Seq(ToSet(s))
  BY DEF IsDeltas, IsList
<1>2. CASE O = {}
  <2>1. {[d |-> n, row |-> r] : r \in O} = {}
    BY <1>2
  <2>2. DeltasOf(n, O) = <<>>
    BY <2>1, EnumeratedFew DEF DeltasOf
  <2>3. s \o <<>> = s
    BY <1>1
  <2>4. new = s /\ X = V
    BY <1>2, <2>2, <2>3 DEF Brings
  <2> QED BY <2>4 DEF IsQueued
<1>3. CASE O # {}
  <2>0. PICK x \in O : TRUE
    BY <1>3
  <2>1. O = {x} /\ x # Hole
    BY <2>0 DEF OneRow
  <2> DEFINE e == [d |-> n, row |-> x]
  <2>2. {[d |-> n, row |-> r] : r \in O} = {e}
    BY <2>1
  <2>3. e.row = x
    OBVIOUS
  <2>4. IF e.row.v \notin p.hidden THEN Becomes(V, e, X) ELSE X = V
    BY <2>1 DEF Brings
  <2> HIDE DEF e
  <2>5. DeltasOf(n, O) = <<e>>
    BY <2>2, EnumeratedFew DEF DeltasOf
  <2>6. s \o <<e>> = Append(s, e)
    BY <1>1
  <2>7. /\ IsDeltas(Append(s, e)) /\ LeadTo(Seen(p, Append(s, e)), X)
        /\ \A W : BehindBy(W, Seen(p, s), V) => BehindBy(W, Seen(p, Append(s, e)), X)
        /\ ToSet(Append(s, e)) = ToSet(s) \cup {e}
    BY <2>1, <2>3, <2>4, QueueAppended
  <2>8. new = Append(s, e)
    BY <2>5, <2>6
  <2> QED BY <2>1, <2>3, <2>7, <2>8 DEF IsQueued
<1> QED BY <1>2, <1>3

LEMMA WriteQueued ==
  ASSUME NEW p, NEW s, IsDeltas(s), NEW c, NEW c2, LeadTo(Seen(p, s), Visibles(c, p)),
         \A x, y \in c[p.root] : x.id = y.id => x = y, \A x, y \in c2[p.root] : x.id = y.id => x = y,
         NEW O, O = c[p.root] \ c2[p.root], NEW N, N = c2[p.root] \ c[p.root], OneRow(O), OneRow(N),
         NEW new, new = s \o DeltasOf(-1, O) \o DeltasOf(1, N)
  PROVE  IsQueued(p, s, Visibles(c, p), O \cup N, new, Visibles(c2, p))
<1> DEFINE V == Visibles(c, p)
           V1 == V \ O
           X == Visibles(c2, p)
           mid == s \o DeltasOf(-1, O)
<1>1. /\ \A x : x \in V <=> x \in c[p.root] /\ x.v \notin p.hidden
      /\ \A x : x \in X <=> x \in c2[p.root] /\ x.v \notin p.hidden
      /\ \A x : x \in V1 <=> x \in V /\ x \notin O
  BY DEF Visibles
<1> HIDE DEF V, X
<1>2. O = {} => V1 = V
  OBVIOUS
<1>3. ASSUME NEW x \in O PROVE IF x.v \notin p.hidden THEN Becomes(V, [d |-> -1, row |-> x], V1) ELSE V1 = V
  <2>1. O = {x} /\ x \in c[p.root]
    BY DEF OneRow
  <2>2. \A y : y \in V1 <=> y \in V /\ y # x
    BY <1>1, <2>1
  <2>3. \A y \in V : y.id = x.id => y = x
    BY <1>1, <2>1
  <2> HIDE DEF V1
  <2>4. CASE x.v \notin p.hidden
    <3>1. \A y : y \in V1 <=> y \in V /\ y.id # x.id
      BY <2>2, <2>3
    <3>2. [d |-> -1, row |-> x].row = x /\ ~([d |-> -1, row |-> x].d > 0)
      OBVIOUS
    <3>3. Becomes(V, [d |-> -1, row |-> x], V1)
      BY <3>1, <3>2 DEF Becomes
    <3> QED BY <2>4, <3>3
  <2>5. CASE ~(x.v \notin p.hidden)
    <3>1. x \notin V
      BY <1>1, <2>5
    <3>2. V1 = V
      BY <2>1, <3>1 DEF V1
    <3> QED BY <2>5, <3>2
  <2> QED BY <2>4, <2>5
<1> HIDE DEF V1, mid
<1>4. IsQueued(p, s, V, O, mid, V1)
  <2>1. LeadTo(Seen(p, s), V) /\ mid = s \o DeltasOf(-1, O)
    BY DEF V, mid
  <2>2. Brings(p, V, O, -1, V1)
    BY <1>2, <1>3 DEF Brings
  <2> QED BY <2>1, <2>2, OneQueued
<1>5. N = {} => X = V1
  BY <1>1
<1>6. ASSUME NEW x \in N PROVE IF x.v \notin p.hidden THEN Becomes(V1, [d |-> 1, row |-> x], X) ELSE X = V1
  <2>1. N = {x} /\ x \in c2[p.root] /\ x \notin c[p.root]
    BY DEF OneRow
  <2>2. \A y : y \in V1 <=> y \in c[p.root] /\ y.v \notin p.hidden /\ y \in c2[p.root]
    BY <1>1
  <2>3. \A y : y \in X <=> y \in V1 \/ (y = x /\ y.v \notin p.hidden)
    BY <1>1, <2>1, <2>2
  <2>4. \A y \in V1 : y.id # x.id
    BY <2>1, <2>2
  <2>5. CASE x.v \notin p.hidden
    <3>1. \A y : y \in X <=> y = x \/ (y \in V1 /\ y.id # x.id)
      BY <2>3, <2>4, <2>5
    <3>2. [d |-> 1, row |-> x].row = x /\ [d |-> 1, row |-> x].d > 0
      OBVIOUS
    <3>3. Becomes(V1, [d |-> 1, row |-> x], X)
      BY <3>1, <3>2 DEF Becomes
    <3> QED BY <2>5, <3>3
  <2>6. CASE ~(x.v \notin p.hidden)
    <3>1. \A y : y \in X <=> y \in V1
      BY <2>3, <2>6
    <3>2. X = V1
      BY <3>1
    <3> QED BY <2>6, <3>2
  <2> QED BY <2>5, <2>6
<1>7. IsQueued(p, mid, V1, N, new, X)
  <2>1. IsDeltas(mid) /\ LeadTo(Seen(p, mid), V1) /\ new = mid \o DeltasOf(1, N)
    BY <1>4 DEF IsQueued, mid
  <2>2. Brings(p, V1, N, 1, X)
    BY <1>5, <1>6 DEF Brings
  <2> QED BY <2>1, <2>2, OneQueued
<1> QED BY <1>4, <1>7 DEF IsQueued, V, X

-----------------------------------------------------------------------------
(* The delta lane, between flushes: once its queue is applied, the view     *)
(* holds the visible rows of the root table.                                *)
NoHole == \A t \in DOMAIN db : Hole \notin db[t]

QueueKept(s, c, I) ==
  /\ IsDeltas(s) /\ \A e \in ToSet(s) : e.row.id \in I
  /\ LeadTo(Seen(q, s), Visibles(c, q))

ViewKept(v, s, c, res) ==
  /\ ViewOK(v) /\ BehindBy(Holding(v), Seen(q, s), Visibles(c, q))
  /\ res = [n \in DOMAIN ViewRows(v) |-> RootRow(q, ViewRows(v)[n])]

DeltaInv ==
  scenario.api = "delta" =>
    /\ DOMAIN queue = DOMAIN db
    /\ QueueKept(queue[q.root], db, ids[q.root])
    /\ stage # "none" => ViewKept(view, queue[q.root], db, result)

StatementRow(t, old, new) ==
  /\ old \subseteq db[t] /\ \A x, y \in old : x = y
  /\ OneRow(new)
  /\ db' = [db EXCEPT ![t] = (@ \ old) \cup new]
  /\ ids' = [ids EXCEPT ![t] = @ \cup {r.id : r \in old \cup new}]
  /\ result' = result

LEMMA StatementRows ==
  ASSUME Typed, Statement
  PROVE  \E t \in DOMAIN db : \E old, new : StatementRow(t, old, new)
<1>1. PICK t \in DOMAIN db : Insert(t) \/ Update(t) \/ Delete(t)
  BY DEF Statement
<1>2. /\ scenario \in Scenario /\ DOMAIN db = DOMAIN scenario.db
      /\ \A r \in db[t] : r.id \in 1..(nextId[t] - 1)
      /\ nextId[t] \in 1..(MaxId + 1)
  BY DEF Typed, TableOf
<1>3. \A c \in scenario.inserts[t] \cup scenario.updates[t] : \A i \in 1..MaxId : WithId(c, i) # Hole
  BY <1>2, HoleAssumption
<1>5. CASE Insert(t)
  <2>1. PICK c \in scenario.inserts[t] : Write(t, {}, {WithId(c, nextId[t])})
    BY <1>5 DEF Insert
  <2> DEFINE s == WithId(c, nextId[t])
  <2>2. nextId[t] \in 1..MaxId
    BY <1>2, <1>5, MaxIdAssumption DEF Insert
  <2>3. s # Hole
    BY <1>3, <2>2
  <2> HIDE DEF s
  <2>4. StatementRow(t, {}, {s})
    BY <2>1, <2>3 DEF StatementRow, OneRow, Write, s
  <2> QED BY <2>4
<1>6. CASE Update(t)
  <2>1. PICK r \in db[t], c \in scenario.updates[t] : Write(t, {r}, {WithId(c, r.id)})
    BY <1>6 DEF Update
  <2> DEFINE s == WithId(c, r.id)
  <2>2. r.id \in 1..MaxId
    BY <1>2, MaxIdAssumption
  <2>3. s # Hole
    BY <1>3, <2>2
  <2> HIDE DEF s
  <2>4. StatementRow(t, {r}, {s})
    BY <2>1, <2>3 DEF StatementRow, OneRow, Write, s
  <2> QED BY <2>4
<1>7. CASE Delete(t)
  <2>1. PICK r \in db[t] : Write(t, {r}, {})
    BY <1>7 DEF Delete
  <2>2. StatementRow(t, {r}, {})
    BY <2>1 DEF StatementRow, OneRow, Write
  <2> QED BY <2>2
<1> QED BY <1>1, <1>5, <1>6, <1>7

LEMMA NoHoleInit == GraphqlInit => NoHole
<1> SUFFICES ASSUME GraphqlInit PROVE NoHole
  OBVIOUS
<1>1. scenario \in Scenario /\ db = scenario.db
  BY DEF GraphqlInit, Init
<1>2. ASSUME NEW t \in DOMAIN db, Hole \in db[t] PROVE FALSE
  <2>1. AreRows(scenario.db[t], scenario.inserts[t] \cup scenario.updates[t])
    BY <1>1, ScenarioFacts
  <2>2. Hole = WithId(Hole, Hole.id) /\ Hole.id \in 1..Cardinality(scenario.db[t]) /\ Cardinality(scenario.db[t]) <= MaxId
        /\ Cardinality(scenario.db[t]) \in Nat
    BY <1>1, <1>2, <2>1, FS_CardinalityType DEF AreRows
  <2>3. Hole.id \in 1..MaxId
    BY <2>2, MaxIdAssumption
  <2>4. WithId(Hole, Hole.id) # Hole
    BY <1>1, <1>2, <2>3, HoleAssumption
  <2> QED BY <2>2, <2>4
<1> QED BY <1>2 DEF NoHole

LEMMA NoHoleStep ==
  ASSUME Typed, NoHole, [GraphqlNext]_<<vars, gvars>>
  PROVE  NoHole'
<1>1. CASE Statement
  <2>1. PICK t, old, new : t \in DOMAIN db /\ StatementRow(t, old, new)
    BY <1>1, StatementRows
  <2> QED BY <2>1 DEF NoHole, StatementRow, OneRow
<1>2. CASE db' = db
  BY <1>2 DEF NoHole
<1>3. Statement \/ db' = db
  BY DEF GraphqlNext, GraphqlStatement, RowsNext, Observe, Create, tables, PatchRefresh,
         WindowRefresh, SubsetRefresh, Unaffected, Requery, Flush, Drain, Subscribe, Unsubscribe, SnapshotFlush,
         DeltaFlush, vars
<1> QED BY <1>1, <1>2, <1>3

LEMMA DeltaStatement ==
  ASSUME Typed, Typed', NoHole, NoHole', DeltaInv, scenario.api = "delta", q' = q, GraphqlStatement
  PROVE  /\ DOMAIN queue' = DOMAIN db'
         /\ QueueKept(queue'[q.root], db', ids'[q.root])
         /\ stage # "none" => ViewKept(view, queue'[q.root], db', result')
<1> DEFINE c == db
           c2 == db'
           s == queue[q.root]
           O == c[q.root] \ c2[q.root]
           N == c2[q.root] \ c[q.root]
           new == queue'[q.root]
<1>1. PICK t, old, gained : t \in DOMAIN db /\ StatementRow(t, old, gained)
  BY StatementRows DEF GraphqlStatement
<1>2. q.root \in DOMAIN db /\ DOMAIN ids = DOMAIN db /\ DOMAIN db' = DOMAIN db
  <2>1. q.root \in DOMAIN db
    BY TypedFacts
  <2> QED BY <1>1, <2>1 DEF Typed, StatementRow
<1>3. queue' = [u \in DOMAIN db |-> queue[u] \o DeltasOf(-1, db[u] \ db'[u]) \o DeltasOf(1, db'[u] \ db[u])]
  BY DEF GraphqlStatement
<1>4. DOMAIN queue' = DOMAIN db' /\ new = s \o DeltasOf(-1, O) \o DeltasOf(1, N)
  BY <1>2, <1>3
<1>5. OneRow(O) /\ OneRow(N) /\ \A r \in O \cup N : r.id \in ids'[q.root]
  <2>1. CASE t = q.root
    <3>1. /\ c2[q.root] = (c[q.root] \ old) \cup gained
          /\ ids'[q.root] = ids[q.root] \cup {r.id : r \in old \cup gained}
      BY <1>1, <1>2, <2>1 DEF StatementRow
    <3>2. O \subseteq old /\ N \subseteq gained
      BY <3>1
    <3>3. \A r \in O : r # Hole
      BY <1>2 DEF NoHole
    <3> QED BY <1>1, <3>1, <3>2, <3>3 DEF StatementRow, OneRow
  <2>2. CASE t # q.root
    <3>1. O = {} /\ N = {}
      BY <1>1, <1>2, <2>2 DEF StatementRow
    <3> QED BY <3>1 DEF OneRow
  <2> QED BY <2>1, <2>2
<1>6. /\ \A x, y \in c[q.root] : x.id = y.id => x = y
      /\ \A x, y \in c2[q.root] : x.id = y.id => x = y
  BY <1>2 DEF Typed, TableOf
<1>7. IsDeltas(s) /\ LeadTo(Seen(q, s), Visibles(c, q)) /\ \A e \in ToSet(s) : e.row.id \in ids[q.root]
  BY DEF DeltaInv, QueueKept
<1>8. ids[q.root] \subseteq ids'[q.root]
  BY <1>1, <1>2 DEF StatementRow
<1>9. result' = result /\ (stage # "none" => ViewKept(view, s, c, result))
  BY <1>1 DEF StatementRow, DeltaInv
<1> HIDE DEF c, c2, s, O, N, new
<1>10. IsQueued(q, s, Visibles(c, q), O \cup N, new, Visibles(c2, q))
  BY <1>4, <1>5, <1>6, <1>7, WriteQueued DEF O, N
<1>11. QueueKept(new, c2, ids'[q.root])
  BY <1>5, <1>7, <1>8, <1>10 DEF QueueKept, IsQueued
<1>12. stage # "none" => ViewKept(view, new, c2, result')
  BY <1>9, <1>10 DEF ViewKept, IsQueued
<1> QED BY <1>4, <1>11, <1>12 DEF new, c2

\* What a view of visible rows shows.
LEMMA ViewRowsFacts ==
  ASSUME NEW v, ViewOK(v)
  PROVE  /\ IsList(ViewRows(v)) /\ ToSet(ViewRows(v)) = Holding(v)
         /\ \A m, n \in DOMAIN ViewRows(v) : ViewRows(v)[m].id = ViewRows(v)[n].id => m = n
<1> DEFINE s == v.slots
           E == ToSet(s)
           R == {x \in E \X E : x[1] = Hole \/ x[2] = Hole \/ x[1].id # x[2].id}
           C == ToSet(s) \ {Hole}
           w == Picked(s, C)
<1>1. s \in Seq(E) /\ DOMAIN s = 1..Len(s) /\ Len(s) \in Nat /\ (\A n \in DOMAIN s : s[n] \in E)
      /\ \A m, n \in DOMAIN s : s[m] # Hole /\ s[n] # Hole /\ s[m].id = s[n].id => m = n
  BY IsListFacts DEF ViewOK, IsList
<1>2. Ordered(s, R)
  BY <1>1 DEF Ordered
<1> HIDE DEF E, R, C, s
<1>3. w \in Seq(E) /\ ToSet(w) = ToSet(s) \cap C /\ Ordered(w, R)
  BY <1>1, <1>2, PickedFacts
<1>4. ViewRows(v) = w /\ ToSet(w) = Holding(v)
  BY <1>3 DEF ViewRows, C, s, Holding
<1> HIDE DEF w
<1>5. IsList(w) /\ DOMAIN w = 1..Len(w) /\ Len(w) \in Nat /\ \A n \in DOMAIN w : w[n] \in ToSet(w)
  BY <1>3, ListIn, IsListFacts
<1>6. \A n \in DOMAIN w : w[n] # Hole
  BY <1>3, <1>5 DEF C
<1>7. \A m, n \in DOMAIN w : m < n => w[m].id # w[n].id
  BY <1>3, <1>6 DEF Ordered, R
<1>8. \A m, n \in DOMAIN w : w[m].id = w[n].id => m = n
  BY <1>5, <1>7
<1> QED BY <1>4, <1>5, <1>8

LEMMA AllVisible ==
  ASSUME NEW d, NEW p, IsQuery(p), p.joins = <<>>, IsDatabase(d, p)
  PROVE  WholeSet(d, p) = {RootRow(p, r) : r \in Visibles(d, p)}
<1>1. WholeSet(d, p) = {RootRow(p, r) : r \in Chosen(d, p, AllRoots(d, p))}
  BY RootOutputs DEF WholeSet, RowsAlone
<1>2. Chosen(d, p, AllRoots(d, p)) = Visibles(d, p)
  BY DEF Chosen, AllRoots, Visibles
<1> QED BY <1>1, <1>2

LEMMA DeltaCreate ==
  ASSUME Typed, NoHole, DeltaInv, scenario.api = "delta", Create
  PROVE  ViewKept(view', queue[q.root], db, result')
<1> DEFINE res == result'
           rows == RootRows(res)
           v == view'
           V == Visibles(db, q)
<1>1. IsQuery(q) /\ IsDatabase(db, q) /\ q.joins = <<>> /\ ShowsAll(q) /\ q.root \in DOMAIN db
  <2>1. scenario \in Scenario
    BY DEF Typed
  <2>2. ~q.ordered /\ q.limit = 0
    BY <2>1, NestedAssumption DEF q
  <2> QED BY <2>2, TypedFacts, SelectsTables DEF ShowsAll
<1>2. res = Answer(db, q) /\ v = [slots |-> rows, free |-> <<>>]
  BY DEF Create
<1>3. res \in Seq(WholeSet(db, q)) /\ NoTwice(res) /\ ToSet(res) = WholeSet(db, q)
  BY <1>1, <1>2, AnswerOfAll
<1> HIDE DEF res, v, V
<1>4. RootListing(q, res)
  BY <1>1, <1>3, RootsListing
<1> DEFINE L == Len(res)
<1>5. L \in Nat /\ DOMAIN res = 1..L /\ res = [n \in 1..L |-> res[n]]
  BY <1>4, IsListFacts DEF RootListing
<1>6. rows = [n \in 1..L |-> res[n][q.root]]
  BY <1>5 DEF RootRows, RowsAt
<1> HIDE DEF L, rows
<1>7. rows = [n \in 1..L |-> rows[n]] /\ \A n \in 1..L : rows[n] = res[n][q.root]
  BY <1>6
<1>8. IsList(rows) /\ DOMAIN rows = 1..L
  BY <1>5, <1>7, MadeOf
<1>9. \A x : x \in ToSet(rows) <=> x \in V
  <2>1. \A x : RootRow(q, x)[q.root] = x
    BY DEF RootRow
  <2>2. ASSUME NEW n \in 1..L PROVE rows[n] \in V
    <3>1. res[n] \in ToSet(res)
      BY <1>5 DEF ToSet
    <3>2. PICK r \in V : res[n] = RootRow(q, r)
      BY <1>1, <1>3, <3>1, AllVisible DEF V
    <3> QED BY <1>7, <2>1, <3>2
  <2>3. ASSUME NEW x \in V PROVE \E n \in 1..L : rows[n] = x
    <3>1. RootRow(q, x) \in ToSet(res)
      BY <1>1, <1>3, AllVisible DEF V
    <3>2. PICK n \in 1..L : res[n] = RootRow(q, x)
      BY <1>5, <3>1 DEF ToSet
    <3> QED BY <1>7, <2>1, <3>2
  <2> QED BY <1>8, <2>2, <2>3 DEF ToSet
<1>10. Hole \notin V
  BY <1>1 DEF V, Visibles, NoHole
<1>11. \A m, n \in 1..L : rows[m].id = rows[n].id => m = n
  BY <1>4, <1>5, <1>7 DEF RootListing
<1>12. IsList(<<>>) /\ NoTwice(<<>>) /\ DOMAIN <<>> = {}
  <2>1. <<>> \in Seq({}) /\ DOMAIN <<>> = {}
    OBVIOUS
  <2> QED BY <2>1, ListIn DEF NoTwice
<1>13. ViewOK(v)
  BY <1>2, <1>8, <1>11, <1>12, ViewMade
<1>14. Holding(v) = V
  BY <1>2, <1>9, <1>10 DEF Holding
<1>15. ViewRows(v) = rows
  <2> DEFINE E == ToSet(rows)
             C == ToSet(rows) \ {Hole}
  <2>1. rows \in Seq(E) /\ ToSet(rows) \subseteq C
    BY <1>8, <1>9, <1>10 DEF IsList
  <2> HIDE DEF E, C
  <2>2. Picked(rows, C) = rows
    BY <2>1, PickedAll
  <2> QED BY <1>2, <2>2 DEF ViewRows, C
<1>16. \A n \in 1..L : res[n] = RootRow(q, rows[n])
  BY <1>4, <1>5, <1>7 DEF RootListing
<1>17. res = [n \in DOMAIN ViewRows(v) |-> RootRow(q, ViewRows(v)[n])]
  BY <1>5, <1>8, <1>15, <1>16
<1>18. BehindBy(Holding(v), Seen(q, queue[q.root]), V)
  BY <1>14 DEF BehindBy
<1> QED BY <1>13, <1>17, <1>18 DEF ViewKept, res, v, V

LEMMA AppliedNothing == ASSUME NEW v PROVE Applied(v, <<>>) = v
<1>1. Len(<<>>) = 0
  OBVIOUS
<1>2. PICK f : AppliedRun(f, v, <<>>) /\ Applied(v, <<>>) = f[Len(<<>>)]
  BY <1>1, AppliedRunExists
<1> QED BY <1>1, <1>2 DEF AppliedRun

LEMMA ViewAfterTable == \A s, t : OnTableChange(s, t).view = Applied(s.view, Output(t))
<1> SUFFICES ASSUME NEW s, NEW t, NEW out, NEW v PROVE OutputApplied(s, t, out, v).view = v
  BY DEF OnTableChange
<1> QED BY DEF OutputApplied

\* Only the root table's deltas change the view.
LEMMA FlushedView ==
  ASSUME Typed, NEW order, order \in SetToSeqs(Changed), IsFiniteSet(Changed)
  PROVE  AfterTables(order).view = IF q.root \in Changed THEN Applied(view, Output(q.root)) ELSE view
<1> DEFINE N == Len(order)
           V == Applied(view, Output(q.root))
           Met(n) == \E m \in 1..n : order[m] = q.root
           Is(f, n) == f[n].view = IF Met(n) THEN V ELSE view
<1>1. /\ N \in Nat /\ order \in [1..N -> Changed] /\ ToSet(order) = Changed
      /\ \A m, n \in 1..N : m # n => order[m] # order[n]
  BY AllInTurn
<1>2. PICK f : AfterRun(f, order) /\ AfterTables(order) = f[N]
  BY <1>1, AfterRunExists
<1>3. \A n \in 0..N : f[n] = IF n = 0 THEN [view |-> view, obs |-> obs] ELSE OnTableChange(f[n - 1], order[n])
  BY <1>2 DEF AfterRun
<1> HIDE DEF N, V
<1> DEFINE P == {n \in 0..N : Is(f, n)}
<1>4. 0 \in P
  <2>1. 0 \in 0..N /\ f[0].view = view /\ ~Met(0)
    BY <1>1, <1>3
  <2> QED BY <2>1
<1>5. ASSUME NEW n \in 1..N, n - 1 \in P PROVE n \in P
  <2>1. n \in 0..N /\ n # 0 /\ n \in 1..n /\ \A m \in 1..n : m = n \/ m \in 1..(n - 1)
    BY <1>1
  <2>2. f[n].view = Applied(f[n - 1].view, Output(order[n]))
    <3>1. f[n] = OnTableChange(f[n - 1], order[n])
      BY <1>3, <2>1
    <3> QED BY <3>1, ViewAfterTable
  <2>3. f[n - 1].view = IF Met(n - 1) THEN V ELSE view
    BY <1>5
  <2>4. CASE order[n] = q.root
    <3>1. ~Met(n - 1) /\ Met(n)
      BY <1>1, <2>1, <2>4
    <3> QED BY <2>1, <2>2, <2>3, <2>4, <3>1 DEF V
  <2>5. CASE order[n] # q.root
    <3>1. f[n].view = f[n - 1].view
      BY <2>2, <2>5, AppliedNothing DEF Output
    <3>2. Met(n) <=> Met(n - 1)
      BY <1>1, <2>1, <2>5
    <3> QED BY <2>1, <2>3, <3>1, <3>2
  <2> QED BY <2>4, <2>5
<1> HIDE DEF P
<1>6. 0..N \subseteq P
  BY <1>1, <1>4, <1>5, StepByStep
<1>7. N \in P
  BY <1>1, <1>6
<1>8. Met(N) <=> q.root \in Changed
  BY <1>1 DEF ToSet, N
<1> QED BY <1>2, <1>7, <1>8 DEF P, V

LEMMA DeltaFlushed ==
  ASSUME Typed, Typed', NoHole, DeltaInv, scenario.api = "delta", IsFiniteSet(Changed), q' = q, DeltaFlush
  PROVE  /\ DOMAIN queue' = DOMAIN db'
         /\ QueueKept(queue'[q.root], db', ids'[q.root])
         /\ ViewKept(view', queue'[q.root], db', result')
<1> DEFINE s == queue[q.root]
           out == Seen(q, s)
           V == Visibles(db, q)
<1>1. q.root \in DOMAIN db /\ db' = db
  BY TypedFacts DEF DeltaFlush, Drain
<1>2. QueueKept(s, db, ids[q.root]) /\ ViewKept(view, s, db, result)
  BY DEF DeltaInv, DeltaFlush
<1>3. PICK order \in SetToSeqs(Changed) :
        /\ view' = AfterTables(order).view
        /\ result' = [n \in DOMAIN ViewRows(AfterTables(order).view) |-> RootRow(q, ViewRows(AfterTables(order).view)[n])]
  BY DEF DeltaFlush
<1>4. Output(q.root) = out
  BY DEF Output, Seen
<1>5. AfterTables(order).view = IF q.root \in Changed THEN Applied(view, out) ELSE view
  BY <1>4, FlushedView
<1>6. IsDeltas(out) /\ LeadTo(out, V) /\ BehindBy(Holding(view), out, V) /\ ViewOK(view)
  BY <1>2, SeenFacts DEF QueueKept, ViewKept
<1>7. queue' = [t \in DOMAIN db |-> <<>>]
  BY DEF DeltaFlush
<1> HIDE DEF out, V
<1>8. ViewOK(view') /\ Holding(view') = V
  <2>1. CASE q.root \in Changed
    BY <1>3, <1>5, <1>6, <2>1, AppliedCurrent
  <2>2. CASE q.root \notin Changed
    <3>1. ids[q.root] = {}
      BY <1>1, <2>2 DEF Changed
    <3>2. ToSet(s) = {}
      BY <1>2, <3>1 DEF QueueKept
    <3>3. ToSet(out) = {}
      BY <1>2, <3>2, SeenFacts DEF QueueKept, out
    <3>4. DOMAIN out = {}
      BY <3>3 DEF ToSet
    <3>5. Holding(view) = V
      BY <1>6, <3>4 DEF BehindBy
    <3> QED BY <1>3, <1>5, <1>6, <2>2, <3>5
  <2> QED BY <2>1, <2>2
<1> DEFINE new == queue'[q.root]
<1>9. new = <<>>
  BY <1>1, <1>7
<1>10. IsDeltas(new) /\ ToSet(new) = {}
  <2>1. <<>> \in Seq({}) /\ DOMAIN <<>> = {}
    OBVIOUS
  <2>2. IsList(<<>>)
    BY <2>1, ListIn
  <2> QED BY <1>9, <2>1, <2>2 DEF IsDeltas, ToSet
<1> HIDE DEF new
<1>11. ToSet(Seen(q, new)) = {}
  BY <1>10, SeenFacts
<1>12. DOMAIN Seen(q, new) = {}
  BY <1>11 DEF ToSet
<1>13. QueueKept(new, db, ids'[q.root])
  BY <1>10, <1>12 DEF QueueKept, LeadTo
<1>15. result' = [n \in DOMAIN ViewRows(view') |-> RootRow(q, ViewRows(view')[n])]
  BY <1>3
<1>16. BehindBy(Holding(view'), Seen(q, new), V)
  BY <1>8 DEF BehindBy
<1>17. ViewKept(view', new, db, result')
  BY <1>8, <1>15, <1>16 DEF ViewKept, V
<1> QED BY <1>1, <1>7, <1>13, <1>17 DEF new


LEMMA DeltaInit == GraphqlInit => DeltaInv
<1> SUFFICES ASSUME GraphqlInit, scenario.api = "delta" PROVE DeltaInv
  BY DEF DeltaInv
<1>1. Typed /\ stage = "none" /\ queue = [t \in DOMAIN db |-> <<>>]
  BY InitInv DEF GraphqlInit, Inv
<1>2. q.root \in DOMAIN db
  BY <1>1, TypedFacts
<1> DEFINE s == queue[q.root]
<1>3. s = <<>>
  BY <1>1, <1>2
<1>4. IsDeltas(s) /\ ToSet(s) = {}
  <2>1. <<>> \in Seq({}) /\ DOMAIN <<>> = {}
    OBVIOUS
  <2>2. IsList(<<>>)
    BY <2>1, ListIn
  <2> QED BY <1>3, <2>1, <2>2 DEF IsDeltas, ToSet
<1> HIDE DEF s
<1>5. ToSet(Seen(q, s)) = {}
  BY <1>4, SeenFacts
<1>6. DOMAIN Seen(q, s) = {}
  BY <1>5 DEF ToSet
<1>7. QueueKept(s, db, ids[q.root])
  BY <1>4, <1>6 DEF QueueKept, LeadTo
<1> QED BY <1>1, <1>7 DEF DeltaInv, s

LEMMA DeltaStep ==
  ASSUME CacheInv, IsFiniteSet(Changed), NoHole, DeltaInv, [GraphqlNext]_<<vars, gvars>>
  PROVE  (NoHole /\ DeltaInv)'
<1>1. Typed
  BY DEF CacheInv
<1>2. scenario' = scenario /\ q' = q /\ Typed'
  BY <1>1, GraphqlTyped DEF GraphqlNext, GraphqlStatement, Statement, Insert, Update, Delete, Write, RowsNext, Observe, Create, PatchRefresh,
         WindowRefresh, SubsetRefresh, Unaffected, Requery, Flush, Drain, Subscribe, Unsubscribe, SnapshotFlush,
         DeltaFlush, vars
<1>3. NoHole'
  BY <1>1, NoHoleStep
<1>4. CASE scenario.api # "delta"
  BY <1>2, <1>3, <1>4 DEF DeltaInv
<1>5. CASE scenario.api = "delta"
  <2>1. CASE GraphqlStatement
    <3>1. /\ DOMAIN queue' = DOMAIN db'
          /\ QueueKept(queue'[q.root], db', ids'[q.root])
          /\ stage # "none" => ViewKept(view, queue'[q.root], db', result')
      BY <1>1, <1>2, <1>3, <1>5, <2>1, DeltaStatement
    <3>2. stage' = stage /\ view' = view
      BY <2>1 DEF GraphqlStatement
    <3> QED BY <1>2, <1>3, <3>1, <3>2 DEF DeltaInv, QueueKept, ViewKept
  <2>2. CASE Create
    <3>1. ViewKept(view', queue[q.root], db, result')
      BY <1>1, <1>5, <2>2, DeltaCreate
    <3>2. db' = db /\ ids' = ids /\ queue' = queue
      BY <2>2 DEF Create, tables
    <3>3. DOMAIN queue = DOMAIN db /\ QueueKept(queue[q.root], db, ids[q.root])
      BY <1>5 DEF DeltaInv
    <3> QED BY <1>2, <1>3, <3>1, <3>2, <3>3 DEF DeltaInv, QueueKept, ViewKept
  <2>3. CASE Subscribe \/ Unsubscribe \/ UNCHANGED <<vars, gvars>>
    <3>1. /\ db' = db /\ ids' = ids /\ result' = result /\ view' = view /\ queue' = queue
          /\ (stage' # "none" => stage # "none")
      BY <2>3 DEF Subscribe, Unsubscribe, vars, gvars
    <3> QED BY <1>2, <1>3, <1>5, <3>1 DEF DeltaInv, QueueKept, ViewKept
  <2>4. CASE DeltaFlush
    <3>1. /\ DOMAIN queue' = DOMAIN db'
          /\ QueueKept(queue'[q.root], db', ids'[q.root])
          /\ ViewKept(view', queue'[q.root], db', result')
      BY <1>1, <1>2, <1>5, <2>4, DeltaFlushed
    <3> QED BY <1>2, <1>3, <3>1 DEF DeltaInv, QueueKept, ViewKept
  <2> QED BY <1>5, <2>1, <2>2, <2>3, <2>4 DEF GraphqlNext, RowsNext, SnapshotFlush
<1> QED BY <1>4, <1>5

LEMMA ChangedAlways == GraphqlSpec => []IsFiniteSet(Changed)
<1>1. GraphqlInit => CacheInv /\ IsFiniteSet(Changed)
  <2> SUFFICES ASSUME GraphqlInit PROVE IsFiniteSet(Changed)
    BY CacheInit
  <2>1. Changed = {}
    BY DEF GraphqlInit, Init, None, Changed
  <2> QED BY <2>1, FS_EmptySet
<1>2. CacheInv /\ IsFiniteSet(Changed) /\ [GraphqlNext]_<<vars, gvars>> => (IsFiniteSet(Changed))'
  BY ChangedFinite DEF CacheInv
<1> QED BY <1>1, <1>2, CacheAlways, PTL DEF GraphqlSpec

(* Whatever deltas wait for a flush of the delta lane, applying them leads  *)
(* from the rows of its view to the visible rows of the root table; a row   *)
(* that none of them is about is in both or in neither.  The slots that     *)
(* are marked free are empty ones, each marked once, and no id has two      *)
(* slots (graphql_observable.rs on_table_change_inner, materialize.rs       *)
(* VisibleResultStore).                                                     *)
THEOREM DeltaAlways == GraphqlSpec => [](NoHole /\ DeltaInv)
<1>1. GraphqlInit => NoHole /\ DeltaInv
  BY NoHoleInit, DeltaInit
<1>2. CacheInv /\ IsFiniteSet(Changed) /\ NoHole /\ DeltaInv /\ [GraphqlNext]_<<vars, gvars>> => (NoHole /\ DeltaInv)'
  BY DeltaStep
<1> QED BY <1>1, <1>2, ChangedAlways, CacheAlways, PTL DEF GraphqlSpec

-----------------------------------------------------------------------------
(* The root rows a subscriber has once nothing waits.                       *)
LEMMA SnapshotSettled ==
  ASSUME CacheInv, SnapshotInv, scenario.api = "snapshot", stage # "none", ~Pending,
         "regrouped" \notin obs.slips, "misplaced" \notin obs.slips
  PROVE  IF q.ordered THEN result = Answer(db, q) ELSE ToBag(result) = ToBag(Answer(db, q))
<1>1. Typed
  BY DEF CacheInv
<1>2. IsQuery(q) /\ IsDatabase(db, q) /\ Tables(q) \subseteq DOMAIN db
  BY <1>1, TypedFacts
<1>3. PICK d : RootsSince(d)
  BY DEF SnapshotInv
<1>4. IsDatabase(d, q) /\ Covered(d, db, q, ids, deltas) /\ RootsKept(d, q, result, runtime, obs.slips)
  BY <1>3 DEF RootsSince
<1>5. \A t \in Tables(q) : ids[t] = {}
  BY <1>2 DEF Pending, Changed
<1>6. Alike(d, db, q)
  <2>1. \A t \in Tables(q) : d[t] = db[t]
    BY <1>4, <1>5 DEF Covered
  <2> QED BY <1>2, <1>4, <2>1, SameTables
<1>7. Answer(d, q) = Answer(db, q) /\ WholeSet(d, q) = WholeSet(db, q)
  BY <1>2, <1>4, <1>6, AlikeFacts DEF Alike
<1>8. CASE ~ShowsAll(q)
  BY <1>4, <1>7, <1>8 DEF RootsKept
<1>9. CASE ShowsAll(q)
  <2>1. result \in Seq(WholeSet(db, q)) /\ NoTwice(result) /\ ToSet(result) = WholeSet(db, q)
    BY <1>4, <1>7, <1>9 DEF RootsKept
  <2> DEFINE W == WholeSet(db, q)
             a == Answer(db, q)
  <2>2. a \in Seq(W) /\ NoTwice(a) /\ ToSet(a) = W
    BY <1>2, <1>9, AnswerOfAll
  <2>3. result \in Seq(W) /\ ToSet(result) = ToSet(a)
    BY <2>1, <2>2
  <2> HIDE DEF W, a
  <2>4. ToBag(result) = ToBag(a)
    BY <2>1, <2>2, <2>3, SameBags
  <2> QED BY <1>9, <2>4 DEF ShowsAll, a
<1> QED BY <1>8, <1>9

LEMMA DeltaSettled ==
  ASSUME CacheInv, DeltaInv, scenario.api = "delta", stage # "none", ~Pending
  PROVE  ToBag(result) = ToBag(Answer(db, q)) /\ ~q.ordered
<1>1. Typed /\ q.root \in DOMAIN db
  BY TypedFacts DEF CacheInv
<1>2. IsQuery(q) /\ IsDatabase(db, q) /\ q.joins = <<>> /\ ShowsAll(q)
  <2>1. scenario \in Scenario
    BY <1>1 DEF Typed
  <2>2. ~q.ordered /\ q.limit = 0
    BY <2>1, NestedAssumption DEF q
  <2> QED BY <1>1, <2>2, TypedFacts, SelectsTables DEF ShowsAll
<1> DEFINE s == queue[q.root]
           V == Visibles(db, q)
           w == ViewRows(view)
           W == WholeSet(db, q)
           a == Answer(db, q)
<1>3. QueueKept(s, db, ids[q.root]) /\ ViewKept(view, s, db, result)
  BY DEF DeltaInv
<1>4. ids[q.root] = {}
  BY <1>1 DEF Pending, Changed
<1>5. IsDeltas(s) /\ ToSet(s) = {}
  BY <1>3, <1>4 DEF QueueKept
<1> HIDE DEF s
<1>6. ToSet(Seen(q, s)) = {}
  BY <1>5, SeenFacts
<1>7. DOMAIN Seen(q, s) = {}
  BY <1>6 DEF ToSet
<1>8. Holding(view) = V /\ ViewOK(view)
  BY <1>3, <1>7 DEF ViewKept, BehindBy
<1>9. /\ IsList(w) /\ ToSet(w) = V
      /\ \A m, n \in DOMAIN w : w[m].id = w[n].id => m = n
  BY <1>8, ViewRowsFacts
<1>10. result = [n \in DOMAIN w |-> RootRow(q, w[n])]
  BY <1>3 DEF ViewKept
<1>11. W = {RootRow(q, r) : r \in V}
  BY <1>1, <1>2, AllVisible
<1>12. a \in Seq(W) /\ NoTwice(a) /\ ToSet(a) = W
  BY <1>2, AnswerOfAll
<1> HIDE DEF V, w, W, a
<1> DEFINE L == Len(w)
<1>13. L \in Nat /\ DOMAIN w = 1..L /\ \A n \in 1..L : w[n] \in V
  BY <1>9, IsListFacts
<1> HIDE DEF L
<1>14. result = [n \in 1..L |-> RootRow(q, w[n])]
  BY <1>10, <1>13
<1>15. \A x : RootRow(q, x)[q.root] = x
  BY DEF RootRow
<1>16. result \in Seq(W) /\ DOMAIN result = 1..L
  BY <1>11, <1>13, <1>14
<1>17. NoTwice(result)
  <2>1. ASSUME NEW m \in 1..L, NEW n \in 1..L, result[m] = result[n] PROVE m = n
    BY <1>9, <1>13, <1>14, <1>15, <2>1
  <2> QED BY <1>16, <2>1 DEF NoTwice
<1>18. ToSet(result) = W
  <2>1. \A y : y \in ToSet(result) <=> \E n \in 1..L : y = result[n]
    BY <1>16 DEF ToSet
  <2>2. \A x : x \in V <=> \E n \in 1..L : x = w[n]
    BY <1>9, <1>13 DEF ToSet
  <2>3. \A y : y \in ToSet(result) <=> y \in W
    BY <1>11, <1>14, <2>1, <2>2
  <2> QED BY <2>3
<1>19. ToBag(result) = ToBag(a)
  BY <1>12, <1>16, <1>17, <1>18, SameBags
<1> QED BY <1>2, <1>19 DEF a, ShowsAll

(* Once nothing is queued, a subscriber's root rows are those of the query, *)
(* whichever lane refreshed them and however often, unless a runtime that a *)
(* patch left behind was regrouped or a row id was searched in a list that  *)
(* is not in that order (graphql_observable.rs on_change_inner,             *)
(* on_table_change_inner; live_runtime.rs flush).                           *)
THEOREM RootsAlwaysCurrent == GraphqlSpec => []RootsCurrent
<1>1. CacheInv /\ SnapshotInv /\ DeltaInv => RootsCurrent
  <2> SUFFICES ASSUME CacheInv, SnapshotInv, DeltaInv, stage = "listening", ~Pending,
                      obs.slips \cap {"regrouped", "misplaced"} = {}
               PROVE  IF q.ordered THEN result = Answer(db, q) ELSE ToBag(result) = ToBag(Answer(db, q))
    BY DEF RootsCurrent, Settled
  <2>1. scenario \in Scenario /\ scenario.api # "rows"
    BY DEF CacheInv, Typed
  <2>2. scenario.api \in {"snapshot", "delta"}
    BY <2>1, ScenarioAssumption
  <2>3. "regrouped" \notin obs.slips /\ "misplaced" \notin obs.slips
    OBVIOUS
  <2>4. CASE scenario.api = "snapshot"
    BY <2>3, <2>4, SnapshotSettled
  <2>5. CASE scenario.api = "delta"
    BY <2>5, DeltaSettled
  <2> QED BY <2>2, <2>4, <2>5
<1> QED BY <1>1, CacheAlways, SnapshotAlways, DeltaAlways, PTL

-----------------------------------------------------------------------------
(* Slots that are emptied and filled again: free is a stack, and what is    *)
(* freed last is filled first.                                              *)
DeltaIds(out) == {out[n].row.id : n \in DOMAIN out}

\* Every row that deltas are about goes once and comes back once.
Turns(out) ==
  /\ \A m \in DOMAIN out : out[m].d \in {-1, 1}
  /\ \A m, k \in DOMAIN out : out[m].row.id = out[k].row.id /\ out[m].d = out[k].d => m = k
  /\ \A m \in DOMAIN out : out[m].d = 1 => \E k \in 1..(m - 1) : out[k].row.id = out[m].row.id /\ out[k].d = -1
  /\ \A m \in DOMAIN out : out[m].d = -1 => \E k \in DOMAIN out : out[k].row.id = out[m].row.id /\ out[k].d = 1

\* Those that have gone, and not come back, among the first n.
Away(out, n) ==
  {i \in DeltaIds(out) : /\ \E m \in 1..n : out[m].row.id = i
                         /\ \A k \in 1..n : out[k].row.id = i => out[k].d = -1}

LEMMA AwayNext ==
  ASSUME NEW out, IsList(out), Turns(out), NEW n \in 1..Len(out)
  PROVE  /\ out[n].row.id \in DeltaIds(out)
         /\ out[n].d = -1 => out[n].row.id \notin Away(out, n - 1) /\ Away(out, n) = Away(out, n - 1) \cup {out[n].row.id}
         /\ out[n].d = 1 => out[n].row.id \in Away(out, n - 1) /\ Away(out, n) = Away(out, n - 1) \ {out[n].row.id}
<1> DEFINE i == out[n].row.id
           D == DeltaIds(out)
<1>1. Len(out) \in Nat /\ DOMAIN out = 1..Len(out) /\ n \in Nat /\ n >= 1
  BY IsListFacts
<1>2. i \in D
  BY <1>1 DEF DeltaIds
<1>3. \A m \in 1..n : m = n \/ m \in 1..(n - 1)
  BY <1>1
<1>4. \A m \in 1..(n - 1) : m \in 1..n /\ m \in DOMAIN out /\ m # n /\ ~(n \in 1..(m - 1))
  BY <1>1
<1>5. n \in 1..n /\ n \in DOMAIN out
  BY <1>1
<1>6. \A j : j \in Away(out, n) <=> j \in D /\ (\E m \in 1..n : out[m].row.id = j) /\ \A k \in 1..n : out[k].row.id = j => out[k].d = -1
  BY DEF Away
<1>7. \A j : j \in Away(out, n - 1) <=> j \in D /\ (\E m \in 1..(n - 1) : out[m].row.id = j) /\ \A k \in 1..(n - 1) : out[k].row.id = j => out[k].d = -1
  BY DEF Away
<1>8. ASSUME NEW j, j # i PROVE j \in Away(out, n) <=> j \in Away(out, n - 1)
  <2>1. (\E m \in 1..n : out[m].row.id = j) <=> (\E m \in 1..(n - 1) : out[m].row.id = j)
    BY <1>3, <1>4, <1>8
  <2>2. (\A k \in 1..n : out[k].row.id = j => out[k].d = -1) <=> (\A k \in 1..(n - 1) : out[k].row.id = j => out[k].d = -1)
    BY <1>3, <1>4, <1>8
  <2> QED BY <1>6, <1>7, <2>1, <2>2
<1>9. CASE out[n].d = -1
  <2>1. ASSUME NEW k \in 1..(n - 1), out[k].row.id = i PROVE FALSE
    <3>1. k \in DOMAIN out /\ k # n /\ ~(n \in 1..(k - 1))
      BY <1>4
    <3>2. out[k].d = 1
      BY <1>5, <1>9, <2>1, <3>1 DEF Turns
    <3>3. PICK m \in 1..(k - 1) : out[m].row.id = i /\ out[m].d = -1
      BY <2>1, <3>1, <3>2 DEF Turns
    <3>4. m \in DOMAIN out
      BY <1>1, <3>1
    <3>5. m = n
      BY <1>5, <1>9, <3>3, <3>4 DEF Turns
    <3> QED BY <3>1, <3>5
  <2>2. i \notin Away(out, n - 1)
    BY <1>7, <2>1
  <2>3. i \in Away(out, n)
    BY <1>2, <1>3, <1>5, <1>6, <1>9, <2>1
  <2>4. Away(out, n) = Away(out, n - 1) \cup {i}
    BY <1>8, <2>3
  <2> QED BY <1>2, <1>9, <2>2, <2>4
<1>10. CASE out[n].d = 1
  <2>1. PICK k \in 1..(n - 1) : out[k].row.id = i /\ out[k].d = -1
    BY <1>5, <1>10 DEF Turns
  <2>2. ASSUME NEW m \in 1..(n - 1), out[m].row.id = i PROVE out[m].d = -1
    <3>1. m \in DOMAIN out /\ m # n
      BY <1>4
    <3> QED BY <1>5, <1>10, <2>2, <3>1 DEF Turns
  <2>3. i \in Away(out, n - 1)
    BY <1>2, <1>7, <2>1, <2>2
  <2>4. i \notin Away(out, n)
    BY <1>5, <1>6, <1>10
  <2>5. Away(out, n) = Away(out, n - 1) \ {i}
    BY <1>8, <2>4
  <2> QED BY <1>2, <1>10, <2>3, <2>5
<1>11. out[n].d = -1 \/ out[n].d = 1
  BY <1>5 DEF Turns
<1> QED BY <1>9, <1>10, <1>11

LEMMA AwayEnds ==
  ASSUME NEW out, IsList(out), Turns(out)
  PROVE  Away(out, 0) = {} /\ Away(out, Len(out)) = {}
<1>1. Len(out) \in Nat /\ DOMAIN out = 1..Len(out) /\ 1..0 = {}
  BY IsListFacts
<1>2. Away(out, 0) = {}
  BY <1>1 DEF Away
<1>3. ASSUME NEW i \in Away(out, Len(out)) PROVE FALSE
  <2>1. PICK m \in 1..Len(out) : out[m].row.id = i
    BY <1>3 DEF Away
  <2>2. \A k \in 1..Len(out) : out[k].row.id = i => out[k].d = -1
    BY <1>3 DEF Away
  <2>3. PICK k \in DOMAIN out : out[k].row.id = i /\ out[k].d = 1
    BY <1>1, <2>1, <2>2 DEF Turns
  <2>4. out[k].d = -1
    BY <1>1, <2>2, <2>3
  <2> QED BY <2>3, <2>4
<1> QED BY <1>2, <1>3

\* From v on only slots in S, of rows with ids in D, have changed; those of A are empty.
SlotsKept(v, S, D, w, A) ==
  /\ ViewOK(w) /\ DOMAIN w.slots = DOMAIN v.slots
  /\ \A n \in DOMAIN v.slots : n \notin S => w.slots[n] = v.slots[n]
  /\ \A n \in S : w.slots[n] = Hole => \E m \in (Len(v.free) + 1)..Len(w.free) : w.free[m] = n
  /\ \A m \in (Len(v.free) + 1)..Len(w.free) : w.free[m] \in S
  /\ IsFiniteSet(A) /\ Len(w.free) = Len(v.free) + Cardinality(A)
  /\ \A i \in A : \A n \in DOMAIN v.slots : w.slots[n] # Hole => w.slots[n].id # i
  /\ \A i \in D : i \notin A => \E n \in S : w.slots[n] # Hole /\ w.slots[n].id = i

LEMMA RemovedSlot ==
  ASSUME NEW v, ViewOK(v), NEW i, NEW k \in DOMAIN v.slots, v.slots[k] # Hole, v.slots[k].id = i
  PROVE  /\ Removed(v, i).slots = [n \in DOMAIN v.slots |-> IF n = k THEN Hole ELSE v.slots[n]]
         /\ Removed(v, i).free = Append(v.free, k)
<1> DEFINE s == v.slots
           f == v.free
           At0 == SlotsOf(v, i)
           c == CHOOSE n \in At0 : TRUE
<1>1. /\ v = [slots |-> s, free |-> f] /\ s = [n \in DOMAIN s |-> s[n]]
      /\ \A m, n \in DOMAIN s : s[m] # Hole /\ s[n] # Hole /\ s[m].id = s[n].id => m = n
  BY IsListFacts DEF ViewOK
<1>2. At0 = {k}
  BY <1>1 DEF SlotsOf
<1>3. c = k
  BY <1>2
<1>4. Removed(v, i) = [slots |-> [s EXCEPT ![c] = Hole], free |-> Append(f, c)]
  BY <1>2 DEF Removed
<1> HIDE DEF c
<1>5. Removed(v, i) = [slots |-> [s EXCEPT ![k] = Hole], free |-> Append(f, k)]
  BY <1>3, <1>4
<1>6. [s EXCEPT ![k] = Hole] = [n \in DOMAIN s |-> IF n = k THEN Hole ELSE s[n]]
  BY <1>1
<1> QED BY <1>5, <1>6

LEMMA UpsertedSlot ==
  ASSUME NEW v, ViewOK(v), NEW r, \A n \in DOMAIN v.slots : v.slots[n] # Hole => v.slots[n].id # r.id, v.free # <<>>
  PROVE  /\ Upserted(v, r).slots = [n \in DOMAIN v.slots |-> IF n = v.free[Len(v.free)] THEN r ELSE v.slots[n]]
         /\ Upserted(v, r).free = Front(v.free)
<1> DEFINE s == v.slots
           f == v.free
           k == f[Len(f)]
<1>1. /\ v = [slots |-> s, free |-> f] /\ s = [n \in DOMAIN s |-> s[n]]
  BY IsListFacts DEF ViewOK
<1>2. SlotsOf(v, r.id) = {}
  BY DEF SlotsOf
<1>3. Upserted(v, r) = [slots |-> [s EXCEPT ![k] = r], free |-> Front(f)]
  BY <1>2 DEF Upserted, Last
<1>4. [s EXCEPT ![k] = r] = [n \in DOMAIN s |-> IF n = k THEN r ELSE s[n]]
  BY <1>1
<1> QED BY <1>3, <1>4

LEMMA GoneKept ==
  ASSUME NEW v, ViewOK(v), NEW S, S \subseteq DOMAIN v.slots, NEW D, NEW w, NEW A, SlotsKept(v, S, D, w, A),
         NEW r, r.id \in D, r.id \notin A
  PROVE  SlotsKept(v, S, D, Removed(w, r.id), A \cup {r.id})
<1> DEFINE i == r.id
           L == Len(v.free)
           M == Len(w.free)
           s == w.slots
           f == w.free
           x == Removed(w, i)
           B == A \cup {i}
<1>1. PICK k \in S : s[k] # Hole /\ s[k].id = i
  BY DEF SlotsKept
<1>2. k \in DOMAIN s /\ DOMAIN s = DOMAIN v.slots /\ ViewOK(w)
  BY <1>1 DEF SlotsKept
<1>3. x.slots = [n \in DOMAIN s |-> IF n = k THEN Hole ELSE s[n]] /\ x.free = Append(f, k)
  BY <1>1, <1>2, RemovedSlot
<1>4. ViewOK(x)
  BY <1>2, RemovedFacts
<1> HIDE DEF x
<1>5. /\ M \in Nat /\ L \in Nat /\ Len(x.free) = M + 1 /\ x.free[M + 1] = k /\ \A n \in 1..M : x.free[n] = f[n]
  <2>1. f \in Seq(ToSet(f)) /\ L \in Nat
    BY <1>2, IsListFacts DEF ViewOK, IsList
  <2> DEFINE E == ToSet(f) \cup {k}
  <2>2. f \in Seq(E) /\ k \in E
    BY <2>1
  <2> QED BY <1>3, <2>1, <2>2
<1>6. /\ IsFiniteSet(B) /\ Cardinality(B) = Cardinality(A) + 1 /\ IsFiniteSet(A) /\ Cardinality(A) \in Nat
      /\ M = L + Cardinality(A)
  BY FS_AddElement, FS_CardinalityType DEF SlotsKept
<1>7. \A m, n \in DOMAIN s : s[m] # Hole /\ s[n] # Hole /\ s[m].id = s[n].id => m = n
  BY <1>2 DEF ViewOK
<1>8. DOMAIN x.slots = DOMAIN s /\ \A n \in DOMAIN s : x.slots[n] = IF n = k THEN Hole ELSE s[n]
  BY <1>3
<1>9. \A n \in DOMAIN v.slots : n \notin S => x.slots[n] = v.slots[n]
  BY <1>1, <1>2, <1>8 DEF SlotsKept
<1>10. ASSUME NEW n \in S, x.slots[n] = Hole PROVE \E m \in (L + 1)..(M + 1) : x.free[m] = n
  <2>1. CASE n = k
    <3>1. M + 1 \in (L + 1)..(M + 1)
      BY <1>5, <1>6
    <3> QED BY <1>5, <2>1, <3>1
  <2>2. CASE n # k
    <3>1. s[n] = Hole
      BY <1>2, <1>8, <1>10, <2>2
    <3>2. PICK m \in (L + 1)..M : f[m] = n
      BY <3>1 DEF SlotsKept
    <3>3. m \in 1..M /\ m \in (L + 1)..(M + 1)
      BY <1>5
    <3> QED BY <1>5, <3>2, <3>3
  <2> QED BY <2>1, <2>2
<1>11. ASSUME NEW m \in (L + 1)..(M + 1) PROVE x.free[m] \in S
  <2>1. m = M + 1 \/ (m \in (L + 1)..M /\ m \in 1..M)
    BY <1>5
  <2> QED BY <1>1, <1>5, <2>1 DEF SlotsKept
<1>12. ASSUME NEW j \in B, NEW n \in DOMAIN v.slots, x.slots[n] # Hole PROVE x.slots[n].id # j
  <2>1. n # k /\ x.slots[n] = s[n]
    BY <1>2, <1>8, <1>12
  <2>2. CASE j = i
    BY <1>1, <1>2, <1>7, <1>12, <2>1, <2>2
  <2>3. CASE j \in A
    BY <1>12, <2>1, <2>3 DEF SlotsKept
  <2> QED BY <2>2, <2>3
<1>13. ASSUME NEW j \in D, j \notin B PROVE \E n \in S : x.slots[n] # Hole /\ x.slots[n].id = j
  <2>1. PICK n \in S : s[n] # Hole /\ s[n].id = j
    BY <1>13 DEF SlotsKept
  <2>2. n # k
    BY <1>1, <1>13, <2>1
  <2> QED BY <1>2, <1>8, <2>1, <2>2
<1> HIDE DEF i, B, L, M, s, f
<1>14. SlotsKept(v, S, D, x, B)
  <2>1. Len(v.free) = L
    BY DEF L
  <2>2. Len(x.free) = L + Cardinality(B)
    BY <1>5, <1>6
  <2> QED BY <1>2, <1>4, <1>5, <1>6, <1>8, <1>9, <1>10, <1>11, <1>12, <1>13, <2>1, <2>2 DEF SlotsKept
<1> QED BY <1>14 DEF x, B, i

LEMMA BackKept ==
  ASSUME NEW v, ViewOK(v), NEW S, S \subseteq DOMAIN v.slots, NEW D, NEW w, NEW A, SlotsKept(v, S, D, w, A),
         NEW r, r # Hole, r.id \in A
  PROVE  SlotsKept(v, S, D, Upserted(w, r), A \ {r.id})
<1> DEFINE i == r.id
           L == Len(v.free)
           M == Len(w.free)
           s == w.slots
           f == w.free
           k == f[M]
           x == Upserted(w, r)
           B == A \ {i}
<1>1. /\ IsFiniteSet(A) /\ Cardinality(A) \in Nat /\ Cardinality(A) # 0 /\ M = L + Cardinality(A)
      /\ IsFiniteSet(B) /\ Cardinality(B) = Cardinality(A) - 1
  <2>1. IsFiniteSet(A) /\ M = L + Cardinality(A)
    BY DEF SlotsKept
  <2> QED BY <2>1, FS_RemoveElement, FS_CardinalityType, FS_EmptySet
<1>2. DOMAIN s = DOMAIN v.slots /\ ViewOK(w) /\ L \in Nat /\ M \in Nat /\ DOMAIN f = 1..M
  BY IsListFacts DEF SlotsKept, ViewOK
<1>3. f # <<>>
  <2>1. M > 0
    BY <1>1, <1>2
  <2> QED BY <2>1
<1>4. M \in (L + 1)..M /\ M \in DOMAIN f
  BY <1>1, <1>2
<1>5. k \in S /\ k \in DOMAIN s /\ s[k] = Hole
  BY <1>2, <1>4 DEF SlotsKept, ViewOK
<1>6. \A n \in DOMAIN s : s[n] # Hole => s[n].id # i
  BY <1>2 DEF SlotsKept
<1>7. x.slots = [n \in DOMAIN s |-> IF n = k THEN r ELSE s[n]] /\ x.free = Front(f)
  BY <1>2, <1>3, <1>6, UpsertedSlot
<1>8. ViewOK(x)
  BY <1>2, UpsertedFacts
<1> HIDE DEF x
<1>9. Len(x.free) = M - 1 /\ \A n \in 1..(M - 1) : x.free[n] = f[n]
  <2>1. IsList(Front(f)) /\ DOMAIN Front(f) = 1..(M - 1) /\ \A n \in 1..(M - 1) : Front(f)[n] = f[n]
    BY <1>2, <1>3, FrontFacts DEF ViewOK
  <2>2. Len(Front(f)) \in Nat /\ DOMAIN Front(f) = 1..Len(Front(f))
    BY <2>1, IsListFacts
  <2>3. M - 1 \in Nat
    BY <1>2, <1>4
  <2> QED BY <1>7, <2>1, <2>2, <2>3
<1>10. \A n \in 1..(M - 1) : n \in DOMAIN f /\ f[n] # k
  BY <1>2, <1>4 DEF ViewOK, NoTwice
<1>11. DOMAIN x.slots = DOMAIN s /\ \A n \in DOMAIN s : x.slots[n] = IF n = k THEN r ELSE s[n]
  BY <1>7
<1>12. \A n \in DOMAIN v.slots : n \notin S => x.slots[n] = v.slots[n]
  BY <1>2, <1>5, <1>11 DEF SlotsKept
<1> HIDE DEF k
<1>13. ASSUME NEW n \in S, x.slots[n] = Hole PROVE \E m \in (L + 1)..(M - 1) : x.free[m] = n
  <2>1. n # k /\ s[n] = Hole
    BY <1>2, <1>11, <1>13
  <2>2. PICK m \in (L + 1)..M : f[m] = n
    BY <2>1 DEF SlotsKept
  <2>3. m # M
    BY <2>1, <2>2 DEF k
  <2>4. m \in (L + 1)..(M - 1) /\ m \in 1..(M - 1)
    BY <1>2, <2>3
  <2> QED BY <1>9, <2>2, <2>4
<1>14. ASSUME NEW m \in (L + 1)..(M - 1) PROVE x.free[m] \in S
  <2>1. m \in (L + 1)..M /\ m \in 1..(M - 1)
    BY <1>2
  <2> QED BY <1>9, <2>1 DEF SlotsKept
<1>15. ASSUME NEW j \in B, NEW n \in DOMAIN v.slots, x.slots[n] # Hole PROVE x.slots[n].id # j
  <2>1. CASE n = k
    BY <1>2, <1>11, <2>1
  <2>2. CASE n # k
    BY <1>2, <1>11, <1>15, <2>2 DEF SlotsKept
  <2> QED BY <2>1, <2>2
<1>16. ASSUME NEW j \in D, j \notin B PROVE \E n \in S : x.slots[n] # Hole /\ x.slots[n].id = j
  <2>1. CASE j = i
    BY <1>5, <1>11, <2>1
  <2>2. CASE j # i
    <3>1. PICK n \in S : s[n] # Hole /\ s[n].id = j
      BY <1>16, <2>2 DEF SlotsKept
    <3> QED BY <1>2, <1>5, <1>11, <3>1
  <2> QED BY <2>1, <2>2
<1> HIDE DEF i, B, L, M, s, f
<1>17. SlotsKept(v, S, D, x, B)
  <2>1. Len(v.free) = L
    BY DEF L
  <2>2. Len(x.free) = L + Cardinality(B)
    BY <1>1, <1>2, <1>9
  <2> QED BY <1>1, <1>2, <1>8, <1>9, <1>11, <1>12, <1>13, <1>14, <1>15, <1>16, <2>1, <2>2 DEF SlotsKept
<1> QED BY <1>17 DEF x, B, i

LEMMA RunKept ==
  ASSUME NEW v, ViewOK(v), NEW out, IsDeltas(out), Turns(out),
         NEW S, S = {n \in DOMAIN v.slots : v.slots[n] # Hole /\ v.slots[n].id \in DeltaIds(out)},
         \A i \in DeltaIds(out) : \E n \in DOMAIN v.slots : v.slots[n] # Hole /\ v.slots[n].id = i
  PROVE  SlotsKept(v, S, DeltaIds(out), Applied(v, out), {})
<1> DEFINE N == Len(out)
           D == DeltaIds(out)
<1>1. N \in Nat /\ DOMAIN out = 1..N /\ IsList(out)
  BY IsListFacts DEF IsDeltas
<1>2. PICK f : AppliedRun(f, v, out) /\ Applied(v, out) = f[N]
  BY <1>1, AppliedRunExists
<1>3. /\ f[0] = v
      /\ \A n \in 1..N : n - 1 \in 0..N /\ f[n] = WithDelta(f[n - 1], out[n])
  <2>1. f = [n \in 0..N |-> IF n = 0 THEN v ELSE WithDelta(f[n - 1], out[n])]
    BY <1>2 DEF AppliedRun
  <2>2. 0 \in 0..N
    BY <1>1
  <2>3. f[0] = v
    BY <2>1, <2>2
  <2>4. ASSUME NEW n \in 1..N PROVE n - 1 \in 0..N /\ f[n] = WithDelta(f[n - 1], out[n])
    <3>1. n \in 0..N /\ n # 0 /\ n - 1 \in 0..N
      BY <1>1
    <3> QED BY <2>1, <3>1
  <2> QED BY <2>3, <2>4
<1>4. S \subseteq DOMAIN v.slots
  OBVIOUS
<1>5. \A i \in D : \E n \in S : v.slots[n] # Hole /\ v.slots[n].id = i
  OBVIOUS
<1>6. \A n \in S : v.slots[n] # Hole
  OBVIOUS
<1>10. \A n \in 1..N : /\ out[n].row.id \in D /\ out[n].d \in {-1, 1} /\ out[n].row # Hole
                       /\ out[n].d = -1 => out[n].row.id \notin Away(out, n - 1) /\ Away(out, n) = Away(out, n - 1) \cup {out[n].row.id}
                       /\ out[n].d = 1 => out[n].row.id \in Away(out, n - 1) /\ Away(out, n) = Away(out, n - 1) \ {out[n].row.id}
  <2>1. \A n \in 1..N : out[n].d \in {-1, 1} /\ out[n].row # Hole
    BY <1>1 DEF Turns, IsDeltas
  <2> QED BY <1>1, <2>1, AwayNext
<1>11. Away(out, 0) = {} /\ Away(out, N) = {}
  BY <1>1, AwayEnds
<1> DEFINE G(n) == SlotsKept(v, S, D, f[n], Away(out, n))
           P == {n \in 0..N : G(n)}
<1> HIDE DEF D, N
<1>7. 0 \in P
  <2>1. Len(v.free) \in Nat /\ IsFiniteSet({}) /\ Cardinality({}) = 0
    BY IsListFacts, FS_EmptySet DEF ViewOK
  <2>2. \A m : m \notin (Len(v.free) + 1)..Len(v.free)
    BY <2>1
  <2>3. SlotsKept(v, S, D, v, {})
    BY <1>5, <1>6, <2>1, <2>2 DEF SlotsKept
  <2>4. G(0)
    BY <1>3, <1>11, <2>3
  <2> QED BY <1>1, <2>4
<1>8. ASSUME NEW n \in 1..N, n - 1 \in P PROVE n \in P
  <2> DEFINE w == f[n - 1]
             A == Away(out, n - 1)
             B == Away(out, n)
             e == out[n]
             r == e.row
  <2>1. G(n - 1)
    BY <1>8
  <2>2. SlotsKept(v, S, D, w, A)
    BY <2>1
  <2>3. f[n] = WithDelta(w, e)
    BY <1>3
  <2>4. /\ r.id \in D /\ e.d \in {-1, 1} /\ r # Hole
        /\ e.d = -1 => r.id \notin A /\ B = A \cup {r.id}
        /\ e.d = 1 => r.id \in A /\ B = A \ {r.id}
    BY <1>10
  <2>5. SlotsKept(v, S, D, f[n], B)
    <3> HIDE DEF w, A, B, e
    <3>1. CASE e.d = -1
      <4>1. f[n] = Removed(w, r.id)
        BY <2>3, <3>1 DEF WithDelta
      <4> HIDE DEF r
      <4>2. SlotsKept(v, S, D, Removed(w, r.id), A \cup {r.id})
        BY <1>4, <2>2, <2>4, <3>1, GoneKept
      <4> QED BY <2>4, <3>1, <4>1, <4>2
    <3>2. CASE e.d = 1
      <4>1. f[n] = Upserted(w, r)
        BY <2>3, <3>2 DEF WithDelta
      <4> HIDE DEF r
      <4>2. SlotsKept(v, S, D, Upserted(w, r), A \ {r.id})
        BY <1>4, <2>2, <2>4, <3>2, BackKept
      <4> QED BY <2>4, <3>2, <4>1, <4>2
    <3> QED BY <2>4, <3>1, <3>2
  <2>6. G(n)
    BY <2>5
  <2>7. n \in 0..N
    BY <1>1
  <2> HIDE DEF G
  <2> QED BY <2>6, <2>7
<1> HIDE DEF P
<1>9. 0..N \subseteq P
  BY <1>1, <1>7, <1>8, StepByStep
<1>12. G(N)
  <2>1. N \in P
    BY <1>1, <1>9
  <2> HIDE DEF G
  <2> QED BY <2>1 DEF P
<1> QED BY <1>2, <1>11, <1>12 DEF D, N

\* Rows are picked from the same places when the same slots are empty.
LEMMA SamePlaces ==
  ASSUME NEW s, IsList(s), NEW t, IsList(t), DOMAIN s = DOMAIN t, \A n \in DOMAIN s : s[n] = Hole <=> t[n] = Hole,
         NEW a, a = Picked(s, ToSet(s) \ {Hole}), NEW b, b = Picked(t, ToSet(t) \ {Hole})
  PROVE  DOMAIN a = DOMAIN b /\ \A k \in DOMAIN a : \E n \in DOMAIN s : s[n] # Hole /\ a[k] = s[n] /\ b[k] = t[n]
<1> DEFINE N == Len(s)
           E == ToSet(s)
           F == ToSet(t)
           Same(x, y) == Len(x) = Len(y) /\ \A k \in 1..Len(x) : \E n \in 1..N : s[n] # Hole /\ x[k] = s[n] /\ y[k] = t[n]
<1>1. /\ N \in Nat /\ DOMAIN s = 1..N /\ Len(t) = N /\ s \in Seq(E) /\ t \in Seq(F)
      /\ \A n \in 1..N : s[n] \in E /\ t[n] \in F
  BY IsListFacts DEF IsList
<1>2. PICK f : Picks(f, s, E \ {Hole}, E) /\ a = f[N]
  BY <1>1, PicksExists
<1>3. PICK g : Picks(g, t, F \ {Hole}, F) /\ b = g[N]
  BY <1>1, PicksExists
<1> DEFINE P == {n \in 0..N : Same(f[n], g[n])}
<1>4. 0 \in P
  <2>1. f[0] = <<>> /\ g[0] = <<>> /\ 1..Len(<<>>) = {}
    BY <1>2, <1>3 DEF Picks
  <2> QED BY <1>1, <2>1
<1>5. ASSUME NEW n \in 1..N, n - 1 \in P PROVE n \in P
  <2> DEFINE x == f[n - 1]
             y == g[n - 1]
  <2>1. x \in Seq(E) /\ y \in Seq(F) /\ n - 1 \in 0..N /\ n \in 0..N
    <3>1. n - 1 \in 0..N /\ n \in 0..N
      BY <1>1
    <3>2. f \in [0..N -> Seq(E)] /\ g \in [0..N -> Seq(F)]
      BY <1>1, <1>2, <1>3 DEF Picks
    <3> HIDE DEF E, F, N
    <3> QED BY <3>1, <3>2
  <2>2. Same(x, y)
    BY <1>5
  <2>3. /\ f[n] = (IF s[n] \in E \ {Hole} THEN Append(x, s[n]) ELSE x)
        /\ g[n] = (IF t[n] \in F \ {Hole} THEN Append(y, t[n]) ELSE y)
    BY <1>1, <1>2, <1>3 DEF Picks
  <2>4. s[n] \in E /\ t[n] \in F /\ (s[n] = Hole <=> t[n] = Hole)
    BY <1>1
  <2> HIDE DEF x, y, N, E, F
  <2>5. CASE s[n] = Hole
    <3>1. f[n] = x /\ g[n] = y
      BY <2>3, <2>4, <2>5
    <3> QED BY <2>1, <2>2, <3>1
  <2>6. CASE s[n] # Hole
    <3> DEFINE X == Append(x, s[n])
               Y == Append(y, t[n])
               K == Len(x)
    <3>1. f[n] = X /\ g[n] = Y
      BY <2>3, <2>4, <2>6
    <3>2. /\ K \in Nat /\ Len(y) = K /\ Len(X) = K + 1 /\ Len(Y) = K + 1 /\ X[K + 1] = s[n] /\ Y[K + 1] = t[n]
          /\ \A k \in 1..K : X[k] = x[k] /\ Y[k] = y[k]
      BY <2>1, <2>2, <2>4
    <3>3. \A k \in 1..(K + 1) : k = K + 1 \/ k \in 1..K
      BY <3>2
    <3> HIDE DEF X, Y
    <3>4. ASSUME NEW k \in 1..(K + 1) PROVE \E m \in 1..N : s[m] # Hole /\ X[k] = s[m] /\ Y[k] = t[m]
      <4>1. CASE k = K + 1
        BY <2>6, <3>2, <4>1
      <4>2. CASE k \in 1..K
        <5>1. PICK m \in 1..N : s[m] # Hole /\ x[k] = s[m] /\ y[k] = t[m]
          BY <2>2, <4>2
        <5> QED BY <3>2, <4>2, <5>1
      <4> QED BY <3>3, <4>1, <4>2
    <3>5. Same(X, Y)
      BY <3>2, <3>4
    <3> QED BY <2>1, <3>1, <3>5
  <2> QED BY <2>5, <2>6
<1> HIDE DEF P
<1>6. 0..N \subseteq P
  BY <1>1, <1>4, <1>5, StepByStep
<1>7. Same(a, b)
  <2>1. N \in P
    BY <1>1, <1>6
  <2>2. Same(f[N], g[N])
    BY <2>1 DEF P
  <2> QED BY <1>2, <1>3, <2>2
<1>8. a \in Seq(E) /\ b \in Seq(F)
  <2>1. N \in 0..N
    BY <1>1
  <2> QED BY <1>1, <1>2, <1>3, <2>1 DEF Picks
<1>9. DOMAIN a = 1..Len(a) /\ DOMAIN b = 1..Len(b)
  BY <1>8
<1> QED BY <1>1, <1>7, <1>9

\* Rows that go and come back are the only ones of which anything changes.
LEMMA RowsInPlace ==
  ASSUME NEW v, ViewOK(v), NEW out, IsDeltas(out), Turns(out), DeltaIds(out) \subseteq Ids(ViewRows(v)),
         NEW now, now = ViewRows(Applied(v, out))
  PROVE  /\ DOMAIN now = DOMAIN ViewRows(v)
         /\ \A k \in DOMAIN now : ViewRows(v)[k].id \notin DeltaIds(out) => now[k] = ViewRows(v)[k]
<1> DEFINE D == DeltaIds(out)
           S == {n \in DOMAIN v.slots : v.slots[n] # Hole /\ v.slots[n].id \in D}
           w == Applied(v, out)
           was == ViewRows(v)
<1>1. IsList(was) /\ ToSet(was) = Holding(v)
  BY ViewRowsFacts
<1>2. ASSUME NEW i \in D PROVE \E n \in DOMAIN v.slots : v.slots[n] # Hole /\ v.slots[n].id = i
  <2>1. PICK k \in DOMAIN was : was[k].id = i
    BY DEF Ids
  <2>2. was[k] \in Holding(v)
    BY <1>1, IsListFacts
  <2> QED BY <2>1, <2>2 DEF Holding, ToSet
<1>3. SlotsKept(v, S, D, w, {})
  BY <1>2, RunKept
<1> HIDE DEF w, D
<1>4. DOMAIN w.slots = DOMAIN v.slots /\ ViewOK(w)
      /\ (\A n \in DOMAIN v.slots : n \notin S => w.slots[n] = v.slots[n])
  BY <1>3 DEF SlotsKept
<1>5. Len(w.free) = Len(v.free) /\ Len(v.free) \in Nat
  <2>1. Cardinality({}) = 0 /\ Len(v.free) \in Nat
    BY FS_EmptySet, IsListFacts DEF ViewOK
  <2>2. Len(w.free) = Len(v.free) + Cardinality({})
    BY <1>3 DEF SlotsKept
  <2> QED BY <2>1, <2>2
<1>6. \A n \in S : w.slots[n] # Hole
  <2>1. \A m : m \notin (Len(v.free) + 1)..Len(w.free)
    BY <1>5
  <2> QED BY <1>3, <2>1 DEF SlotsKept
<1>7. \A n \in DOMAIN v.slots : v.slots[n] = Hole <=> w.slots[n] = Hole
  BY <1>4, <1>6
<1>8. IsList(v.slots) /\ IsList(w.slots)
  BY <1>4 DEF ViewOK
<1>9. /\ DOMAIN was = DOMAIN now
      /\ \A k \in DOMAIN was : \E n \in DOMAIN v.slots : v.slots[n] # Hole /\ was[k] = v.slots[n] /\ now[k] = w.slots[n]
  BY <1>4, <1>7, <1>8, SamePlaces DEF ViewRows, w
<1>10. ASSUME NEW k \in DOMAIN now, was[k].id \notin D PROVE now[k] = was[k]
  <2>1. PICK n \in DOMAIN v.slots : v.slots[n] # Hole /\ was[k] = v.slots[n] /\ now[k] = w.slots[n]
    BY <1>9
  <2>2. n \notin S
    BY <1>10, <2>1
  <2> QED BY <1>4, <2>1, <2>2
<1> QED BY <1>9, <1>10 DEF D

-----------------------------------------------------------------------------
(* What is cached is what rendering from nothing would make, as far as both *)
(* go, when what was fetched for keys is what the tables hold.              *)
AllFetched(d, p, b) == \A x \in DOMAIN b.buckets : b.buckets[x] = Fetch(d, p.nested[x[1]], x[2])

Agreeing(b, c, n) == \A r : <<n, r>> \in DOMAIN b.cache /\ <<n, r>> \in DOMAIN c.cache => b.cache[<<n, r>>] = c.cache[<<n, r>>]

LEMMA AgreeingAbove ==
  ASSUME NEW d, NEW p, IsTree(p), NEW b, BatchOK(p, b), AllFetched(d, p, b), NEW c, BatchOK(p, c), AllFetched(d, p, c),
         NEW n \in 0..Len(p.nested), \A m \in 1..Len(p.nested) : m > n => Agreeing(b, c, m)
  PROVE  Agreeing(b, c, n)
<1> SUFFICES ASSUME NEW r, <<n, r>> \in DOMAIN b.cache, <<n, r>> \in DOMAIN c.cache
             PROVE  b.cache[<<n, r>>] = c.cache[<<n, r>>]
  BY DEF Agreeing
<1> DEFINE e == <<n, r>>
<1>1. e[1] = n /\ e[2] = r
  OBVIOUS
<1>2. /\ IsMade(p, b.cache, b.buckets, n, r) /\ b.cache[e] = Object(p, b.cache, b.buckets, n, r)
      /\ IsMade(p, c.cache, c.buckets, n, r) /\ c.cache[e] = Object(p, c.cache, c.buckets, n, r)
  BY <1>1 DEF BatchOK
<1> HIDE DEF e
<1>3. ASSUME NEW m \in Children(p, n), r[p.nested[m].pcol] # Null
      PROVE  /\ b.buckets[<<m, r[p.nested[m].pcol]>>] = c.buckets[<<m, r[p.nested[m].pcol]>>]
             /\ \A x \in ShownBelow(p, b.buckets, r, m) : b.cache[<<m, x>>] = c.cache[<<m, x>>]
  <2> DEFINE y == <<m, r[p.nested[m].pcol]>>
  <2>1. /\ y \in DOMAIN b.buckets /\ \A x \in ShownBelow(p, b.buckets, r, m) : <<m, x>> \in DOMAIN b.cache
        /\ y \in DOMAIN c.buckets /\ \A x \in ShownBelow(p, c.buckets, r, m) : <<m, x>> \in DOMAIN c.cache
    BY <1>2, <1>3 DEF IsMade
  <2>2. b.buckets[y] = c.buckets[y]
    BY <2>1 DEF AllFetched
  <2>3. m \in 1..Len(p.nested) /\ m > n
    BY DEF Children, IsTree
  <2>4. ShownBelow(p, b.buckets, r, m) = ShownBelow(p, c.buckets, r, m)
    BY <2>2 DEF ShownBelow
  <2> QED BY <2>1, <2>2, <2>3, <2>4 DEF Agreeing
<1>4. Object(p, b.cache, b.buckets, n, r) = Object(p, c.cache, c.buckets, n, r)
  BY <1>3, ObjectSame
<1> QED BY <1>2, <1>4 DEF e

LEMMA AllAgreeing ==
  ASSUME NEW d, NEW p, IsTree(p), NEW b, BatchOK(p, b), AllFetched(d, p, b), NEW c, BatchOK(p, c), AllFetched(d, p, c)
  PROVE  Agreeing(b, c, 0)
<1> DEFINE N == Len(p.nested)
           P == {k \in 0..N : \A m \in (N - k)..N : Agreeing(b, c, m)}
<1>1. N \in Nat
  BY DEF IsTree
<1>2. 0 \in P
  <2>1. Agreeing(b, c, N)
    <3>1. \A m \in 1..N : ~(m > N)
      BY <1>1
    <3> QED BY <1>1, <3>1, AgreeingAbove
  <2> QED BY <1>1, <2>1
<1>3. ASSUME NEW k \in 1..N, k - 1 \in P PROVE k \in P
  <2>1. \A m \in (N - k + 1)..N : Agreeing(b, c, m)
    BY <1>1, <1>3
  <2>2. N - k \in 0..N /\ \A m \in 1..N : m > N - k => m \in (N - k + 1)..N
    BY <1>1
  <2>3. Agreeing(b, c, N - k)
    BY <2>1, <2>2, AgreeingAbove
  <2>4. \A m \in (N - k)..N : m = N - k \/ m \in (N - k + 1)..N
    BY <1>1
  <2>5. \A m \in (N - k)..N : Agreeing(b, c, m)
    BY <2>1, <2>3, <2>4
  <2>6. k \in 0..N
    BY <1>1
  <2> QED BY <2>5, <2>6
<1> HIDE DEF P
<1>4. 0..N \subseteq P
  BY <1>1, <1>2, <1>3, StepByStep
<1>5. N \in P
  BY <1>1, <1>4
<1> QED BY <1>1, <1>5 DEF P

LEMMA NewBatchOK == ASSUME NEW p PROVE BatchOK(p, NewBatch) /\ NewBatch.buckets = Empty /\ DOMAIN Empty = {}
<1>1. DOMAIN Empty = {}
  BY DEF Empty
<1>2. NewBatch.cache = Empty /\ NewBatch.buckets = Empty /\ IsBatch(NewBatch)
  BY DEF NewBatch, IsBatch
<1> QED BY <1>1, <1>2 DEF BatchOK

\* The items of rows that are all cached are those that rendering from nothing makes.
LEMMA CachedItemsFresh ==
  ASSUME NEW d, NEW p, Selects(d, p), NEW b, BatchOK(p, b), AllFetched(d, p, b),
         NEW rows, \A n \in DOMAIN rows : <<0, rows[n]>> \in DOMAIN b.cache
  PROVE  FreshItems(d, p, rows) = [n \in DOMAIN rows |-> b.cache[<<0, rows[n]>>]]
<1> DEFINE c == Rendered(d, p, NewBatch, ToSet(rows))
<1>1. Grown(d, p, NewBatch, c) /\ \A x \in ToSet(rows) : <<0, x>> \in DOMAIN c.cache
  BY NewBatchOK, RenderedFacts
<1> HIDE DEF c
<1>2. BatchOK(p, c) /\ AllFetched(d, p, c)
  BY <1>1, NewBatchOK DEF Grown, AllFetched
<1>3. Agreeing(b, c, 0)
  BY <1>2, SelectsTree, AllAgreeing
<1>4. ASSUME NEW n \in DOMAIN rows PROVE c.cache[<<0, rows[n]>>] = b.cache[<<0, rows[n]>>]
  BY <1>1, <1>3 DEF Agreeing, ToSet
<1>5. FreshItems(d, p, rows) = [n \in DOMAIN rows |-> c.cache[<<0, rows[n]>>]]
  BY DEF FreshItems, Items, c
<1> QED BY <1>4, <1>5

-----------------------------------------------------------------------------
(* The root list: each row has the item that is cached for it, unless it is *)
(* dirty.                                                                   *)
DistinctIds(s) == IsList(s) /\ \A m, n \in DOMAIN s : s[m].id = s[n].id => m = n

ListOK(b) ==
  /\ DistinctIds(b.rows) /\ IsList(b.items) /\ DOMAIN b.items = DOMAIN b.rows
  /\ \A n \in DOMAIN b.rows : b.rows[n].id \notin b.dirty =>
       <<0, b.rows[n]>> \in DOMAIN b.cache /\ b.items[n] = b.cache[<<0, b.rows[n]>>]

\* As long as it may be patched in place, only dirty rows are others in rows.
Aligned(b, rows) ==
  ~b.full /\ b.rows # <<>> /\ b.dirty \subseteq Ids(b.rows) =>
    /\ Ids(rows) \subseteq Ids(b.rows)
    /\ DOMAIN rows = DOMAIN b.rows => \A n \in DOMAIN rows : b.rows[n].id \notin b.dirty => rows[n] = b.rows[n]

AllListed(b, rows, r) ==
  /\ r.rows = rows /\ r.dirty = {} /\ ~r.full /\ ListOK(r)
  /\ b.rows = <<>> => r.patch.kind = "none"
  /\ r.patch.kind # "none" /\ r.patch.removed \cup r.patch.inserted \cup r.patch.updated = {} => r.items = b.items

LEMMA AtFacts ==
  ASSUME NEW s, DistinctIds(s), NEW i \in Ids(s)
  PROVE  At(s, i) \in DOMAIN s /\ s[At(s, i)].id = i /\ \A n \in DOMAIN s : s[n].id = i => n = At(s, i)
<1>1. PICK n \in DOMAIN s : s[n].id = i
  BY DEF Ids
<1>2. n \in Nat /\ \A m \in DOMAIN s : s[m].id = i => m = n
  BY <1>1, IsListFacts DEF DistinctIds
<1>3. \A m \in DOMAIN s : s[m].id = i => m <= n
  BY <1>2
<1> QED BY <1>1, <1>2, <1>3 DEF At

HoldsList(l, rows, items, patch) ==
  l.rows = rows /\ l.items = items /\ l.dirty = {} /\ ~l.full /\ l.patch = patch /\ ListOK(l)

\* A list of items of cached rows.
LEMMA ItemsListed ==
  ASSUME NEW r, IsBatch(r), NEW rows, DistinctIds(rows), NEW items, items = [n \in DOMAIN rows |-> items[n]],
         \A n \in DOMAIN rows : <<0, rows[n]>> \in DOMAIN r.cache /\ items[n] = r.cache[<<0, rows[n]>>], NEW patch
  PROVE  HoldsList(Listed(r, rows, items, patch), rows, items, patch)
<1> DEFINE l == Listed(r, rows, items, patch)
<1>1. IsListed(r, rows, items, patch, l)
  BY ListedFacts
<1> HIDE DEF l
<1>2. Len(rows) \in Nat /\ DOMAIN rows = 1..Len(rows)
  BY IsListFacts DEF DistinctIds
<1>3. IsList(items) /\ DOMAIN items = DOMAIN rows
  BY <1>2, MadeOf
<1>4. ListOK(l)
  BY <1>1, <1>3 DEF IsListed, ListOK
<1> QED BY <1>1, <1>4 DEF l, IsListed, HoldsList

LEMMA EmptyListed ==
  ASSUME NEW b, IsBatch(b)
  PROVE  HoldsList(Listed(b, <<>>, <<>>, NoPatch), <<>>, <<>>, NoPatch)
<1> DEFINE l == Listed(b, <<>>, <<>>, NoPatch)
<1>1. IsListed(b, <<>>, <<>>, NoPatch, l)
  BY ListedFacts
<1> HIDE DEF l
<1>2. IsList(<<>>) /\ DOMAIN <<>> = {}
  <2>1. <<>> \in Seq({}) /\ DOMAIN <<>> = {}
    OBVIOUS
  <2> QED BY <2>1, ListIn
<1>3. ListOK(l)
  BY <1>1, <1>2 DEF IsListed, ListOK, DistinctIds
<1> QED BY <1>1, <1>3 DEF l, IsListed, HoldsList

LEMMA AllRenderedList ==
  ASSUME NEW d, NEW p, Selects(d, p), NEW b, BatchOK(p, b), NEW rows, DistinctIds(rows)
  PROVE  AllListed(b, rows, RenderAll(Rendered(d, p, b, ToSet(rows)), rows))
<1> DEFINE r == Rendered(d, p, b, ToSet(rows))
           items == [n \in DOMAIN rows |-> r.cache[<<0, rows[n]>>]]
<1>1. Grown(d, p, b, r) /\ \A x \in ToSet(rows) : <<0, x>> \in DOMAIN r.cache
  BY RenderedFacts
<1>2. RenderAll(r, rows) = Listed(r, rows, items, NoPatch)
  BY DEF RenderAll, Items
<1> HIDE DEF r
<1>3. \A n \in DOMAIN rows : <<0, rows[n]>> \in DOMAIN r.cache
  BY <1>1 DEF ToSet
<1>4. items = [n \in DOMAIN rows |-> items[n]] /\ \A n \in DOMAIN rows : items[n] = r.cache[<<0, rows[n]>>]
  OBVIOUS
<1>5. IsBatch(r)
  BY <1>1 DEF Grown, BatchOK
<1> HIDE DEF items
<1>6. HoldsList(RenderAll(r, rows), rows, items, NoPatch)
  BY <1>2, <1>3, <1>4, <1>5, ItemsListed
<1>7. NoPatch.kind = "none"
  BY DEF NoPatch
<1> QED BY <1>6, <1>7 DEF HoldsList, AllListed, r

KeptInPlace(b, r) ==
  /\ r.patch.kind = "stable" /\ r.patch.removed = {} /\ r.patch.inserted = {} /\ r.patch.updated \subseteq DOMAIN r.items
  /\ DOMAIN r.items = DOMAIN b.items /\ \A n \in DOMAIN r.items \ r.patch.updated : r.items[n] = b.items[n]

LEMMA InPlaceListed ==
  ASSUME NEW d, NEW p, Selects(d, p), NEW b, BatchOK(p, b), ListOK(b), NEW rows, DistinctIds(rows), Aligned(b, rows),
         rows # <<>>, b.rows # <<>>, InPlace(b, rows), b.dirty # {}
  PROVE  AllListed(b, rows, RenderInPlace(d, p, b, rows)) /\ KeptInPlace(b, RenderInPlace(d, p, b, rows))
<1> DEFINE places == {At(b.rows, id) : id \in b.dirty}
           r == Rendered(d, p, b, {rows[n] : n \in places})
           items == [n \in DOMAIN rows |-> IF n \in places THEN r.cache[<<0, rows[n]>>] ELSE b.items[n]]
           new == [n \in DOMAIN rows |-> IF n \in places THEN rows[n] ELSE b.rows[n]]
           patch == [NoPatch EXCEPT !.kind = "stable", !.updated = IF items = b.items THEN {} ELSE places]
<1>1. Grown(d, p, b, r) /\ \A x \in {rows[n] : n \in places} : <<0, x>> \in DOMAIN r.cache
  BY RenderedFacts
<1>2. RenderInPlace(d, p, b, rows) = Listed(r, new, items, patch)
  BY DEF RenderInPlace, PutInPlace
<1> HIDE DEF r
<1>3. /\ ~b.full /\ b.dirty \subseteq Ids(b.rows) /\ DOMAIN rows = DOMAIN b.rows
      /\ rows = [n \in DOMAIN rows |-> rows[n]]
  <2>1. /\ DOMAIN rows = 1..Len(rows) /\ DOMAIN b.rows = 1..Len(b.rows) /\ rows = [n \in 1..Len(rows) |-> rows[n]]
    BY IsListFacts DEF ListOK, DistinctIds
  <2> QED BY <2>1 DEF InPlace
<1>4. \A n \in DOMAIN rows : n \in places <=> b.rows[n].id \in b.dirty
  BY <1>3, AtFacts DEF ListOK
<1>5. places \subseteq DOMAIN rows
  BY <1>3, AtFacts DEF ListOK
<1>6. \A n \in DOMAIN rows : n \notin places => rows[n] = b.rows[n]
  BY <1>3, <1>4 DEF Aligned
<1> HIDE DEF places
<1>7. new = rows
  BY <1>3, <1>6
<1>8. ASSUME NEW n \in DOMAIN rows
      PROVE  <<0, rows[n]>> \in DOMAIN r.cache /\ items[n] = r.cache[<<0, rows[n]>>]
  <2>1. CASE n \in places
    BY <1>1, <2>1
  <2>2. CASE n \notin places
    <3>1. <<0, rows[n]>> \in DOMAIN b.cache /\ b.items[n] = b.cache[<<0, rows[n]>>]
      BY <1>3, <1>4, <1>6, <2>2 DEF ListOK
    <3> QED BY <1>1, <2>2, <3>1 DEF Grown, Within
  <2> QED BY <2>1, <2>2
<1>9. items = [n \in DOMAIN rows |-> items[n]]
  OBVIOUS
<1>10. IsBatch(r)
  BY <1>1 DEF Grown, BatchOK
<1>11. patch.updated = {} => items = b.items
  <2>1. places # {}
    <3>1. PICK i \in b.dirty : TRUE
      OBVIOUS
    <3> QED BY <3>1 DEF places
  <2>2. patch.updated = IF items = b.items THEN {} ELSE places
    BY DEF NoPatch
  <2> HIDE DEF patch, items
  <2> QED BY <2>1, <2>2
<1>14. /\ patch.kind = "stable" /\ patch.removed = {} /\ patch.inserted = {}
       /\ patch.updated = {} \/ patch.updated = places
  BY DEF NoPatch
<1>15. \A n \in DOMAIN rows \ places : items[n] = b.items[n]
  OBVIOUS
<1> HIDE DEF items, patch, new
<1>12. HoldsList(RenderInPlace(d, p, b, rows), rows, items, patch)
  BY <1>2, <1>7, <1>8, <1>9, <1>10, ItemsListed
<1>13. AllListed(b, rows, RenderInPlace(d, p, b, rows))
  BY <1>11, <1>12 DEF HoldsList, AllListed
<1>16. DOMAIN items = DOMAIN rows /\ DOMAIN b.items = DOMAIN rows
  BY <1>3, <1>9 DEF ListOK
<1>17. KeptInPlace(b, RenderInPlace(d, p, b, rows))
  <2>1. RenderInPlace(d, p, b, rows).items = items /\ RenderInPlace(d, p, b, rows).patch = patch
    BY <1>12 DEF HoldsList
  <2> QED BY <1>5, <1>11, <1>14, <1>15, <1>16, <2>1 DEF KeptInPlace
<1> QED BY <1>13, <1>17


\* e counts the positions T off in ascending order.
Counts(e, N, T) ==
  /\ e \in [1..N -> T] /\ \A m, n \in 1..N : m < n => e[m] < e[n]
  /\ \A k \in T : \E n \in 1..N : e[n] = k

LEMMA OntoInOrder ==
  ASSUME NEW N \in Nat, NEW M \in Nat, NEW f, Counts(f, N, 1..M)
  PROVE  N = M /\ \A n \in 1..N : f[n] = n
<1>0. f \in [1..N -> 1..M] /\ (\A m, n \in 1..N : m < n => f[m] < f[n]) /\ (\A k \in 1..M : \E n \in 1..N : f[n] = k)
  BY DEF Counts
<1> DEFINE P == {k \in 0..N : \A m \in 1..k : f[m] = m}
<1>1. 0 \in P
  OBVIOUS
<1>2. ASSUME NEW k \in 1..N, k - 1 \in P PROVE k \in P
  <2>1. \A m \in 1..(k - 1) : f[m] = m
    BY <1>2
  <2>2. f[k] \in 1..M /\ f[k] >= k
    <3>1. CASE k = 1
      BY <1>0, <3>1
    <3>2. CASE k # 1
      <4>1. k - 1 \in 1..N /\ k - 1 < k /\ f[k - 1] = k - 1
        BY <2>1, <3>2
      <4> QED BY <1>0, <4>1
    <3> QED BY <3>1, <3>2
  <2>3. ASSUME f[k] # k PROVE FALSE
    <3>1. k \in 1..M /\ f[k] > k
      BY <2>2, <2>3
    <3>2. PICK j \in 1..N : f[j] = k
      BY <1>0, <3>1
    <3>3. CASE j < k
      <4>1. f[j] = j
        BY <2>1, <3>3
      <4> QED BY <3>2, <3>3, <4>1
    <3>4. CASE j = k
      BY <2>3, <3>2, <3>4
    <3>5. CASE j > k
      <4>1. f[k] < f[j]
        BY <1>0, <3>5
      <4> QED BY <1>0, <2>2, <3>1, <3>2, <4>1
    <3> QED BY <3>3, <3>4, <3>5
  <2>4. \A m \in 1..k : f[m] = m
    BY <2>1, <2>3
  <2> QED BY <2>4
<1> HIDE DEF P
<1>3. 0..N \subseteq P
  BY <1>1, <1>2, StepByStep
<1>4. N \in P
  BY <1>3
<1>5. \A n \in 1..N : f[n] = n
  BY <1>4 DEF P
<1>6. N <= M
  <2>1. N = 0 \/ N \in 1..M
    BY <1>0, <1>5
  <2> QED BY <2>1
<1>7. M <= N
  <2>1. CASE M = 0
    BY <2>1
  <2>2. CASE M # 0
    <3>1. PICK n \in 1..N : f[n] = M
      BY <1>0, <2>2
    <3> QED BY <1>5, <3>1
  <2> QED BY <2>1, <2>2
<1> QED BY <1>5, <1>6, <1>7

\* Where the rows that have stayed were.
WasAt(b, rows) == [n \in Stayed(b, rows) |-> At(b.rows, rows[n].id)]

LEMMA StayedFacts ==
  ASSUME NEW b, DistinctIds(b.rows), NEW rows, DistinctIds(rows), Spliceable(b, rows)
  PROVE  /\ Stayed(b, rows) \subseteq DOMAIN rows
         /\ \A n \in Stayed(b, rows) : /\ WasAt(b, rows)[n] \in DOMAIN b.rows
                                       /\ b.rows[WasAt(b, rows)[n]].id = rows[n].id
         /\ \A m, n \in Stayed(b, rows) : m < n => WasAt(b, rows)[m] < WasAt(b, rows)[n]
         /\ \A k \in DOMAIN b.rows : b.rows[k].id \in Ids(rows) => \E n \in Stayed(b, rows) : WasAt(b, rows)[n] = k
<1> DEFINE stay == Stayed(b, rows)
           was == WasAt(b, rows)
<1>1. DOMAIN rows = 1..Len(rows) /\ Len(rows) \in Nat /\ DOMAIN b.rows = 1..Len(b.rows) /\ Len(b.rows) \in Nat
  BY IsListFacts DEF DistinctIds
<1>2. stay \subseteq DOMAIN rows /\ \A n \in stay : was[n] = At(b.rows, rows[n].id) /\ rows[n].id \in Ids(b.rows)
  BY DEF Stayed, WasAt
<1>3. \A n \in DOMAIN rows : rows[n].id \in Ids(b.rows) => n \in stay
  BY DEF Stayed
<1> HIDE DEF stay, was
<1>4. \A n \in stay : /\ was[n] \in DOMAIN b.rows /\ b.rows[was[n]].id = rows[n].id
                      /\ \A k \in DOMAIN b.rows : b.rows[k].id = rows[n].id => k = was[n]
  BY <1>2, AtFacts
<1>5. ASSUME NEW m \in stay, NEW n \in stay, m < n PROVE was[m] < was[n]
  <2>1. At(b.rows, rows[m].id) <= At(b.rows, rows[n].id)
    BY <1>2, <1>5 DEF Spliceable
  <2>2. was[m] <= was[n]
    BY <1>2, <2>1
  <2>3. rows[m].id # rows[n].id
    BY <1>1, <1>2, <1>5 DEF DistinctIds
  <2>4. was[m] # was[n]
    BY <1>4, <2>3
  <2>5. was[m] \in Nat /\ was[n] \in Nat
    BY <1>1, <1>4
  <2> QED BY <2>2, <2>4, <2>5
<1>6. ASSUME NEW k \in DOMAIN b.rows, b.rows[k].id \in Ids(rows) PROVE \E n \in stay : was[n] = k
  <2>1. PICK n \in DOMAIN rows : rows[n].id = b.rows[k].id
    BY <1>6 DEF Ids
  <2>2. n \in stay
    BY <1>3, <2>1 DEF Ids
  <2> QED BY <1>4, <2>1, <2>2
<1> QED BY <1>2, <1>4, <1>5, <1>6 DEF stay, was

SpliceItems(b, r, rows) ==
  [n \in DOMAIN rows |-> IF n \in KeptItems(b, rows) THEN b.items[WasAt(b, rows)[n]] ELSE r.cache[<<0, rows[n]>>]]

SplicePatch(b, r, rows) ==
  [kind |-> "splice", removed |-> {n \in DOMAIN b.rows : b.rows[n].id \notin Ids(rows)},
   inserted |-> DOMAIN rows \ Stayed(b, rows),
   updated |-> {n \in Stayed(b, rows) : SpliceItems(b, r, rows)[n] # b.items[WasAt(b, rows)[n]]}]

LEMMA SpliceNothing ==
  ASSUME NEW b, ListOK(b), NEW r, NEW rows, DistinctIds(rows), Spliceable(b, rows),
         SplicePatch(b, r, rows).removed = {}, SplicePatch(b, r, rows).inserted = {}, SplicePatch(b, r, rows).updated = {}
  PROVE  SpliceItems(b, r, rows) = b.items
<1> DEFINE N == Len(rows)
           M == Len(b.rows)
           f == [n \in 1..N |-> WasAt(b, rows)[n]]
           items == SpliceItems(b, r, rows)
<1>1. DOMAIN rows = 1..N /\ N \in Nat /\ DOMAIN b.rows = 1..M /\ M \in Nat /\ DOMAIN b.items = 1..M /\ DistinctIds(b.rows)
  BY IsListFacts DEF DistinctIds, ListOK
<1>2. b.items = [n \in 1..M |-> b.items[n]]
  BY <1>1, IsListFacts DEF ListOK
<1>3. \A k \in DOMAIN b.rows : b.rows[k].id \in Ids(rows)
  BY DEF SplicePatch
<1>4. Stayed(b, rows) = DOMAIN rows
  BY DEF SplicePatch, Stayed
<1>5. \A n \in Stayed(b, rows) : items[n] = b.items[WasAt(b, rows)[n]]
  BY DEF SplicePatch
<1> HIDE DEF items
<1>6. \A n \in 1..N : f[n] = WasAt(b, rows)[n]
  OBVIOUS
<1>7. /\ f \in [1..N -> 1..M] /\ (\A m, n \in 1..N : m < n => f[m] < f[n])
      /\ \A k \in 1..M : \E n \in 1..N : f[n] = k
  BY <1>1, <1>3, <1>4, StayedFacts
<1> HIDE DEF f, N, M
<1>8. N = M /\ \A n \in 1..N : f[n] = n
  <2>1. Counts(f, N, 1..M)
    BY <1>7 DEF Counts
  <2>2. N \in Nat /\ M \in Nat
    BY <1>1
  <2> QED BY <2>1, <2>2, OntoInOrder
<1>9. \A n \in 1..N : items[n] = b.items[n]
  BY <1>1, <1>4, <1>5, <1>6, <1>8
<1>10. items = [n \in 1..N |-> items[n]]
  BY <1>1 DEF SpliceItems, items
<1> QED BY <1>2, <1>8, <1>9, <1>10 DEF items

LEMMA SpliceListed ==
  ASSUME NEW d, NEW p, Selects(d, p), NEW b, BatchOK(p, b), ListOK(b), NEW rows, DistinctIds(rows),
         b.rows # <<>>, Spliceable(b, rows)
  PROVE  /\ AllListed(b, rows, RenderSplice(d, p, b, rows))
         /\ \E r : HoldsList(RenderSplice(d, p, b, rows), rows, SpliceItems(b, r, rows), SplicePatch(b, r, rows))
<1> DEFINE r == Rendered(d, p, b, {rows[n] : n \in DOMAIN rows \ KeptItems(b, rows)})
           items == SpliceItems(b, r, rows)
           patch == SplicePatch(b, r, rows)
           new == RenderSplice(d, p, b, rows)
<1>1. Grown(d, p, b, r) /\ \A x \in {rows[n] : n \in DOMAIN rows \ KeptItems(b, rows)} : <<0, x>> \in DOMAIN r.cache
  BY RenderedFacts
<1>2. new = Listed(r, rows, items, patch)
  BY DEF RenderSplice, Spliced, SplicePatch, SpliceItems, WasAt
<1> HIDE DEF r, new
<1>3. ASSUME NEW n \in DOMAIN rows
      PROVE  <<0, rows[n]>> \in DOMAIN r.cache /\ items[n] = r.cache[<<0, rows[n]>>]
  <2>1. CASE n \in KeptItems(b, rows)
    <3> DEFINE k == At(b.rows, rows[n].id)
    <3>1. n \in Stayed(b, rows) /\ b.rows[k] = rows[n] /\ rows[n].id \notin b.dirty
      BY <2>1 DEF KeptItems
    <3>2. k \in DOMAIN b.rows
      BY <3>1, AtFacts DEF Stayed, ListOK
    <3>3. items[n] = b.items[k]
      BY <2>1, <3>1 DEF SpliceItems, WasAt
    <3> HIDE DEF k, items
    <3>4. <<0, rows[n]>> \in DOMAIN b.cache /\ b.items[k] = b.cache[<<0, rows[n]>>]
      BY <3>1, <3>2 DEF ListOK
    <3> QED BY <1>1, <3>3, <3>4 DEF Grown, Within
  <2>2. CASE n \notin KeptItems(b, rows)
    BY <1>1, <2>2 DEF SpliceItems
  <2> QED BY <2>1, <2>2
<1>4. items = [n \in DOMAIN rows |-> items[n]]
  BY DEF SpliceItems
<1>5. IsBatch(r)
  BY <1>1 DEF Grown, BatchOK
<1> HIDE DEF items, patch
<1>6. HoldsList(new, rows, items, patch)
  BY <1>2, <1>3, <1>4, <1>5, ItemsListed
<1>7. patch.removed \cup patch.inserted \cup patch.updated = {} => items = b.items
  BY SpliceNothing DEF items, patch
<1>8. AllListed(b, rows, new)
  BY <1>6, <1>7 DEF AllListed, HoldsList
<1> QED BY <1>6, <1>8 DEF new, items, patch

LEMMA RenderListed ==
  ASSUME NEW d, NEW p, Selects(d, p), NEW b, BatchOK(p, b), ListOK(b), NEW rows, DistinctIds(rows), Aligned(b, rows)
  PROVE  AllListed(b, rows, RenderList(d, p, b, rows)) \/ (RenderList(d, p, b, rows) = b /\ b.rows = rows /\ b.dirty = {} /\ ~b.full /\ rows # <<>>)
<1>1. CASE rows = <<>>
  <2>1. RenderList(d, p, b, rows) = Listed(b, <<>>, <<>>, NoPatch)
    BY <1>1 DEF RenderList
  <2>2. HoldsList(Listed(b, <<>>, <<>>, NoPatch), <<>>, <<>>, NoPatch)
    BY EmptyListed DEF BatchOK
  <2>3. NoPatch.kind = "none"
    BY DEF NoPatch
  <2> QED BY <1>1, <2>1, <2>2, <2>3 DEF HoldsList, AllListed
<1>2. CASE rows # <<>> /\ b.rows # <<>> /\ InPlace(b, rows) /\ b.dirty = {}
  <2>1. RenderList(d, p, b, rows) = b
    BY <1>2 DEF RenderList
  <2>2. DOMAIN rows = DOMAIN b.rows /\ ~b.full /\ b.dirty \subseteq Ids(b.rows)
    BY <1>2, IsListFacts DEF InPlace, ListOK, DistinctIds
  <2>3. \A n \in DOMAIN rows : rows[n] = b.rows[n]
    BY <1>2, <2>2 DEF Aligned
  <2>4. rows = b.rows
    <3>1. /\ rows = [n \in 1..Len(rows) |-> rows[n]] /\ b.rows = [n \in 1..Len(b.rows) |-> b.rows[n]]
          /\ DOMAIN rows = 1..Len(rows) /\ DOMAIN b.rows = 1..Len(b.rows)
      BY IsListFacts DEF ListOK, DistinctIds
    <3>2. Len(rows) = Len(b.rows)
      BY <1>2 DEF InPlace
    <3> QED BY <2>3, <3>1, <3>2
  <2> QED BY <1>2, <2>1, <2>2, <2>4
<1>3. CASE rows # <<>> /\ b.rows # <<>> /\ InPlace(b, rows) /\ b.dirty # {}
  <2>1. RenderList(d, p, b, rows) = RenderInPlace(d, p, b, rows)
    BY <1>3 DEF RenderList
  <2> QED BY <1>3, <2>1, InPlaceListed
<1>4. CASE rows # <<>> /\ b.rows # <<>> /\ ~InPlace(b, rows) /\ Spliceable(b, rows)
  <2>1. RenderList(d, p, b, rows) = RenderSplice(d, p, b, rows)
    BY <1>4 DEF RenderList
  <2> QED BY <1>4, <2>1, SpliceListed
<1>5. CASE rows # <<>> /\ ~(b.rows # <<>> /\ (InPlace(b, rows) \/ Spliceable(b, rows)))
  <2>1. RenderList(d, p, b, rows) = RenderAll(Rendered(d, p, b, ToSet(rows)), rows)
    BY <1>5 DEF RenderList
  <2> QED BY <2>1, AllRenderedList
<1> QED BY <1>1, <1>2, <1>3, <1>4, <1>5


LEMMA AlwaysListed ==
  ASSUME NEW d, NEW p, Selects(d, p), NEW b, BatchOK(p, b), ListOK(b), NEW rows, DistinctIds(rows), Aligned(b, rows)
  PROVE  AllListed(b, rows, RenderList(d, p, b, rows))
<1> DEFINE r == RenderList(d, p, b, rows)
<1>1. AllListed(b, rows, r) \/ (r = b /\ b.rows = rows /\ b.dirty = {} /\ ~b.full /\ rows # <<>>)
  BY RenderListed
<1> HIDE DEF r
<1>2. AllListed(b, rows, r)
  BY <1>1 DEF AllListed
<1> QED BY <1>2 DEF r

-----------------------------------------------------------------------------
(* What patches make of the array that was encoded last.  s lists what val  *)
(* has at the positions T, in order.                                        *)
ListsBy(e, s, T, val) == Counts(e, Len(s), T) /\ \A n \in 1..Len(s) : s[n] = val[e[n]]
Lists(s, T, val) == IsList(s) /\ \E e : ListsBy(e, s, T, val)

LEMMA AscendingFacts ==
  ASSUME NEW K, K \subseteq Nat, IsFiniteSet(K)
  PROVE  Cardinality(K) \in Nat /\ Len(Ascending(K)) = Cardinality(K) /\ Counts(Ascending(K), Cardinality(K), K)
<1> DEFINE R == {x \in K \X K : x[1] < x[2]}
           a == Ascending(K)
           N == Cardinality(K)
<1>1. \A x, y \in K : <<x, y>> \in R <=> x < y
  OBVIOUS
<1> HIDE DEF R
<1>2. Strict(K, R)
  BY <1>1 DEF Strict
<1>3. ASSUME NEW m \in K PROVE RankOf(K, R, m) = Cardinality({l \in K : l < m})
  <2>1. Below(K, R, m) = {l \in K : l < m}
    BY <1>1 DEF Below
  <2> QED BY <2>1 DEF RankOf
<1>4. a = Arranged(K, R)
  <2> DEFINE c(n) == CHOOSE m \in K : Cardinality({l \in K : l < m}) = n - 1
             d(n) == CHOOSE m \in K : RankOf(K, R, m) = n - 1
             C == Cardinality(K)
  <2>1. ASSUME NEW n PROVE c(n) = d(n)
    <3> DEFINE X == {m \in K : Cardinality({l \in K : l < m}) = n - 1}
               Y == {m \in K : RankOf(K, R, m) = n - 1}
    <3>1. X = Y
      BY <1>3
    <3>2. c(n) = (CHOOSE m : m \in X) /\ d(n) = (CHOOSE m : m \in Y)
      OBVIOUS
    <3> HIDE DEF X, Y
    <3> QED BY <3>1, <3>2
  <2>2. a = [n \in 1..C |-> c(n)] /\ Arranged(K, R) = [n \in 1..C |-> d(n)]
    BY DEF Ascending, Arranged
  <2> HIDE DEF c, d, C, a
  <2> QED BY <2>1, <2>2
<1> HIDE DEF a
<1>5. N \in Nat
  BY FS_CardinalityType
<1> HIDE DEF N
<1>6. a \in Seq(K) /\ Len(a) = N /\ Ordered(a, R) /\ ToSet(a) = K
  BY <1>2, <1>4, ArrangedFacts DEF N
<1>7. DOMAIN a = 1..N /\ a \in [1..N -> K]
  BY <1>6
<1>8. \A m, n \in 1..N : m < n => a[m] < a[n]
  BY <1>1, <1>6, <1>7 DEF Ordered
<1>9. \A k \in K : \E n \in 1..N : a[n] = k
  BY <1>6, <1>7 DEF ToSet
<1> QED BY <1>5, <1>6, <1>7, <1>8, <1>9 DEF Counts, a, N

LEMMA WithoutLists ==
  ASSUME NEW s, IsList(s), NEW R
  PROVE  Lists(Without(s, R), DOMAIN s \ R, s)
<1> DEFINE K == DOMAIN s \ R
           N == Cardinality(K)
           e == Ascending(K)
           w == Without(s, R)
<1>1. Len(s) \in Nat /\ DOMAIN s = 1..Len(s)
  BY IsListFacts
<1>2. K \subseteq Nat /\ IsFiniteSet(K)
  <2>1. IsFiniteSet(1..Len(s))
    <3>1. 1 \in Int /\ Len(s) \in Int
      BY <1>1
    <3> QED BY <3>1, FS_Interval
  <2>2. K \in SUBSET (1..Len(s))
    BY <1>1
  <2> HIDE DEF K
  <2>3. IsFiniteSet(K)
    BY <2>1, <2>2, FS_Subset
  <2> QED BY <2>2, <2>3
<1>3. w = [n \in 1..N |-> s[CHOOSE m \in K : Cardinality({l \in K : l < m}) = n - 1]]
  BY DEF Without
<1>4. e = [n \in 1..N |-> CHOOSE m \in K : Cardinality({l \in K : l < m}) = n - 1]
  BY DEF Ascending
<1> HIDE DEF w, e, K
<1>5. N \in Nat /\ Counts(e, N, K)
  BY <1>2, AscendingFacts DEF e
<1> HIDE DEF N
<1>6. \A n \in 1..N : w[n] = s[e[n]]
  BY <1>3, <1>4
<1>7. w = [n \in 1..N |-> w[n]]
  BY <1>3
<1>8. IsList(w) /\ Len(w) = N
  BY <1>5, <1>7, MadeOf
<1>9. ListsBy(e, w, K, s)
  BY <1>5, <1>6, <1>8 DEF ListsBy
<1> QED BY <1>8, <1>9 DEF Lists, w, K

\* The same list, with other names for its positions.
Renames(was, T, K) ==
  (\A t \in T : was[t] \in K) /\ (\A t, u \in T : t < u => was[t] < was[u]) /\ \A k \in K : \E t \in T : was[t] = k

Taken(val, T, old, was) == \A t \in T : val[t] = old[was[t]]

LEMMA Relisted ==
  ASSUME NEW s, NEW K, NEW old, Lists(s, K, old), K \subseteq Nat, NEW T, T \subseteq Nat, NEW was, Renames(was, T, K),
         NEW val, Taken(val, T, old, was)
  PROVE  Lists(s, T, val)
<1>0. /\ (\A t \in T : was[t] \in K) /\ (\A t, u \in T : t < u => was[t] < was[u]) /\ (\A k \in K : \E t \in T : was[t] = k)
      /\ \A t \in T : val[t] = old[was[t]]
  BY DEF Renames, Taken
<1>1. PICK e : ListsBy(e, s, K, old)
  BY DEF Lists
<1> DEFINE N == Len(s)
           f == [n \in 1..N |-> CHOOSE t \in T : was[t] = e[n]]
<1>2. N \in Nat
  BY IsListFacts DEF Lists
<1>3. /\ e \in [1..N -> K] /\ (\A m, n \in 1..N : m < n => e[m] < e[n]) /\ (\A k \in K : \E n \in 1..N : e[n] = k)
      /\ \A n \in 1..N : s[n] = old[e[n]]
  BY <1>1 DEF ListsBy, Counts
<1>4. \A n \in 1..N : f[n] \in T /\ was[f[n]] = e[n]
  <2>1. \A n \in 1..N : \E t \in T : was[t] = e[n]
    BY <1>0, <1>3
  <2> QED BY <2>1
<1>5. f \in [1..N -> T]
  BY <1>4
<1> HIDE DEF f, N
<1>6. ASSUME NEW m \in 1..N, NEW n \in 1..N, m < n PROVE f[m] < f[n]
  <2>1. was[f[m]] < was[f[n]] /\ was[f[m]] \in Nat /\ was[f[n]] \in Nat
    BY <1>3, <1>4, <1>6
  <2>2. f[m] \in Nat /\ f[n] \in Nat /\ f[m] \in T /\ f[n] \in T
    BY <1>4
  <2>3. ~(f[n] < f[m])
    <3> SUFFICES ASSUME f[n] < f[m] PROVE FALSE
      OBVIOUS
    <3>1. was[f[n]] < was[f[m]]
      BY <1>0, <2>2
    <3> QED BY <2>1, <3>1
  <2>4. f[n] # f[m]
    BY <2>1
  <2> QED BY <2>2, <2>3, <2>4
<1>7. ASSUME NEW t \in T PROVE \E n \in 1..N : f[n] = t
  <2>1. PICK n \in 1..N : e[n] = was[t]
    BY <1>0, <1>3
  <2>2. was[f[n]] = was[t] /\ f[n] \in T /\ f[n] \in Nat /\ t \in Nat /\ was[t] \in Nat
    BY <1>0, <1>4, <2>1
  <2>3. ~(f[n] < t) /\ ~(t < f[n])
    BY <1>0, <2>2
  <2> QED BY <2>2, <2>3
<1>8. \A n \in 1..N : s[n] = val[f[n]]
  BY <1>0, <1>3, <1>4
<1>9. ListsBy(f, s, T, val)
  BY <1>5, <1>6, <1>7, <1>8 DEF ListsBy, Counts, N
<1> QED BY <1>9 DEF Lists

\* The positions before the first that is not counted.
LEMMA CountsFrom ==
  ASSUME NEW e, NEW N \in Nat, NEW T, T \subseteq Nat \ {0}, Counts(e, N, T), NEW p \in Nat \ {0}, p \notin T, 1..(p - 1) \subseteq T
  PROVE  p - 1 <= N /\ (\A j \in 1..(p - 1) : e[j] = j) /\ \A j \in p..N : e[j] > p
<1>1. /\ e \in [1..N -> T] /\ (\A m, n \in 1..N : m < n => e[m] < e[n]) /\ (\A k \in T : \E n \in 1..N : e[n] = k)
      /\ \A n \in 1..N : e[n] \in Nat /\ e[n] > 0 /\ e[n] # p
  <2>1. /\ e \in [1..N -> T] /\ (\A m, n \in 1..N : m < n => e[m] < e[n]) /\ (\A k \in T : \E n \in 1..N : e[n] = k)
    BY DEF Counts
  <2>2. \A n \in 1..N : e[n] \in T
    BY <2>1
  <2>3. \A k \in T : k \in Nat /\ k > 0 /\ k # p
    OBVIOUS
  <2> QED BY <2>1, <2>2, <2>3
<1> DEFINE P == {k \in 0..(p - 1) : k <= N /\ \A m \in 1..k : e[m] = m}
<1>2. 0 \in P
  OBVIOUS
<1>3. ASSUME NEW k \in 1..(p - 1), k - 1 \in P PROVE k \in P
  <2>1. k - 1 <= N /\ \A m \in 1..(k - 1) : e[m] = m
    BY <1>3
  <2>2. PICK n \in 1..N : e[n] = k
    BY <1>1
  <2>3. n >= k
    <3> SUFFICES ASSUME n < k PROVE FALSE
      OBVIOUS
    <3>1. e[n] = n
      BY <2>1
    <3> QED BY <2>2, <3>1
  <2>4. k \in 1..N
    BY <2>3
  <2>5. e[k] <= k
    <3>1. CASE n = k
      BY <2>2, <3>1
    <3>2. CASE k < n
      <4>1. e[k] < e[n]
        BY <1>1, <2>4, <3>2
      <4> QED BY <1>1, <2>2, <2>4, <4>1
    <3> QED BY <2>3, <3>1, <3>2
  <2>6. e[k] >= k
    <3>1. CASE k = 1
      BY <1>1, <2>4, <3>1
    <3>2. CASE k # 1
      <4>1. k - 1 \in 1..N /\ k - 1 \in 1..(k - 1) /\ k - 1 < k
        BY <2>4, <3>2
      <4>2. e[k - 1] = k - 1 /\ e[k - 1] < e[k]
        BY <1>1, <2>1, <2>4, <4>1
      <4> QED BY <1>1, <2>4, <4>2
    <3> QED BY <3>1, <3>2
  <2>7. e[k] = k
    BY <1>1, <2>4, <2>5, <2>6
  <2> QED BY <2>1, <2>4, <2>7
<1> HIDE DEF P
<1>4. 0..(p - 1) \subseteq P
  BY <1>2, <1>3, StepByStep
<1>5. p - 1 \in P
  BY <1>4
<1>6. p - 1 <= N /\ \A j \in 1..(p - 1) : e[j] = j
  BY <1>5 DEF P
<1>7. ASSUME NEW j \in p..N PROVE e[j] > p
  <2>1. j \in 1..N
    OBVIOUS
  <2>2. e[j] >= p
    <3>1. CASE p = 1
      BY <1>1, <2>1, <3>1
    <3>2. CASE p # 1
      <4>1. p - 1 \in 1..(p - 1) /\ p - 1 \in 1..N /\ p - 1 < j
        BY <3>2
      <4>2. e[p - 1] = p - 1 /\ e[p - 1] < e[j]
        BY <1>1, <1>6, <2>1, <4>1
      <4> QED BY <1>1, <2>1, <4>2
    <3> QED BY <3>1, <3>2
  <2> QED BY <1>1, <2>1, <2>2
<1> QED BY <1>6, <1>7

LEMMA JoinedLists ==
  ASSUME NEW E, NEW s \in Seq(E), NEW t \in Seq(E)
  PROVE  /\ s \o t \in Seq(E) /\ Len(s \o t) = Len(s) + Len(t)
         /\ \A n \in 1..Len(s) : (s \o t)[n] = s[n]
         /\ \A n \in (Len(s) + 1)..(Len(s) + Len(t)) : (s \o t)[n] = t[n - Len(s)]
<1>1. s \o t \in Seq(E) /\ Len(s \o t) = Len(s) + Len(t)
  OBVIOUS
<1>2. \A n \in 1..Len(s) : (s \o t)[n] = s[n]
  OBVIOUS
<1>3. \A n \in (Len(s) + 1)..(Len(s) + Len(t)) : (s \o t)[n] = t[n - Len(s)]
  OBVIOUS
<1> QED BY <1>1, <1>2, <1>3

LEMMA InsertedFacts ==
  ASSUME NEW s, IsList(s), NEW p \in Nat \ {0}, p - 1 <= Len(s), NEW x
  PROVE  /\ IsList(Inserted(s, p, x)) /\ Len(Inserted(s, p, x)) = Len(s) + 1
         /\ \A n \in 1..(p - 1) : Inserted(s, p, x)[n] = s[n]
         /\ Inserted(s, p, x)[p] = x
         /\ \A n \in (p + 1)..(Len(s) + 1) : Inserted(s, p, x)[n] = s[n - 1]
<1> DEFINE E == ToSet(s) \cup {x}
           N == Len(s)
           a == SubSeq(s, 1, p - 1)
           b == SubSeq(s, p, N)
           u == a \o <<x>> \o b
<1>1. N \in Nat /\ s \in Seq(E) /\ x \in E
  <2>1. s \in Seq(ToSet(s))
    BY DEF IsList
  <2> QED BY <2>1
<1>2. Inserted(s, p, x) = u
  <2>1. Cut(s, 1, p - 1) = a
    <3>1. CASE p - 1 < N
      BY <3>1 DEF Cut
    <3>2. CASE p - 1 = N
      BY <3>2 DEF Cut
    <3> QED BY <1>1, <3>1, <3>2
  <2>2. Cut(s, p, Len(s)) = b
    BY <1>1 DEF Cut
  <2> QED BY <2>1, <2>2 DEF Inserted
<1>3. a \in Seq(E) /\ Len(a) = p - 1 /\ \A n \in 1..(p - 1) : a[n] = s[n]
  BY <1>1
<1>4. b \in Seq(E) /\ Len(b) = N - p + 1 /\ \A n \in 1..(N - p + 1) : b[n] = s[p + n - 1]
  BY <1>1
<1> HIDE DEF a, b, E, N
<1>5. <<x>> \in Seq(E) /\ Len(<<x>>) = 1 /\ <<x>>[1] = x
  BY <1>1
<1> DEFINE o == <<x>>
           c == a \o o
<1>6. u = c \o b /\ o \in Seq(E) /\ Len(o) = 1 /\ o[1] = x
  BY <1>5
<1> HIDE DEF o
<1>7. c \in Seq(E) /\ Len(c) = p /\ (\A n \in 1..(p - 1) : c[n] = a[n]) /\ c[p] = x
  BY <1>3, <1>6
<1> HIDE DEF c, u
<1>8. u \in Seq(E) /\ Len(u) = N + 1 /\ (\A n \in 1..p : u[n] = c[n]) /\ \A n \in (p + 1)..(N + 1) : u[n] = b[n - p]
  <2>1. c \in Seq(E) /\ b \in Seq(E) /\ Len(c) = p /\ Len(b) = N - p + 1 /\ u = c \o b
    BY <1>4, <1>6, <1>7
  <2>2. /\ u \in Seq(E) /\ Len(u) = p + (N - p + 1) /\ (\A n \in 1..p : u[n] = c[n])
        /\ \A n \in (p + 1)..(p + (N - p + 1)) : u[n] = b[n - p]
    <3>1. /\ c \o b \in Seq(E) /\ Len(c \o b) = Len(c) + Len(b)
          /\ \A n \in 1..Len(c) : (c \o b)[n] = c[n]
          /\ \A n \in (Len(c) + 1)..(Len(c) + Len(b)) : (c \o b)[n] = b[n - Len(c)]
      BY <2>1, JoinedLists
    <3>2. c \o b = u
      BY <2>1
    <3> QED BY <2>1, <3>1, <3>2, Zenon
  <2>3. p + (N - p + 1) = N + 1
    BY <1>1
  <2> QED BY <2>2, <2>3
<1>9. IsList(u)
  BY <1>8, ListIn
<1>10. \A n \in 1..(p - 1) : u[n] = s[n]
  BY <1>3, <1>7, <1>8
<1>11. u[p] = x
  BY <1>7, <1>8
<1>12. \A n \in (p + 1)..(N + 1) : u[n] = s[n - 1]
  <2> SUFFICES ASSUME NEW n \in (p + 1)..(N + 1) PROVE u[n] = s[n - 1]
    OBVIOUS
  <2>1. n - p \in 1..(N - p + 1) /\ p + (n - p) - 1 = n - 1
    BY <1>1
  <2> QED BY <1>4, <1>8, <2>1
<1> QED BY <1>2, <1>8, <1>9, <1>10, <1>11, <1>12 DEF N

LEMMA InsertLists ==
  ASSUME NEW s, NEW T, T \subseteq Nat \ {0}, NEW val, Lists(s, T, val), NEW p \in Nat \ {0}, p \notin T, 1..(p - 1) \subseteq T,
         NEW x, x = val[p], NEW U, U = T \cup {p}
  PROVE  Lists(Inserted(s, p, x), U, val)
<1>1. PICK e : ListsBy(e, s, T, val)
  BY DEF Lists
<1> DEFINE N == Len(s)
           u == Inserted(s, p, x)
           f == [n \in 1..(N + 1) |-> IF n < p THEN n ELSE IF n = p THEN p ELSE e[n - 1]]
<1>2. N \in Nat /\ IsList(s) /\ Counts(e, N, T) /\ \A n \in 1..N : s[n] = val[e[n]]
  BY <1>1, IsListFacts DEF Lists, ListsBy
<1>3. p - 1 <= N /\ (\A j \in 1..(p - 1) : e[j] = j) /\ \A j \in p..N : e[j] > p
  BY <1>2, CountsFrom
<1>4. IsList(u) /\ Len(u) = N + 1
      /\ (\A n \in 1..(p - 1) : u[n] = s[n]) /\ u[p] = x /\ \A n \in (p + 1)..(N + 1) : u[n] = s[n - 1]
  BY <1>2, <1>3, InsertedFacts
<1>5. /\ e \in [1..N -> T] /\ (\A m, n \in 1..N : m < n => e[m] < e[n]) /\ (\A k \in T : \E n \in 1..N : e[n] = k)
      /\ \A n \in 1..N : e[n] \in Nat
  BY <1>2 DEF Counts
<1>6. /\ \A n \in 1..(p - 1) : n \in 1..(N + 1) /\ n \in 1..N /\ f[n] = n /\ n \in T
      /\ f[p] = p /\ p \in 1..(N + 1)
      /\ \A n \in (p + 1)..(N + 1) : n \in 1..(N + 1) /\ n - 1 \in 1..N /\ n - 1 \in p..N /\ f[n] = e[n - 1]
  BY <1>2, <1>3
<1>7. \A n \in 1..(N + 1) : n \in 1..(p - 1) \/ n = p \/ n \in (p + 1)..(N + 1)
  BY <1>2
<1>8. f = [n \in 1..(N + 1) |-> f[n]]
  OBVIOUS
<1> HIDE DEF f, u, N
<1>9. \A n \in 1..(N + 1) : f[n] \in U
  BY <1>5, <1>6, <1>7
<1>10. f \in [1..(N + 1) -> U]
  BY <1>8, <1>9
<1>11. ASSUME NEW m \in 1..(N + 1), NEW n \in 1..(N + 1), m < n PROVE f[m] < f[n]
  <2>1. CASE n \in 1..(p - 1)
    <3>1. m \in 1..(p - 1)
      BY <1>11, <2>1
    <3> QED BY <1>6, <1>11, <2>1, <3>1
  <2>2. CASE n = p
    <3>1. m \in 1..(p - 1)
      BY <1>11, <2>2
    <3> QED BY <1>6, <1>11, <2>2, <3>1
  <2>3. CASE n \in (p + 1)..(N + 1)
    <3>1. f[n] = e[n - 1] /\ n - 1 \in 1..N /\ e[n - 1] > p /\ e[n - 1] \in Nat
      BY <1>3, <1>5, <1>6, <2>3
    <3>2. CASE m \in 1..(p - 1)
      <4>1. f[m] = m /\ m < p
        BY <1>6, <3>2
      <4> QED BY <3>1, <4>1
    <3>3. CASE m = p
      BY <1>6, <3>1, <3>3
    <3>4. CASE m \in (p + 1)..(N + 1)
      <4>1. f[m] = e[m - 1] /\ m - 1 \in 1..N /\ m - 1 < n - 1
        BY <1>6, <1>11, <3>4
      <4> QED BY <1>5, <3>1, <4>1
    <3> QED BY <1>7, <3>2, <3>3, <3>4
  <2> QED BY <1>7, <2>1, <2>2, <2>3
<1>12. ASSUME NEW k \in U PROVE \E n \in 1..(N + 1) : f[n] = k
  <2>1. CASE k = p
    BY <1>6, <2>1
  <2>2. CASE k \in T
    <3>1. PICK n \in 1..N : e[n] = k
      BY <1>5, <2>2
    <3>2. CASE n < p
      <4>1. n \in 1..(p - 1) /\ n \in 1..(N + 1)
        BY <1>2, <3>2
      <4> QED BY <1>3, <1>6, <3>1, <4>1
    <3>3. CASE n >= p
      <4>1. n + 1 \in (p + 1)..(N + 1) /\ n + 1 \in 1..(N + 1) /\ (n + 1) - 1 = n
        BY <1>2, <3>3
      <4>2. f[n + 1] = k
        BY <1>6, <3>1, <4>1
      <4> QED BY <4>1, <4>2
    <3> QED BY <3>2, <3>3
  <2> QED BY <2>1, <2>2
<1>13. \A n \in 1..(N + 1) : u[n] = val[f[n]]
  BY <1>2, <1>3, <1>4, <1>6, <1>7
<1>14. ListsBy(f, u, U, val)
  BY <1>4, <1>10, <1>11, <1>12, <1>13 DEF ListsBy, Counts
<1> QED BY <1>4, <1>14 DEF Lists, u

\* Item after item.
InsertRun(f, s, items, at) == f = [n \in 0..Len(at) |-> IF n = 0 THEN s ELSE Inserted(f[n - 1], at[n], items[at[n]])]
SetRun(f, s, items, at) == f = [n \in 0..Len(at) |-> IF n = 0 THEN s ELSE SetAt(f[n - 1], at[n], items[at[n]])]

LEMMA InsertRunExists ==
  ASSUME NEW s, NEW items, NEW places, NEW at, at = Ascending(places), Len(at) \in Nat
  PROVE  \E f : InsertRun(f, s, items, at) /\ AllInserted(s, items, places) = f[Len(at)]
<1> DEFINE N == Len(at)
           Is(f, k) == f = [n \in 0..k |-> IF n = 0 THEN s ELSE Inserted(f[n - 1], at[n], items[at[n]])]
           P == {k \in 0..N : \E f : Is(f, k)}
<1> HIDE DEF N
<1>1. N \in Nat
  BY DEF N
<1>2. 0 \in P
  <2> DEFINE f == [n \in 0..0 |-> s]
  <2>1. Is(f, 0)
    OBVIOUS
  <2> HIDE DEF f
  <2> QED BY <1>1, <2>1
<1>3. ASSUME NEW k \in 1..N, k - 1 \in P PROVE k \in P
  <2>1. PICK f : Is(f, k - 1)
    BY <1>3
  <2> DEFINE h == [n \in 0..k |-> IF n < k THEN f[n] ELSE Inserted(f[k - 1], at[k], items[at[k]])]
  <2>2. ASSUME NEW n \in 0..k PROVE h[n] = IF n = 0 THEN s ELSE Inserted(h[n - 1], at[n], items[at[n]])
    <3>1. CASE n = 0
      BY <2>1, <3>1
    <3>2. CASE n \in 1..(k - 1)
      <4>1. h[n] = f[n] /\ h[n - 1] = f[n - 1] /\ n \in 0..(k - 1) /\ n # 0
        BY <3>2
      <4> QED BY <2>1, <4>1
    <3>3. CASE n = k
      <4>1. h[k] = Inserted(f[k - 1], at[k], items[at[k]]) /\ h[k - 1] = f[k - 1] /\ k # 0
        OBVIOUS
      <4> QED BY <3>3, <4>1
    <3> QED BY <3>1, <3>2, <3>3
  <2>3. h = [n \in 0..k |-> h[n]]
    OBVIOUS
  <2> HIDE DEF h
  <2>4. Is(h, k)
    BY <2>2, <2>3
  <2>5. k \in 0..N
    BY <1>1
  <2> QED BY <2>4, <2>5
<1> HIDE DEF P
<1>4. 0..N \subseteq P
  BY <1>1, <1>2, <1>3, StepByStep
<1>5. \E f : Is(f, N)
  <2>1. N \in P
    BY <1>1, <1>4
  <2> QED BY <2>1 DEF P
<1>6. \E f : InsertRun(f, s, items, at)
  BY <1>5 DEF InsertRun, N
<1> DEFINE A == CHOOSE f : InsertRun(f, s, items, at)
<1>7. InsertRun(A, s, items, at)
  BY <1>6
<1>8. AllInserted(s, items, places) = A[Len(at)]
  BY DEF AllInserted, InsertRun
<1> QED BY <1>7, <1>8

LEMMA SetRunExists ==
  ASSUME NEW s, NEW items, NEW places, NEW at, at = Ascending(places), Len(at) \in Nat
  PROVE  \E f : SetRun(f, s, items, at) /\ AllSet(s, items, places) = f[Len(at)]
<1> DEFINE N == Len(at)
           Is(f, k) == f = [n \in 0..k |-> IF n = 0 THEN s ELSE SetAt(f[n - 1], at[n], items[at[n]])]
           P == {k \in 0..N : \E f : Is(f, k)}
<1> HIDE DEF N
<1>1. N \in Nat
  BY DEF N
<1>2. 0 \in P
  <2> DEFINE f == [n \in 0..0 |-> s]
  <2>1. Is(f, 0)
    OBVIOUS
  <2> HIDE DEF f
  <2> QED BY <1>1, <2>1
<1>3. ASSUME NEW k \in 1..N, k - 1 \in P PROVE k \in P
  <2>1. PICK f : Is(f, k - 1)
    BY <1>3
  <2> DEFINE h == [n \in 0..k |-> IF n < k THEN f[n] ELSE SetAt(f[k - 1], at[k], items[at[k]])]
  <2>2. ASSUME NEW n \in 0..k PROVE h[n] = IF n = 0 THEN s ELSE SetAt(h[n - 1], at[n], items[at[n]])
    <3>1. CASE n = 0
      BY <2>1, <3>1
    <3>2. CASE n \in 1..(k - 1)
      <4>1. h[n] = f[n] /\ h[n - 1] = f[n - 1] /\ n \in 0..(k - 1) /\ n # 0
        BY <3>2
      <4> QED BY <2>1, <4>1
    <3>3. CASE n = k
      <4>1. h[k] = SetAt(f[k - 1], at[k], items[at[k]]) /\ h[k - 1] = f[k - 1] /\ k # 0
        OBVIOUS
      <4> QED BY <3>3, <4>1
    <3> QED BY <3>1, <3>2, <3>3
  <2>3. h = [n \in 0..k |-> h[n]]
    OBVIOUS
  <2> HIDE DEF h
  <2>4. Is(h, k)
    BY <2>2, <2>3
  <2>5. k \in 0..N
    BY <1>1
  <2> QED BY <2>4, <2>5
<1> HIDE DEF P
<1>4. 0..N \subseteq P
  BY <1>1, <1>2, <1>3, StepByStep
<1>5. \E f : Is(f, N)
  <2>1. N \in P
    BY <1>1, <1>4
  <2> QED BY <2>1 DEF P
<1>6. \E f : SetRun(f, s, items, at)
  BY <1>5 DEF SetRun, N
<1> DEFINE A == CHOOSE f : SetRun(f, s, items, at)
<1>7. SetRun(A, s, items, at)
  BY <1>6
<1>8. AllSet(s, items, places) = A[Len(at)]
  BY DEF AllSet, SetRun
<1> QED BY <1>7, <1>8

LEMMA AllInsertedLists ==
  ASSUME NEW M \in Nat, NEW K, K \subseteq 1..M, NEW T, T = 1..M \ K, NEW val, NEW s, Lists(s, T, val),
         NEW items, \A n \in K : items[n] = val[n]
  PROVE  Lists(AllInserted(s, items, K), 1..M, val)
<1> DEFINE at == Ascending(K)
           N == Len(at)
<1>1. K \subseteq Nat /\ IsFiniteSet(K)
  <2>1. IsFiniteSet(1..M)
    <3>1. 1 \in Int /\ M \in Int
      OBVIOUS
    <3> QED BY <3>1, FS_Interval
  <2>2. K \in SUBSET (1..M)
    OBVIOUS
  <2>3. IsFiniteSet(K)
    BY <2>1, <2>2, FS_Subset
  <2> QED BY <2>3
<1>2. N \in Nat /\ Counts(at, N, K)
  BY <1>1, AscendingFacts
<1>3. PICK f : InsertRun(f, s, items, at) /\ AllInserted(s, items, K) = f[N]
  BY <1>2, InsertRunExists
<1>4. \A n \in 0..N : f[n] = IF n = 0 THEN s ELSE Inserted(f[n - 1], at[n], items[at[n]])
  BY <1>3 DEF InsertRun
<1> HIDE DEF at, N
<1>5. /\ at \in [1..N -> K] /\ (\A m, n \in 1..N : m < n => at[m] < at[n]) /\ (\A k \in K : \E n \in 1..N : at[n] = k)
  BY <1>2 DEF Counts
<1> DEFINE U(n) == T \cup {at[m] : m \in 1..n}
           P == {n \in 0..N : Lists(f[n], U(n), val)}
<1>6. 0 \in P
  <2>1. U(0) = T /\ f[0] = s /\ 0 \in 0..N
    BY <1>2, <1>4
  <2> HIDE DEF U
  <2> QED BY <2>1
<1>7. ASSUME NEW n \in 1..N, n - 1 \in P PROVE n \in P
  <2> DEFINE p == at[n]
             V == U(n - 1)
             W == U(n)
  <2>1. f[n] = Inserted(f[n - 1], p, items[p])
    BY <1>4
  <2>2. p \in K /\ p \in Nat \ {0} /\ p \in 1..M /\ p \notin T
    <3>1. p \in K
      BY <1>5
    <3> HIDE DEF p
    <3>2. p \in 1..M
      BY <3>1
    <3>3. p \in Nat \ {0} /\ p \notin T
      BY <3>1, <3>2
    <3> QED BY <3>1, <3>2, <3>3
  <2>3. \A m \in 1..(n - 1) : at[m] < p /\ at[m] \in K
    <3>1. \A m \in 1..(n - 1) : m \in 1..N /\ m < n
      BY <1>2
    <3> QED BY <1>5, <3>1
  <2>4. V \subseteq Nat \ {0} /\ p \notin V
    <3>1. \A k \in K : k \in Nat \ {0}
      OBVIOUS
    <3>2. T \subseteq Nat \ {0}
      OBVIOUS
    <3>3. \A m \in 1..(n - 1) : at[m] # p
      BY <2>2, <2>3
    <3> QED BY <2>2, <2>3, <3>1, <3>2, <3>3
  <2>5. ASSUME NEW k \in 1..(p - 1) PROVE k \in V
    <3>1. CASE k \in K
      <4>1. PICK m \in 1..N : at[m] = k
        BY <1>5, <3>1
      <4>2. ~(n < m) /\ n # m
        <5>1. k < p /\ k \in Nat /\ p \in Nat
          BY <2>2
        <5> QED BY <1>5, <4>1, <5>1
      <4>3. m \in 1..(n - 1)
        BY <1>2, <4>2
      <4> QED BY <4>1, <4>3
    <3>2. CASE k \notin K
      <4>1. k \in T
        BY <2>2, <3>2
      <4> QED BY <4>1
    <3> QED BY <3>1, <3>2
  <2>6. W = V \cup {p}
    <3>1. \A m : m \in 1..n <=> m \in 1..(n - 1) \/ m = n
      OBVIOUS
    <3> QED BY <3>1
  <2>7. Lists(f[n - 1], V, val)
    BY <1>7
  <2>8. items[p] = val[p]
    BY <2>2
  <2>9. 1..(p - 1) \subseteq V
    BY <2>5
  <2> DEFINE x == items[p]
             was == f[n - 1]
  <2> HIDE DEF p, V, W
  <2>10. Lists(f[n], W, val)
    <3>1. x = val[p] /\ f[n] = Inserted(was, p, x) /\ Lists(was, V, val)
      BY <2>1, <2>7, <2>8
    <3> HIDE DEF x, was
    <3>2. Lists(Inserted(was, p, x), W, val)
      BY <2>2, <2>4, <2>6, <2>9, <3>1, InsertLists
    <3> QED BY <3>1, <3>2
  <2>11. n \in 0..N
    OBVIOUS
  <2> QED BY <2>10, <2>11 DEF W
<1> HIDE DEF P
<1>8. 0..N \subseteq P
  BY <1>2, <1>6, <1>7, StepByStep
<1>9. Lists(f[N], U(N), val)
  <2>1. N \in P
    BY <1>2, <1>8
  <2> QED BY <2>1 DEF P
<1>10. U(N) = 1..M
  <2>1. {at[m] : m \in 1..N} = K
    BY <1>5
  <2> QED BY <2>1
<1> HIDE DEF U
<1> QED BY <1>3, <1>9, <1>10 DEF at, N

LEMMA ListsAll ==
  ASSUME NEW s, NEW M \in Nat, NEW val, Lists(s, 1..M, val)
  PROVE  IsList(s) /\ Len(s) = M /\ \A n \in 1..M : s[n] = val[n]
<1>1. PICK e : ListsBy(e, s, 1..M, val)
  BY DEF Lists
<1> DEFINE N == Len(s)
<1>2. N \in Nat /\ IsList(s)
  BY IsListFacts DEF Lists
<1>3. /\ e \in [1..N -> 1..M] /\ (\A m, n \in 1..N : m < n => e[m] < e[n]) /\ (\A k \in 1..M : \E n \in 1..N : e[n] = k)
      /\ \A n \in 1..N : s[n] = val[e[n]]
  BY <1>1 DEF ListsBy, Counts
<1> HIDE DEF N
<1>4. N = M /\ \A n \in 1..N : e[n] = n
  <2>1. Counts(e, N, 1..M)
    BY <1>1 DEF ListsBy, N
  <2>2. N \in Nat /\ M \in Nat
    BY <1>2
  <2> QED BY <2>1, <2>2, OntoInOrder
<1> QED BY <1>2, <1>3, <1>4 DEF N

SetIn(s, items, K, M) == [n \in 1..M |-> IF n \in K THEN items[n] ELSE s[n]]

LEMMA AllSetFacts ==
  ASSUME NEW M \in Nat, NEW K, K \subseteq 1..M, NEW s, IsList(s), Len(s) = M, NEW items
  PROVE  AllSet(s, items, K) = SetIn(s, items, K, M)
<1> DEFINE at == Ascending(K)
           N == Len(at)
<1>1. K \subseteq Nat /\ IsFiniteSet(K)
  <2>1. IsFiniteSet(1..M)
    <3>1. 1 \in Int /\ M \in Int
      OBVIOUS
    <3> QED BY <3>1, FS_Interval
  <2>2. K \in SUBSET (1..M)
    OBVIOUS
  <2>3. IsFiniteSet(K)
    BY <2>1, <2>2, FS_Subset
  <2> QED BY <2>3
<1>2. N \in Nat /\ Counts(at, N, K)
  BY <1>1, AscendingFacts
<1>3. PICK f : SetRun(f, s, items, at) /\ AllSet(s, items, K) = f[N]
  BY <1>2, SetRunExists
<1>4. \A n \in 0..N : f[n] = IF n = 0 THEN s ELSE SetAt(f[n - 1], at[n], items[at[n]])
  BY <1>3 DEF SetRun
<1> HIDE DEF at, N
<1>5. at \in [1..N -> K] /\ (\A k \in K : \E n \in 1..N : at[n] = k)
  BY <1>2 DEF Counts
<1> DEFINE U(n) == {at[m] : m \in 1..n}
           With1(n) == [k \in 1..M |-> IF k \in U(n) THEN items[k] ELSE s[k]]
           P == {n \in 0..N : f[n] = With1(n)}
<1>6. 0 \in P
  <2>1. U(0) = {} /\ f[0] = s /\ 0 \in 0..N
    BY <1>2, <1>4
  <2>2. With1(0) = [k \in 1..M |-> s[k]]
    BY <2>1
  <2>3. s = [k \in 1..M |-> s[k]]
    BY IsListFacts
  <2> HIDE DEF U, With1
  <2> QED BY <2>1, <2>2, <2>3
<1>7. ASSUME NEW n \in 1..N, n - 1 \in P PROVE n \in P
  <2> DEFINE p == at[n]
             w == With1(n - 1)
             x == items[p]
  <2>1. f[n] = SetAt(w, p, x) /\ n \in 0..N
    <3>1. f[n - 1] = w
      BY <1>7
    <3>2. f[n] = SetAt(f[n - 1], p, x) /\ n \in 0..N
      BY <1>4
    <3> QED BY <3>1, <3>2
  <2>2. p \in K
    BY <1>5
  <2>3. p \in 1..M
    BY <2>2
  <2>4. Len(w) = M /\ DOMAIN w = 1..M /\ \A k \in 1..M : w[k] = IF k \in U(n - 1) THEN items[k] ELSE s[k]
    <3>1. w = [k \in 1..M |-> w[k]]
      OBVIOUS
    <3>2. \A k \in 1..M : w[k] = IF k \in U(n - 1) THEN items[k] ELSE s[k]
      OBVIOUS
    <3> HIDE DEF w, U
    <3> QED BY <3>1, <3>2, MadeOf
  <2>5. \A k : k \in U(n) <=> k \in U(n - 1) \/ k = p
    <3>1. \A m : m \in 1..n <=> m \in 1..(n - 1) \/ m = n
      OBVIOUS
    <3> QED BY <3>1
  <2> HIDE DEF p, w, x, U
  <2>6. SetAt(w, p, x) = [k \in 1..M |-> IF k = p THEN x ELSE w[k]]
    <3>1. (IF p > Len(w) THEN p ELSE Len(w)) = M
      BY <2>3, <2>4
    <3>2. SetAt(w, p, x) = [k \in 1..M |-> IF k = p THEN x ELSE IF k \in DOMAIN w THEN w[k] ELSE Hole]
      BY <3>1 DEF SetAt
    <3> QED BY <2>4, <3>2
  <2>7. \A k \in 1..M : (IF k = p THEN x ELSE w[k]) = IF k \in U(n) THEN items[k] ELSE s[k]
    BY <2>4, <2>5 DEF x
  <2>8. f[n] = With1(n)
    BY <2>1, <2>6, <2>7
  <2> QED BY <2>1, <2>8
<1> HIDE DEF P
<1>8. 0..N \subseteq P
  BY <1>2, <1>6, <1>7, StepByStep
<1>9. f[N] = With1(N)
  <2>1. N \in P
    BY <1>2, <1>8
  <2> QED BY <2>1 DEF P
<1>10. U(N) = K
  BY <1>5
<1> HIDE DEF U
<1>11. With1(N) = [k \in 1..M |-> IF k \in K THEN items[k] ELSE s[k]]
  BY <1>10
<1> QED BY <1>3, <1>9, <1>11 DEF at, N, SetIn

\* Removals, insertions and updates make one list of another, if was tells where the
\* items that were not inserted were, in the same order, and what is not updated is the same.
Patches(old, items, patch, was) ==
  /\ patch.inserted \subseteq DOMAIN items /\ patch.updated \subseteq DOMAIN items
  /\ Renames(was, DOMAIN items \ patch.inserted, DOMAIN old \ patch.removed)
  /\ Taken(items, (DOMAIN items \ patch.inserted) \ patch.updated, old, was)

LEMMA PatchedList ==
  ASSUME NEW old, IsList(old), NEW items, IsList(items), NEW patch, NEW was, Patches(old, items, patch, was)
  PROVE  AllSet(AllInserted(Without(old, patch.removed), items, patch.inserted), items, patch.updated) = items
<1> DEFINE I == patch.inserted
           M == Len(items)
           K == DOMAIN old \ patch.removed
           T == 1..M \ I
           kept == Without(old, patch.removed)
           val == [n \in 1..M |-> IF n \in I THEN items[n] ELSE old[was[n]]]
           grown == AllInserted(kept, items, I)
           all == AllSet(grown, items, patch.updated)
<1>1. M \in Nat /\ DOMAIN items = 1..M /\ items = [n \in 1..M |-> items[n]]
  BY IsListFacts
<1>2. /\ I \subseteq 1..M /\ patch.updated \subseteq 1..M /\ Renames(was, T, K)
      /\ \A t \in T \ patch.updated : items[t] = old[was[t]]
  BY <1>1 DEF Patches, Taken
<1>3. Lists(kept, K, old)
  BY WithoutLists
<1>4. K \subseteq Nat /\ T \subseteq Nat
  <2>1. DOMAIN old \subseteq Nat
    BY IsListFacts
  <2> QED BY <2>1
<1>5. (\A t \in T : val[t] = old[was[t]]) /\ (\A n \in I : items[n] = val[n])
  BY <1>2
<1>13. Taken(val, T, old, was)
  BY <1>5 DEF Taken
<1>0. T = 1..M \ I
  OBVIOUS
<1> HIDE DEF val, kept, K, T, I, M
<1>6. Lists(kept, T, val)
  BY <1>2, <1>3, <1>4, <1>13, Relisted
<1>7. Lists(grown, 1..M, val)
  BY <1>0, <1>1, <1>2, <1>5, <1>6, AllInsertedLists
<1> HIDE DEF grown
<1>12. M \in Nat
  BY <1>1
<1>8. IsList(grown) /\ Len(grown) = M /\ \A n \in 1..M : grown[n] = val[n]
  BY <1>7, <1>12, ListsAll
<1>9. all = SetIn(grown, items, patch.updated, M)
  BY <1>2, <1>8, <1>12, AllSetFacts
<1>10. \A n \in 1..M : (IF n \in patch.updated THEN items[n] ELSE grown[n]) = items[n]
  <2> SUFFICES ASSUME NEW n \in 1..M, n \notin patch.updated PROVE grown[n] = items[n]
    OBVIOUS
  <2>1. grown[n] = val[n]
    BY <1>8
  <2>2. CASE n \in I
    BY <1>5, <2>1, <2>2
  <2>3. CASE n \notin I
    <3>1. n \in T /\ items[n] = old[was[n]]
      BY <1>0, <1>2, <2>3
    <3> QED BY <1>5, <2>1, <3>1
  <2> QED BY <2>2, <2>3
<1> HIDE DEF all
<1>11. all = items
  BY <1>1, <1>9, <1>10 DEF SetIn
<1> QED BY <1>11 DEF all, grown, kept, I

-----------------------------------------------------------------------------
(* What is sent: a list that is not patched, or a patch of the list that    *)
(* was sent before.                                                         *)
PatchesTo(b, r) == r.patch.kind = "none" \/ \E was : Patches(b.items, r.items, r.patch, was)

StablePatch(b) ==
  /\ b.patch.kind \in {"none", "stable", "splice"}
  /\ b.patch.kind = "stable" =>
       b.patch.removed = {} /\ b.patch.inserted = {} /\ b.patch.updated \subseteq DOMAIN b.items

WasSent(p) == p.known => p.array = p.items /\ p.len = Len(p.items)

LEMMA InPlacePatches ==
  ASSUME NEW b, NEW r, IsList(b.items), KeptInPlace(b, r)
  PROVE  PatchesTo(b, r) /\ StablePatch(r)
<1> DEFINE T == DOMAIN b.items
           was == [n \in T |-> n]
<1>1. T \subseteq Nat
  BY IsListFacts
<1>2. \A n \in T : was[n] = n
  OBVIOUS
<1> HIDE DEF was
<1>3. Renames(was, T, T)
  BY <1>2 DEF Renames
<1>4. /\ r.patch.kind = "stable" /\ r.patch.removed = {} /\ r.patch.inserted = {} /\ r.patch.updated \subseteq T
      /\ DOMAIN r.items = T /\ \A n \in T \ r.patch.updated : r.items[n] = b.items[n]
  BY DEF KeptInPlace
<1> HIDE DEF T
<1>5. Taken(r.items, T \ r.patch.updated, b.items, was)
  BY <1>2, <1>4 DEF Taken
<1>6. DOMAIN r.items \ r.patch.inserted = T /\ T \ r.patch.removed = T /\ r.patch.inserted \subseteq T
  BY <1>4
<1>7. Patches(b.items, r.items, r.patch, was)
  BY <1>3, <1>4, <1>5, <1>6 DEF Patches, T
<1>8. PatchesTo(b, r)
  BY <1>7 DEF PatchesTo
<1>9. StablePatch(r)
  BY <1>4 DEF StablePatch
<1> QED BY <1>8, <1>9

LEMMA SplicePatches ==
  ASSUME NEW b, ListOK(b), NEW rows, DistinctIds(rows), Spliceable(b, rows), NEW x, NEW r, NEW patch,
         HoldsList(r, rows, SpliceItems(b, x, rows), patch), patch = SplicePatch(b, x, rows)
  PROVE  PatchesTo(b, r) /\ StablePatch(r)
<1> DEFINE items == SpliceItems(b, x, rows)
           was == WasAt(b, rows)
           S == Stayed(b, rows)
           K == DOMAIN b.items \ patch.removed
<1>1. r.items = items /\ r.patch = patch /\ DOMAIN items = DOMAIN rows /\ DOMAIN b.items = DOMAIN b.rows /\ DistinctIds(b.rows)
  BY DEF HoldsList, SpliceItems, ListOK
<1>2. /\ patch.kind = "splice" /\ patch.removed = {n \in DOMAIN b.rows : b.rows[n].id \notin Ids(rows)}
      /\ patch.inserted = DOMAIN rows \ S /\ patch.updated = {n \in S : items[n] # b.items[was[n]]}
  BY DEF SplicePatch
<1>3. /\ S \subseteq DOMAIN rows
      /\ \A n \in S : was[n] \in DOMAIN b.rows /\ b.rows[was[n]].id = rows[n].id
      /\ \A m, n \in S : m < n => was[m] < was[n]
      /\ \A k \in DOMAIN b.rows : b.rows[k].id \in Ids(rows) => \E n \in S : was[n] = k
  BY <1>1, StayedFacts
<1> HIDE DEF items, was, S
<1>4. \A n \in DOMAIN rows : rows[n].id \in Ids(rows)
  BY DEF Ids
<1>5. Renames(was, S, K)
  BY <1>1, <1>2, <1>3, <1>4 DEF Renames
<1>6. DOMAIN items \ patch.inserted = S
  BY <1>1, <1>2, <1>3
<1>7. Taken(items, S \ patch.updated, b.items, was)
  BY <1>2 DEF Taken
<1>8. patch.inserted \subseteq DOMAIN items /\ patch.updated \subseteq DOMAIN items
  BY <1>1, <1>2, <1>3
<1>9. Patches(b.items, items, patch, was)
  BY <1>5, <1>6, <1>7, <1>8 DEF Patches
<1>10. PatchesTo(b, r)
  BY <1>1, <1>9 DEF PatchesTo
<1>11. StablePatch(r)
  BY <1>1, <1>2 DEF StablePatch
<1> QED BY <1>10, <1>11

LEMMA NothingPatched ==
  ASSUME NEW b, NEW r, r.patch = NoPatch
  PROVE  PatchesTo(b, r) /\ StablePatch(r)
<1>1. r.patch.kind = "none"
  BY DEF NoPatch
<1> QED BY <1>1 DEF PatchesTo, StablePatch

LEMMA RenderPatches ==
  ASSUME NEW d, NEW p, Selects(d, p), NEW b, BatchOK(p, b), ListOK(b), NEW rows, DistinctIds(rows), Aligned(b, rows),
         StablePatch(b), NEW r, r = RenderList(d, p, b, rows)
  PROVE  (PatchesTo(b, r) \/ SplicedAgain(b, rows)) /\ StablePatch(r)
<1>0. IsList(b.items) /\ IsBatch(b)
  BY DEF ListOK, BatchOK
<1>1. CASE rows = <<>>
  <2>1. r = Listed(b, <<>>, <<>>, NoPatch)
    BY <1>1 DEF RenderList
  <2>2. IsListed(b, <<>>, <<>>, NoPatch, r)
    BY <1>0, <2>1, ListedFacts
  <2>3. r.patch = NoPatch
    BY <2>2 DEF IsListed
  <2> QED BY <2>3, NothingPatched
<1>2. CASE rows # <<>> /\ b.rows # <<>> /\ InPlace(b, rows) /\ b.dirty = {}
  <2>1. r = b
    BY <1>2 DEF RenderList
  <2>2. CASE b.patch.kind = "none"
    BY <2>1, <2>2 DEF PatchesTo
  <2>3. CASE b.patch.kind = "stable"
    <3>1. KeptInPlace(b, b)
      BY <2>3 DEF StablePatch, KeptInPlace
    <3> QED BY <1>0, <2>1, <3>1, InPlacePatches
  <2>4. CASE b.patch.kind = "splice"
    BY <1>2, <2>1, <2>4 DEF SplicedAgain
  <2> QED BY <2>1, <2>2, <2>3, <2>4 DEF StablePatch
<1>3. CASE rows # <<>> /\ b.rows # <<>> /\ InPlace(b, rows) /\ b.dirty # {}
  <2>1. r = RenderInPlace(d, p, b, rows)
    BY <1>3 DEF RenderList
  <2>2. KeptInPlace(b, r)
    BY <1>3, <2>1, InPlaceListed
  <2> QED BY <1>0, <2>2, InPlacePatches
<1>4. CASE rows # <<>> /\ b.rows # <<>> /\ ~InPlace(b, rows) /\ Spliceable(b, rows)
  <2>1. r = RenderSplice(d, p, b, rows)
    BY <1>4 DEF RenderList
  <2>2. \E x : HoldsList(r, rows, SpliceItems(b, x, rows), SplicePatch(b, x, rows))
    BY <1>4, <2>1, SpliceListed
  <2>3. PICK x : HoldsList(r, rows, SpliceItems(b, x, rows), SplicePatch(b, x, rows))
    BY <2>2
  <2> QED BY <1>4, <2>3, SplicePatches
<1>5. CASE rows # <<>> /\ ~(b.rows # <<>> /\ (InPlace(b, rows) \/ Spliceable(b, rows)))
  <2> DEFINE x == Rendered(d, p, b, ToSet(rows))
  <2>1. r = RenderAll(x, rows)
    BY <1>5 DEF RenderList
  <2>2. IsBatch(x)
    <3>1. Grown(d, p, b, x)
      BY RenderedFacts
    <3> QED BY <3>1 DEF Grown, BatchOK
  <2> HIDE DEF x
  <2> DEFINE items == Items(x, rows)
  <2>4. r = Listed(x, rows, items, NoPatch)
    BY <2>1 DEF RenderAll
  <2> HIDE DEF items
  <2>5. IsListed(x, rows, items, NoPatch, r)
    BY <2>2, <2>4, ListedFacts
  <2>3. r.patch = NoPatch
    BY <2>5 DEF IsListed
  <2> QED BY <2>3, NothingPatched
<1> QED BY <1>1, <1>2, <1>3, <1>4, <1>5

LEMMA MaterializedSent ==
  ASSUME NEW p, IsPayload(p), WasSent(p), NEW b, IsList(b.items), p.known => p.items = b.items,
         NEW r, IsList(r.items), PatchesTo(b, r)
  PROVE  WasSent(Materialized(p, r))
<1> DEFINE made == [known |-> TRUE, items |-> r.items, dirty |-> FALSE, array |-> Encoded(p, r), len |-> Len(r.items)]
<1>1. Materialized(p, r) = IF Differs(p, r) THEN made ELSE [p EXCEPT !.dirty = FALSE]
  BY DEF Materialized
<1>2. made.items = r.items /\ made.array = Encoded(p, r) /\ made.len = Len(r.items)
  OBVIOUS
<1>3. Encoded(p, r) = r.items
  <2>1. CASE r.patch.kind = "none" \/ ~p.known \/ (r.patch.kind = "stable" /\ p.len # Len(r.items))
    BY <2>1 DEF Encoded
  <2>2. CASE ~(r.patch.kind = "none" \/ ~p.known \/ (r.patch.kind = "stable" /\ p.len # Len(r.items)))
    <3> DEFINE old == Cut(p.array, 1, p.len)
    <3>1. Encoded(p, r) = AllSet(AllInserted(Without(old, r.patch.removed), r.items, r.patch.inserted), r.items, r.patch.updated)
      BY <2>2 DEF Encoded
    <3>2. p.array = b.items /\ p.len = Len(b.items)
      BY <2>2 DEF WasSent
    <3>3. old = b.items
      <4>1. b.items \in Seq(ToSet(b.items)) /\ Len(b.items) \in Nat
        BY IsListFacts DEF IsList
      <4> QED BY <3>2, <4>1, CutFacts
    <3>4. PICK was : Patches(b.items, r.items, r.patch, was)
      BY <2>2 DEF PatchesTo
    <3> HIDE DEF old
    <3> QED BY <3>1, <3>3, <3>4, PatchedList
  <2> QED BY <2>1, <2>2
<1> HIDE DEF made
<1>4. CASE Differs(p, r)
  BY <1>1, <1>2, <1>3, <1>4 DEF WasSent
<1>5. CASE ~Differs(p, r)
  <2> DEFINE s == [p EXCEPT !.dirty = FALSE]
  <2>1. s.known = p.known /\ s.items = p.items /\ s.array = p.array /\ s.len = p.len
    BY DEF IsPayload
  <2> HIDE DEF s
  <2>2. WasSent(s)
    BY <2>1 DEF WasSent
  <2> QED BY <1>1, <1>5, <2>2 DEF s
<1> QED BY <1>4, <1>5

-----------------------------------------------------------------------------
(* The payload has the items of the list, and a payload that is not dirty   *)
(* those of the present rows.                                               *)
PayloadOK(o, rows) ==
  /\ o.payload.known => o.payload.items = o.batch.items
  /\ ~o.payload.known => o.batch.rows = <<>> /\ o.payload.dirty
  /\ o.payload.known /\ ~o.payload.dirty => o.batch.dirty = {} /\ ~o.batch.full /\ o.batch.rows = rows

\* The array that was encoded last is those items, patch upon patch, unless a splice was
\* applied again.
SentOK(o) == "spliced" \notin o.slips => WasSent(o.payload) /\ StablePatch(o.batch)

Showing(o, rows) == ListOK(o.batch) /\ Aligned(o.batch, rows) /\ PayloadOK(o, rows) /\ SentOK(o)
UpToNow(o) == o.payload.known /\ ~o.payload.dirty

\* The callback was last called with that array.
Heard(o) == "spliced" \notin o.slips => o.heard = o.payload.array
Answering(o) == stage = "listening" => UpToNow(o) /\ Heard(o)

LEMMA ListedAligned ==
  ASSUME NEW b, NEW rows, b.rows = rows
  PROVE  Aligned(b, rows)
BY DEF Aligned

LEMMA MaterializedShows ==
  ASSUME NEW p, IsPayload(p), NEW b, NEW r, NEW rows, AllListed(b, rows, r),
         p.known => p.items = b.items, ~p.known => b.rows = <<>>
  PROVE  Materialized(p, r).known /\ ~Materialized(p, r).dirty /\ Materialized(p, r).items = r.items
<1> DEFINE made == [known |-> TRUE, items |-> r.items, dirty |-> FALSE, array |-> Encoded(p, r), len |-> Len(r.items)]
<1>1. Materialized(p, r) = IF Differs(p, r) THEN made ELSE [p EXCEPT !.dirty = FALSE]
  BY DEF Materialized
<1>2. made.known /\ ~made.dirty /\ made.items = r.items
  OBVIOUS
<1> HIDE DEF made
<1>3. CASE Differs(p, r)
  BY <1>1, <1>2, <1>3
<1>4. CASE ~Differs(p, r)
  <2>1. p.known /\ p.items = r.items
    <3>1. CASE r.patch.kind = "none"
      BY <1>4, <3>1 DEF Differs
    <3>2. CASE r.patch.kind # "none"
      <4>1. r.patch.removed \cup r.patch.inserted \cup r.patch.updated = {}
        BY <1>4, <3>2 DEF Differs
      <4> QED BY <3>2, <4>1 DEF AllListed
    <3> QED BY <3>1, <3>2
  <2> DEFINE s == [p EXCEPT !.dirty = FALSE]
  <2>2. s.known = p.known /\ s.items = p.items /\ ~s.dirty
    BY DEF IsPayload
  <2> QED BY <1>1, <1>4, <2>1, <2>2
<1> QED BY <1>3, <1>4

LEMMA EmittedPayload ==
  ASSUME NEW o, NEW b, NEW again
  PROVE  /\ Emitted(o, b, again).payload = Materialized(o.payload, b)
         /\ Emitted(o, b, again).batch = b
         /\ Emitted(o, b, again).heard = IF Differs(o.payload, b) THEN Materialized(o.payload, b).array ELSE o.heard
         /\ Emitted(o, b, again).slips = o.slips \cup (IF again THEN {"spliced"} ELSE {})
BY DEF Emitted

LEMMA RespondedShows ==
  ASSUME Selects(db, q), NEW o, NEW D, ObservableOK(db, q, o, D), NEW rows, DistinctIds(rows), Showing(o, rows)
  PROVE  /\ Showing(Responded(o, rows), rows) /\ UpToNow(Responded(o, rows))
         /\ Heard(o) => Heard(Responded(o, rows))
<1> DEFINE r == RenderList(db, q, o.batch, rows)
           n == Responded(o, rows)
<1>1. IsPayload(o.payload) /\ BatchOK(q, o.batch)
  BY DEF ObservableOK, IsObservable
<1>2. AllListed(o.batch, rows, r)
  BY <1>1, AlwaysListed DEF Showing
<1> DEFINE again == SplicedAgain(o.batch, rows)
<1>3. /\ n.payload = Materialized(o.payload, r) /\ n.batch = r
      /\ n.heard = IF Differs(o.payload, r) THEN n.payload.array ELSE o.heard
      /\ n.slips = o.slips \cup (IF again THEN {"spliced"} ELSE {})
  BY EmittedPayload DEF Responded
<1>8. r = RenderList(db, q, o.batch, rows) /\ again = SplicedAgain(o.batch, rows)
  OBVIOUS
<1> HIDE DEF r, n, again
<1>9. ASSUME StablePatch(o.batch) PROVE (PatchesTo(o.batch, r) \/ again) /\ StablePatch(r)
  BY <1>1, <1>8, <1>9, RenderPatches DEF Showing
<1>4. n.payload.known /\ ~n.payload.dirty /\ n.payload.items = n.batch.items
  BY <1>1, <1>2, <1>3, MaterializedShows DEF Showing, PayloadOK
<1>5. n.batch.rows = rows /\ n.batch.dirty = {} /\ ~n.batch.full /\ ListOK(n.batch)
  BY <1>2, <1>3 DEF AllListed
<1>6. Aligned(n.batch, rows)
  BY <1>5, ListedAligned
<1>10. ASSUME "spliced" \notin n.slips PROVE WasSent(n.payload) /\ StablePatch(n.batch)
  <2>1. "spliced" \notin o.slips /\ ~again
    BY <1>3, <1>10
  <2>2. WasSent(o.payload) /\ StablePatch(o.batch)
    BY <2>1 DEF Showing, SentOK
  <2>3. IsList(o.batch.items) /\ IsList(r.items) /\ (o.payload.known => o.payload.items = o.batch.items)
    BY <1>3, <1>5 DEF Showing, ListOK, PayloadOK
  <2>4. PatchesTo(o.batch, r) /\ StablePatch(r)
    BY <1>9, <2>1, <2>2
  <2>5. WasSent(Materialized(o.payload, r))
    BY <1>1, <2>2, <2>3, <2>4, MaterializedSent
  <2> QED BY <1>3, <2>4, <2>5
<1>7. Showing(n, rows) /\ UpToNow(n)
  BY <1>4, <1>5, <1>6, <1>10 DEF Showing, PayloadOK, SentOK, UpToNow
<1>11. ASSUME Heard(o), "spliced" \notin n.slips PROVE n.heard = n.payload.array
  <2>1. o.heard = o.payload.array
    BY <1>3, <1>11 DEF Heard
  <2>2. CASE Differs(o.payload, r)
    BY <1>3, <2>2
  <2>3. CASE ~Differs(o.payload, r)
    <3>1. n.payload = [o.payload EXCEPT !.dirty = FALSE]
      BY <1>3, <2>3 DEF Materialized
    <3>2. n.payload.array = o.payload.array
      BY <1>1, <3>1 DEF IsPayload
    <3> QED BY <1>3, <2>1, <2>3, <3>2
  <2> QED BY <2>2, <2>3
<1> QED BY <1>7, <1>11 DEF n, Heard

LEMMA InvalidateShows ==
  ASSUME IsTree(q), NEW o, NEW D, ObservableOK(db, q, o, D), NEW rows, Showing(o, rows), NEW inv,
         NEW now, Aligned(Invalidate(o, inv).batch, now)
  PROVE  Showing(Invalidate(o, inv), now)
<1> DEFINE n == Invalidate(o, inv)
           b == o.batch
           c == n.batch
<1>1. c = ApplyInvalidation(q, b, inv) /\ n.payload = [o.payload EXCEPT !.dirty = TRUE] /\ IsPayload(o.payload) /\ BatchOK(q, b)
  BY InvalidateFacts DEF ObservableOK, IsObservable
<1>2. IsInvalidated(q, b, inv, c)
  BY <1>1, InvalidationFacts
<1>3. n.payload.known = o.payload.known /\ n.payload.items = o.payload.items /\ n.payload.dirty
      /\ n.payload.array = o.payload.array /\ n.payload.len = o.payload.len
  BY <1>1 DEF IsPayload
<1>8. n.slips = o.slips
  BY InvalidateFacts DEF ObservableOK
<1> HIDE DEF n, b, c
<1>4. ListOK(b) /\ c.rows = b.rows /\ c.items = b.items
  BY <1>2 DEF Showing, IsInvalidated, b
<1>5. ASSUME NEW k \in DOMAIN b.rows, b.rows[k].id \notin c.dirty
      PROVE  <<0, b.rows[k]>> \in DOMAIN c.cache /\ b.items[k] = c.cache[<<0, b.rows[k]>>]
  <2> DEFINE e == <<0, b.rows[k]>>
  <2>1. b.rows[k].id \notin b.dirty
    BY <1>2, <1>5 DEF IsInvalidated
  <2>2. e \in DOMAIN b.cache /\ b.items[k] = b.cache[e]
    BY <1>4, <2>1 DEF ListOK
  <2>3. e[1] = 0 /\ e[2] = b.rows[k]
    OBVIOUS
  <2> HIDE DEF e
  <2>4. e \in DOMAIN c.cache
    BY <1>2, <1>5, <2>2, <2>3 DEF IsInvalidated
  <2>5. c.cache[e] = b.cache[e]
    BY <1>2, <2>4 DEF IsInvalidated, Within
  <2> QED BY <2>2, <2>4, <2>5 DEF e
<1>6. ListOK(c)
  BY <1>4, <1>5 DEF ListOK
<1>7. PayloadOK(n, now)
  BY <1>3, <1>4 DEF Showing, PayloadOK, b, c
<1>9. SentOK(n)
  <2>1. SentOK(o)
    BY DEF Showing
  <2>2. c.patch = b.patch /\ c.items = b.items
    BY <1>2, <1>4 DEF IsInvalidated
  <2>3. StablePatch(b) => StablePatch(c)
    BY <2>2 DEF StablePatch
  <2>4. WasSent(o.payload) => WasSent(n.payload)
    BY <1>3 DEF WasSent
  <2> QED BY <1>8, <2>1, <2>3, <2>4 DEF SentOK, b, c
<1> QED BY <1>6, <1>7, <1>9 DEF Showing, n, c

LEMMA InvalidateHeard ==
  ASSUME NEW o, IsObservable(o), NEW inv, Heard(o)
  PROVE  Heard(Invalidate(o, inv))
<1> DEFINE n == Invalidate(o, inv)
<1>1. n.slips = o.slips /\ n.heard = o.heard /\ n.payload = [o.payload EXCEPT !.dirty = TRUE]
  BY InvalidateFacts
<1>2. n.payload.array = o.payload.array
  BY <1>1 DEF IsPayload, IsObservable
<1> HIDE DEF n
<1> QED BY <1>1, <1>2 DEF Heard, n

\* Nothing but more dirty rows.
LEMMA StillAligned ==
  ASSUME NEW b, NEW c, NEW rows, Aligned(b, rows), c.rows = b.rows, b.dirty \subseteq c.dirty, b.full => c.full
  PROVE  Aligned(c, rows)
BY DEF Aligned

-----------------------------------------------------------------------------
(* The snapshot lane, flush after flush.                                    *)
LEMMA ListingDistinct ==
  ASSUME NEW p, NEW s, RootListing(p, s)
  PROVE  DistinctIds(RowsAt(p.root, s))
<1> DEFINE r == RowsAt(p.root, s)
<1>1. Len(s) \in Nat /\ DOMAIN s = 1..Len(s)
  BY IsListFacts DEF RootListing
<1>2. r = [n \in 1..Len(s) |-> s[n][p.root]]
  BY <1>1 DEF RowsAt
<1>3. \A n \in 1..Len(s) : r[n] = s[n][p.root]
  BY <1>2
<1>4. r = [n \in 1..Len(s) |-> r[n]]
  BY <1>2
<1> HIDE DEF r
<1>5. IsList(r) /\ DOMAIN r = 1..Len(s)
  BY <1>1, <1>4, MadeOf
<1>6. DistinctIds(r)
  BY <1>1, <1>3, <1>5 DEF DistinctIds, RootListing
<1> QED BY <1>6 DEF r

LEMMA ShowsAlike ==
  ASSUME NEW o, NEW u, o.batch = u.batch, o.payload = u.payload, "spliced" \in o.slips => "spliced" \in u.slips, NEW rows
  PROVE  /\ Showing(o, rows) => Showing(u, rows)
         /\ UpToNow(o) => UpToNow(u)
         /\ u.heard = o.heard /\ Heard(o) => Heard(u)
BY DEF Showing, PayloadOK, SentOK, UpToNow, Heard

LEMMA SlipsShow ==
  ASSUME NEW o, IsObservable(o), NEW s, "spliced" \in o.slips => "spliced" \in s, NEW rows
  PROVE  /\ Showing(o, rows) => Showing([o EXCEPT !.slips = s], rows)
         /\ Answering(o) => Answering([o EXCEPT !.slips = s])
<1> DEFINE u == [o EXCEPT !.slips = s]
<1>1. u.batch = o.batch /\ u.payload = o.payload /\ u.heard = o.heard /\ u.slips = s
  BY DEF IsObservable
<1> HIDE DEF u
<1>2. (Showing(o, rows) => Showing(u, rows)) /\ (UpToNow(o) => UpToNow(u)) /\ (Heard(o) => Heard(u))
  BY <1>1, ShowsAlike
<1> QED BY <1>2 DEF u, Answering

\* Nothing is rendered while there is no callback.
LEMMA ToldShows ==
  ASSUME Selects(db, q), NEW o, NEW D, ObservableOK(db, q, o, D), NEW rows, DistinctIds(rows), Showing(o, rows),
         stage = "listening" => Heard(o)
  PROVE  Showing(Told(o, rows), rows) /\ Answering(Told(o, rows))
<1>1. CASE stage = "listening"
  <2>1. Told(o, rows) = Responded(o, rows)
    BY <1>1 DEF Told
  <2>2. Showing(Responded(o, rows), rows) /\ UpToNow(Responded(o, rows)) /\ Heard(Responded(o, rows))
    BY <1>1, RespondedShows
  <2> QED BY <2>1, <2>2 DEF Answering
<1>2. CASE stage # "listening"
  <2>1. Told(o, rows) = o
    BY <1>2 DEF Told
  <2> QED BY <1>2, <2>1 DEF Answering
<1> QED BY <1>1, <1>2

ListInv ==
  scenario.api # "rows" /\ "misplaced" \notin obs.slips =>
    /\ DistinctIds(RootRows(result)) /\ Showing(obs, RootRows(result))
    /\ Answering(obs)
    /\ stage = "none" => ~obs.payload.known

LEMMA SnapshotShows ==
  ASSUME CacheInv, ListInv, SnapshotFlush, NEW d, RootsSince(d), "misplaced" \notin obs'.slips
  PROVE  DistinctIds(RootRows(result')) /\ Showing(obs', RootRows(result')) /\ Answering(obs')
<1> DEFINE inv == [root |-> result' # result,
                   dirty |-> IF RegroupsRoots THEN Roots ELSE ids[q.root], stable |-> FALSE,
                   tables |-> {}, rows |-> ids, keys |-> UNION {DirtyKeys(q, t, deltas[t]) : t \in DOMAIN db}]
           early == result' = result /\ Changed \subseteq {q.root}
           o == IF early THEN obs ELSE Told(Invalidate(obs, inv), RootRows(result'))
           s == (o.slips \ {"behind"}) \cup Slips(early)
           D == deltas'
           now == RootRows(result')
<1>1. Typed /\ scenario.api # "rows" /\ ObservableOK(db, q, obs, deltas) /\ obs' = [o EXCEPT !.slips = s]
  BY DEF CacheInv, SnapshotFlush
<1>2. Selects(db, q) /\ \A m \in DOMAIN q.nested : q.nested[m].root \in DOMAIN db
  BY <1>1, SelectsTables, NodeRoots
<1>3. DistinctIds(now)
  <2>1. RootsKept(db, q, result', runtime', obs'.slips)
    BY SnapshotRoots
  <2>2. RootListing(q, result')
    BY <2>1 DEF RootsKept
  <2> QED BY <2>2, ListingDistinct DEF RootRows
<1>4. "misplaced" \notin obs.slips
  BY SlipsAfter
<1>5. Showing(obs, RootRows(result)) /\ Answering(obs)
  BY <1>1, <1>4 DEF ListInv
<1>6. IsObservable(o) /\ Showing(o, now) /\ Answering(o)
  <2>1. CASE early
    <3>1. o = obs /\ result' = result
      BY <2>1
    <3> HIDE DEF o, early
    <3> QED BY <1>1, <1>5, <3>1 DEF ObservableOK
  <2>2. CASE ~early
    <3> DEFINE i == Invalidate(obs, inv)
    <3>1. o = Told(i, now)
      BY <2>2
    <3>2. (\A t \in DOMAIN db : DirtyKeys(q, t, deltas[t]) \subseteq inv.keys) /\ inv.root = (result' # result) /\ ~inv.stable
      OBVIOUS
    <3> HIDE DEF inv, early, s, D, now
    <3>3. ObservableOK(db, q, i, D)
      BY <1>1, <1>2, <3>2, InvalidateOK
    <3>4. i.batch = ApplyInvalidation(q, obs.batch, inv)
      <4>1. IsObservable(obs)
        BY <1>1 DEF ObservableOK
      <4> QED BY <4>1, InvalidateFacts
    <3>5. IsInvalidated(q, obs.batch, inv, i.batch)
      BY <1>1, <1>2, <3>4, SelectsTree, InvalidationFacts DEF ObservableOK
    <3>6. Aligned(i.batch, now)
      <4>1. CASE result' # result
        BY <3>2, <3>5, <4>1 DEF IsInvalidated, Aligned
      <4>2. CASE result' = result
        <5>1. Aligned(obs.batch, now)
          BY <1>5, <4>2 DEF Showing, now
        <5>2. i.batch.rows = obs.batch.rows /\ obs.batch.dirty \subseteq i.batch.dirty /\ (obs.batch.full => i.batch.full)
          BY <3>5 DEF IsInvalidated
        <5> QED BY <5>1, <5>2, StillAligned
      <4> QED BY <4>1, <4>2
    <3>7. Showing(i, now)
      BY <1>1, <1>2, <1>5, <3>6, SelectsTree, InvalidateShows
    <3>9. stage = "listening" => Heard(i)
      BY <1>1, <1>5, InvalidateHeard DEF Answering, ObservableOK
    <3> HIDE DEF i
    <3>8. ObservableOK(db, q, Told(i, now), D) /\ Showing(Told(i, now), now) /\ Answering(Told(i, now))
      BY <1>2, <1>3, <3>3, <3>7, <3>9, ToldOK, ToldShows
    <3> HIDE DEF o
    <3> QED BY <3>1, <3>8 DEF ObservableOK
  <2> QED BY <2>1, <2>2
<1>8. "spliced" \in o.slips => "spliced" \in s
  OBVIOUS
<1> HIDE DEF o, s, now
<1>7. Showing(obs', now) /\ Answering(obs')
  BY <1>1, <1>6, <1>8, SlipsShow
<1> QED BY <1>3, <1>7 DEF now

-----------------------------------------------------------------------------
(* What a flush of the delta lane does to the root list.                    *)
Signed(out) == \A n \in DOMAIN out : out[n].d \in {-1, 1}

Opposite(d, e) == d.row.id = e.row.id /\ (d.d = 1 => e.d = -1) /\ (d.d = -1 => e.d = 1)

LEMMA OneEach ==
  ASSUME NEW out, IsDeltas(out), Signed(out), PositionsKept(out)
  PROVE  /\ \A m, k \in DOMAIN out : out[m].row.id = out[k].row.id /\ out[m].d = out[k].d => m = k
         /\ \A m \in DOMAIN out : \E k \in DOMAIN out : Opposite(out[m], out[k])
<1> DEFINE N == Len(out)
           Pos == {n \in DOMAIN out : out[n].d = 1}
           Neg == {n \in DOMAIN out : out[n].d = -1}
           I == {out[n].row.id : n \in Pos}
           J == {out[n].row.id : n \in Neg}
           f == [n \in Pos |-> out[n].row.id]
           g == [n \in Neg |-> out[n].row.id]
<1>1. N \in Nat /\ DOMAIN out = 1..N
  BY IsListFacts DEF IsDeltas
<1>2. I = J /\ N = 2 * Cardinality(I)
  BY DEF PositionsKept
<1>3. IsFiniteSet(1..N) /\ Cardinality(1..N) = N
  <2>1. \A m, n \in Int : IsFiniteSet(m..n) /\ Cardinality(m..n) = (IF m > n THEN 0 ELSE n - m + 1)
    BY FS_Interval
  <2>2. 1 \in Int /\ N \in Int /\ (1 > N => N = 0) /\ N - 1 + 1 = N
    BY <1>1
  <2> QED BY <2>1, <2>2
<1>4. Pos \cup Neg = 1..N /\ Pos \cap Neg = {}
  BY <1>1 DEF Signed
<1>5. Pos \in SUBSET (1..N) /\ Neg \in SUBSET (1..N)
  BY <1>4
<1>6. f \in Surjection(Pos, I) /\ g \in Surjection(Neg, J)
  BY DEF Surjection
<1>7. \A n \in Pos : f[n] = out[n].row.id
  OBVIOUS
<1>8. \A n \in Neg : g[n] = out[n].row.id
  OBVIOUS
<1>9. \A m \in DOMAIN out : m \in Pos \/ m \in Neg
  BY <1>1, <1>4
<1>10. \A m : (m \in Pos <=> m \in DOMAIN out /\ out[m].d = 1) /\ (m \in Neg <=> m \in DOMAIN out /\ out[m].d = -1)
  OBVIOUS
<1>11. (\A i \in I : \E n \in Pos : out[n].row.id = i) /\ (\A i \in J : \E n \in Neg : out[n].row.id = i)
       /\ (\A n \in Pos : out[n].row.id \in I) /\ (\A n \in Neg : out[n].row.id \in J)
  OBVIOUS
<1> HIDE DEF Pos, Neg, I, J, f, g, N
<1>12. IsFiniteSet(Pos) /\ IsFiniteSet(Neg) /\ Cardinality(Pos) \in Nat /\ Cardinality(Neg) \in Nat
  BY <1>3, <1>5, FS_Subset, FS_CardinalityType
<1>13. Cardinality(Pos) + Cardinality(Neg) = N
  <2>1. Cardinality(Pos \cup Neg) = Cardinality(Pos) + Cardinality(Neg) - Cardinality(Pos \cap Neg)
    BY <1>12, FS_Union
  <2>2. Cardinality(Pos \cap Neg) = 0
    BY <1>4, FS_EmptySet
  <2>3. Cardinality(Pos \cup Neg) = N
    BY <1>3, <1>4
  <2> QED BY <1>12, <2>1, <2>2, <2>3
<1>14. /\ IsFiniteSet(I) /\ Cardinality(I) <= Cardinality(Pos) /\ (Cardinality(I) = Cardinality(Pos) <=> f \in Injection(Pos, I))
       /\ IsFiniteSet(J) /\ Cardinality(J) <= Cardinality(Neg) /\ (Cardinality(J) = Cardinality(Neg) <=> g \in Injection(Neg, J))
  BY <1>6, <1>12, FS_Surjection
<1>15. Cardinality(I) \in Nat
  BY <1>14, FS_CardinalityType
<1>16. Cardinality(I) = Cardinality(Pos) /\ Cardinality(J) = Cardinality(Neg)
  BY <1>2, <1>12, <1>13, <1>14, <1>15
<1>17. (\A m, k \in Pos : f[m] = f[k] => m = k) /\ (\A m, k \in Neg : g[m] = g[k] => m = k)
  BY <1>14, <1>16 DEF Injection, IsInjective
<1>18. ASSUME NEW m \in DOMAIN out, NEW k \in DOMAIN out, out[m].row.id = out[k].row.id, out[m].d = out[k].d
       PROVE  m = k
  BY <1>7, <1>8, <1>9, <1>10, <1>17, <1>18
<1>19. ASSUME NEW m \in DOMAIN out PROVE \E k \in DOMAIN out : Opposite(out[m], out[k])
  <2>1. CASE m \in Pos
    <3>1. PICK k \in Neg : out[k].row.id = out[m].row.id
      BY <1>2, <1>11, <2>1
    <3> QED BY <1>10, <2>1, <3>1 DEF Opposite
  <2>2. CASE m \in Neg
    <3>1. PICK k \in Pos : out[k].row.id = out[m].row.id
      BY <1>2, <1>11, <2>2
    <3> QED BY <1>10, <2>2, <3>1 DEF Opposite
  <2> QED BY <1>9, <2>1, <2>2
<1> QED BY <1>18, <1>19

LEMMA TurnsWhenBack ==
  ASSUME NEW v, ViewOK(v), NEW out, IsDeltas(out), Signed(out), PositionsKept(out),
         DeltaIds(out) \subseteq Ids(ViewRows(Applied(v, out)))
  PROVE  Turns(out)
<1> DEFINE N == Len(out)
           w == Applied(v, out)
<1>1. N \in Nat /\ DOMAIN out = 1..N
  BY IsListFacts DEF IsDeltas
<1>2. /\ \A m, k \in DOMAIN out : out[m].row.id = out[k].row.id /\ out[m].d = out[k].d => m = k
      /\ \A m \in DOMAIN out : \E k \in DOMAIN out : Opposite(out[m], out[k])
  BY OneEach
<1>3. ViewOK(w) /\ After(Holding(v), out, N, Holding(w))
  BY AppliedFacts
<1>4. IsList(ViewRows(w)) /\ ToSet(ViewRows(w)) = Holding(w)
  BY <1>3, ViewRowsFacts
<1>5. ASSUME NEW m \in DOMAIN out, out[m].d = 1
      PROVE  \E k \in 1..(m - 1) : out[k].row.id = out[m].row.id /\ out[k].d = -1
  <2>1. PICK k \in DOMAIN out : out[k].row.id = out[m].row.id /\ out[k].d = -1
    BY <1>2, <1>5 DEF Opposite
  <2>2. PICK n \in DOMAIN ViewRows(w) : ViewRows(w)[n].id = out[m].row.id
    BY DEF DeltaIds, Ids
  <2> DEFINE x == ViewRows(w)[n]
  <2>3. x \in Holding(w)
    BY <1>4, IsListFacts
  <2> HIDE DEF x, w, N
  <2>4. PICK l \in 1..N : out[l].d > 0 /\ x = out[l].row /\ LastFor(out, l, N)
    <3>1. \/ \E l \in 1..N : out[l].d > 0 /\ x = out[l].row /\ LastFor(out, l, N)
          \/ \A l \in 1..N : out[l].row.id # x.id
      BY <1>3, <2>3 DEF After
    <3> QED BY <1>1, <2>2, <3>1 DEF x
  <2>5. out[l].row.id = out[m].row.id /\ out[l].d = 1
    BY <1>1, <2>2, <2>4 DEF Signed, x
  <2>6. l = m
    BY <1>1, <1>2, <1>5, <2>5
  <2>7. k \notin (m + 1)..N
    BY <2>1, <2>4, <2>6 DEF LastFor
  <2>8. k # m
    BY <1>5, <2>1
  <2>9. k \in 1..(m - 1)
    BY <1>1, <2>7, <2>8
  <2> QED BY <2>1, <2>9
<1>6. ASSUME NEW m \in DOMAIN out, out[m].d = -1 PROVE \E k \in DOMAIN out : out[k].row.id = out[m].row.id /\ out[k].d = 1
  BY <1>2, <1>6 DEF Opposite
<1> QED BY <1>2, <1>5, <1>6 DEF Turns, Signed

LEMMA IdsCount ==
  ASSUME NEW s, DistinctIds(s)
  PROVE  IsFiniteSet(Ids(s)) /\ Cardinality(Ids(s)) = Len(s)
<1> DEFINE N == Len(s)
           I == Ids(s)
           f == [n \in 1..N |-> s[n].id]
<1>1. N \in Nat /\ DOMAIN s = 1..N /\ \A m, n \in 1..N : s[m].id = s[n].id => m = n
  BY IsListFacts DEF DistinctIds
<1>2. f \in Surjection(1..N, I) /\ f \in Injection(1..N, I)
  BY <1>1 DEF Surjection, Injection, IsInjective, Ids
<1>3. IsFiniteSet(1..N) /\ Cardinality(1..N) = N
  <2>1. \A m, n \in Int : IsFiniteSet(m..n) /\ Cardinality(m..n) = (IF m > n THEN 0 ELSE n - m + 1)
    BY FS_Interval
  <2>2. 1 \in Int /\ N \in Int /\ (1 > N => N = 0) /\ N - 1 + 1 = N
    BY <1>1
  <2> QED BY <2>1, <2>2
<1> HIDE DEF f, I
<1>4. IsFiniteSet(I) /\ Cardinality(I) = Cardinality(1..N)
  BY <1>2, <1>3, FS_Surjection
<1> QED BY <1>3, <1>4 DEF I

\* A row that goes first is there, unless the list was made of what is there.
Present(v, out) ==
  \A m \in DOMAIN out : out[m].d < 0 /\ (\A k \in 1..(m - 1) : out[k].row.id # out[m].row.id) =>
    out[m].row.id \in Ids(ViewRows(v))

LEMMA TurnsPresent ==
  ASSUME NEW v, NEW out, IsDeltas(out), Turns(out), Present(v, out)
  PROVE  DeltaIds(out) \subseteq Ids(ViewRows(v))
<1> SUFFICES ASSUME NEW n \in DOMAIN out PROVE out[n].row.id \in Ids(ViewRows(v))
  BY DEF DeltaIds
<1>1. Len(out) \in Nat /\ DOMAIN out = 1..Len(out)
  BY IsListFacts DEF IsDeltas
<1>2. PICK m \in DOMAIN out : out[m].row.id = out[n].row.id /\ out[m].d = -1
  <2>1. CASE out[n].d = -1
    BY <2>1
  <2>2. CASE out[n].d = 1
    <3>1. PICK k \in 1..(n - 1) : out[k].row.id = out[n].row.id /\ out[k].d = -1
      BY <2>2 DEF Turns
    <3>2. k \in DOMAIN out
      BY <1>1
    <3> QED BY <3>1, <3>2
  <2> QED BY <2>1, <2>2 DEF Turns
<1>3. ASSUME NEW k \in 1..(m - 1), out[k].row.id = out[m].row.id PROVE FALSE
  <2>1. k \in DOMAIN out /\ k # m /\ ~(m \in 1..(k - 1))
    BY <1>1
  <2>2. out[k].d = 1
    BY <1>2, <1>3, <2>1 DEF Turns
  <2>3. PICK l \in 1..(k - 1) : out[l].row.id = out[k].row.id /\ out[l].d = -1
    BY <2>1, <2>2 DEF Turns
  <2>4. l \in DOMAIN out
    BY <1>1, <2>1
  <2>5. l = m
    BY <1>2, <1>3, <2>3, <2>4 DEF Turns
  <2> QED BY <2>1, <2>5
<1> QED BY <1>2, <1>3 DEF Present

Exactly(v, out, b) == b.rows = <<>> \/ b.rows = ViewRows(v) \/ Present(v, out)

\* As long as the list may be patched in place, the rows that deltas are about kept
\* their places, however slots were freed and filled on the way.
LEMMA StableAligned ==
  ASSUME NEW v, ViewOK(v), NEW out, IsDeltas(out), Signed(out), PositionsKept(out),
         NEW b, ListOK(b), Aligned(b, ViewRows(v)), Exactly(v, out, b),
         NEW c, c.rows = b.rows, b.dirty \subseteq c.dirty, DeltaIds(out) \subseteq c.dirty, b.full => c.full
  PROVE  Aligned(c, ViewRows(Applied(v, out)))
<1> DEFINE R == ViewRows(v)
           now == ViewRows(Applied(v, out))
           D == DeltaIds(out)
           L == b.rows
<1> SUFFICES ASSUME ~c.full, L # <<>>, c.dirty \subseteq Ids(L)
             PROVE  /\ Ids(now) \subseteq Ids(L)
                    /\ DOMAIN now = DOMAIN L => \A n \in DOMAIN now : L[n].id \notin c.dirty => now[n] = L[n]
  BY DEF Aligned
<1>1. ViewOK(Applied(v, out)) /\ After(Holding(v), out, Len(out), Holding(Applied(v, out)))
  BY AppliedFacts
<1>2. /\ DistinctIds(R) /\ ToSet(R) = Holding(v)
      /\ DistinctIds(now) /\ ToSet(now) = Holding(Applied(v, out)) /\ DistinctIds(L)
  BY <1>1, ViewRowsFacts DEF DistinctIds, ListOK
<1>3. ~b.full /\ b.dirty \subseteq Ids(L) /\ D \subseteq Ids(L)
  OBVIOUS
<1>4. /\ Ids(R) \subseteq Ids(L)
      /\ DOMAIN R = DOMAIN L => \A n \in DOMAIN R : L[n].id \notin b.dirty => R[n] = L[n]
  BY <1>3 DEF Aligned
<1>5. DOMAIN out = 1..Len(out)
  BY IsListFacts DEF IsDeltas
<1>6. ASSUME NEW n \in DOMAIN now PROVE now[n].id \in Ids(L)
  <2>1. now[n] \in Holding(Applied(v, out))
    BY <1>2 DEF ToSet
  <2>2. (\E m \in 1..Len(out) : now[n] = out[m].row) \/ now[n] \in Holding(v)
    BY <1>1, <2>1 DEF After
  <2>3. CASE \E m \in 1..Len(out) : now[n] = out[m].row
    <3>1. now[n].id \in D
      BY <1>5, <2>3 DEF DeltaIds
    <3> QED BY <1>3, <3>1
  <2>4. CASE now[n] \in Holding(v)
    <3>1. now[n] \in ToSet(R)
      BY <1>2, <2>4
    <3>2. now[n].id \in Ids(R)
      BY <3>1 DEF ToSet, Ids
    <3> QED BY <1>4, <3>2
  <2> QED BY <2>2, <2>3, <2>4
<1>7. Ids(now) \subseteq Ids(L)
  BY <1>6 DEF Ids
<1> HIDE DEF R, now, D, L
<1>8. ASSUME DOMAIN now = DOMAIN L PROVE \A n \in DOMAIN now : L[n].id \notin c.dirty => now[n] = L[n]
  <2>1. /\ IsFiniteSet(Ids(L)) /\ Cardinality(Ids(L)) = Len(L) /\ Cardinality(Ids(now)) = Len(now)
        /\ Cardinality(Ids(R)) = Len(R) /\ Len(L) \in Nat /\ Len(R) \in Nat /\ Len(now) \in Nat
        /\ DOMAIN L = 1..Len(L) /\ DOMAIN R = 1..Len(R) /\ DOMAIN now = 1..Len(now)
    BY <1>2, IdsCount, IsListFacts DEF DistinctIds
  <2>2. Len(now) = Len(L)
    <3>1. \A x, y \in Nat : 1..x = 1..y => x = y
      <4> TAKE x, y \in Nat
      <4> HAVE 1..x = 1..y
      <4>1. x = 0 \/ x \in 1..y
        BY SMT
      <4>2. y = 0 \/ y \in 1..x
        BY SMT
      <4> QED BY <4>1, <4>2
    <3> QED BY <1>8, <2>1, <3>1
  <2>3. Ids(now) = Ids(L)
    BY <1>7, <2>1, <2>2, FS_Subset
  <2>4. D \subseteq Ids(now)
    BY <1>3, <2>3
  <2>5. Turns(out)
    BY <2>4, TurnsWhenBack DEF now, D
  <2>6. D \subseteq Ids(R)
    <3>1. CASE L = R
      BY <1>3, <3>1
    <3>2. CASE L # R
      <4>1. Present(v, out)
        BY <3>2 DEF Exactly, L, R
      <4> QED BY <2>5, <4>1, TurnsPresent DEF D, R
    <3> QED BY <3>1, <3>2
  <2>7. DOMAIN now = DOMAIN R /\ \A k \in DOMAIN now : R[k].id \notin D => now[k] = R[k]
    BY <2>5, <2>6, RowsInPlace DEF D, R, now
  <2> TAKE n \in DOMAIN now
  <2> HAVE L[n].id \notin c.dirty
  <2>8. L[n].id \notin b.dirty /\ L[n].id \notin D
    BY DEF D
  <2>9. R[n] = L[n]
    BY <1>4, <1>8, <2>7, <2>8
  <2> QED BY <2>7, <2>8, <2>9
<1> QED BY <1>7, <1>8 DEF now, L

LEMMA NoDeltas ==
  IsDeltas(<<>>) /\ Signed(<<>>) /\ PositionsKept(<<>>) /\ DeltaIds(<<>>) = {} /\ \A v, b : Exactly(v, <<>>, b)
<1>1. <<>> \in Seq({}) /\ Len(<<>>) = 0 /\ DOMAIN <<>> = {}
  OBVIOUS
<1>2. IsList(<<>>)
  BY <1>1, ListIn
<1>3. PositionsKept(<<>>)
  <2> DEFINE I(d) == {<<>>[n].row.id : n \in {m \in DOMAIN <<>> : <<>>[m].d = d}}
  <2>1. I(1) = {} /\ I(-1) = {}
    BY <1>1
  <2>2. Cardinality({}) = 0 /\ Len(<<>>) = 2 * 0
    BY FS_EmptySet
  <2>3. I(1) = I(-1) /\ Len(<<>>) = 2 * Cardinality(I(1))
    BY <2>1, <2>2
  <2> QED BY <2>3 DEF PositionsKept
<1> QED BY <1>1, <1>2, <1>3 DEF IsDeltas, Signed, DeltaIds, Exactly, Present

\* What a changed table makes of an observable that shows the rows of the view.
Shows(v, o) == ViewOK(v) /\ Showing(o, ViewRows(v)) /\ Answering(o)

LEMMA TableShows ==
  ASSUME Typed, scenario.api # "rows", NEW s, NEW D, ObservableOK(db, q, s.obs, D), NEW t \in DOMAIN db, D[t] = deltas[t],
         NEW out, out = Output(t), IsDeltas(out), Signed(out),
         "misplaced" \notin obs.slips => Shows(s.view, s.obs) /\ Exactly(s.view, out, s.obs.batch),
         NEW n, n = OnTableChange(s, t)
  PROVE  /\ n.view = Applied(s.view, out) /\ s.obs.slips \subseteq n.obs.slips
         /\ "misplaced" \notin obs.slips =>
              /\ Shows(n.view, n.obs)
              /\ n.obs.batch.rows = s.obs.batch.rows \/ n.obs.batch.rows = ViewRows(n.view)
<1> DEFINE v == Applied(s.view, out)
           inv == [root |-> out # <<>>, dirty |-> {out[k].row.id : k \in DOMAIN out}, stable |-> PositionsKept(out),
                   tables |-> {t}, rows |-> [u \in DOMAIN db |-> IF u = t THEN ids[t] ELSE {}],
                   keys |-> DirtyKeys(q, t, deltas[t])]
           was == s.obs
           b == was.batch
           i == Invalidate(was, inv)
           now == ViewRows(v)
           T == {t}
           D2 == [u \in DOMAIN D |-> IF u = t THEN {} ELSE D[u]]
<1>1. n.view = v /\ n.obs = Told(i, now)
  BY DEF OnTableChange, OutputApplied
<1>2. Selects(db, q) /\ \A m \in DOMAIN q.nested : q.nested[m].root \in DOMAIN db
  BY SelectsTables, NodeRoots
<1>3. /\ inv.root = (out # <<>>) /\ inv.dirty = DeltaIds(out) /\ inv.stable = PositionsKept(out)
      /\ inv.keys = DirtyKeys(q, t, deltas[t])
  BY DEF DeltaIds
<1>4. ObservableOK(db, q, was, D)
  OBVIOUS
<1>5. \A u \in T : DirtyKeys(q, u, D[u]) \subseteq inv.keys
  BY <1>3
<1> HIDE DEF inv, v, was, T
<1>6. \E E : ObservableOK(db, q, i, E)
  <2> DEFINE E == [u \in DOMAIN db |-> IF u = t THEN {} ELSE D[u]]
  <2>1. \A m \in DOMAIN q.nested : q.nested[m].root \in T \/ E[q.nested[m].root] = D[q.nested[m].root]
    BY <1>2 DEF T
  <2> HIDE DEF E
  <2>2. ObservableOK(db, q, i, E)
    BY <1>2, <1>4, <1>5, <2>1, InvalidateOK
  <2> QED BY <2>2
<1>7. PICK E : ObservableOK(db, q, i, E)
  BY <1>6
<1>12. IsObservable(was) /\ b = was.batch /\ i = Invalidate(was, inv)
  BY <1>4 DEF ObservableOK
<1> HIDE DEF i, b
<1>8. i.batch = ApplyInvalidation(q, b, inv) /\ i.slips = was.slips
  <2>1. IsObservable(was) /\ i = Invalidate(was, inv)
    BY <1>12
  <2>2. /\ Invalidate(was, inv).batch = ApplyInvalidation(q, was.batch, inv)
        /\ Invalidate(was, inv).slips = was.slips
    BY <2>1, InvalidateFacts, Zenon
  <2>3. i.batch = ApplyInvalidation(q, was.batch, inv) /\ i.slips = was.slips
    BY <2>1, <2>2
  <2> QED BY <2>3, <1>12
<1>9. IsInvalidated(q, b, inv, i.batch)
  BY <1>2, <1>4, <1>8, <1>12, SelectsTree, InvalidationFacts DEF ObservableOK
<1> USE DEF b
<1> HIDE DEF now
<1>10. was.slips \subseteq n.obs.slips
  BY <1>1, <1>2, <1>7, <1>8, ToldOK
<1>11. ASSUME "misplaced" \notin obs.slips
       PROVE  Shows(v, n.obs) /\ (n.obs.batch.rows = b.rows \/ n.obs.batch.rows = now)
  <2>1. ViewOK(s.view) /\ Showing(was, ViewRows(s.view)) /\ Exactly(s.view, out, b)
    BY <1>11 DEF Shows, was
  <2>2. ViewOK(v)
    BY <2>1, AppliedFacts DEF v
  <2>3. DistinctIds(now)
    BY <2>2, ViewRowsFacts DEF DistinctIds, now
  <2>4. Aligned(i.batch, now)
    <3>1. CASE ~PositionsKept(out)
      <4>1. out # <<>>
        BY <3>1, NoDeltas
      <4>2. i.batch.full
        BY <1>3, <1>9, <3>1, <4>1 DEF IsInvalidated
      <4> QED BY <4>2 DEF Aligned
    <3>2. CASE PositionsKept(out)
      <4>1. i.batch.rows = b.rows /\ b.dirty \subseteq i.batch.dirty
        BY <1>9 DEF IsInvalidated
      <4>2. b.full => i.batch.full
        BY <1>9 DEF IsInvalidated
      <4>3. DeltaIds(out) \subseteq i.batch.dirty
        <5>1. CASE out = <<>>
          BY <5>1, NoDeltas
        <5>2. CASE out # <<>>
          BY <1>3, <1>9, <5>2 DEF IsInvalidated
        <5> QED BY <5>1, <5>2
      <4>4. ListOK(b) /\ Aligned(b, ViewRows(s.view))
        BY <2>1 DEF Showing
      <4> QED BY <2>1, <3>2, <4>1, <4>2, <4>3, <4>4, StableAligned DEF now, v
    <3> QED BY <3>1, <3>2
  <2>5. Showing(i, now)
    BY <1>2, <1>4, <2>1, <2>4, SelectsTree, InvalidateShows DEF i
  <2>8. stage = "listening" => Heard(i)
    BY <1>4, <1>11, InvalidateHeard DEF Shows, Answering, ObservableOK, i, was
  <2>6. Showing(n.obs, now) /\ Answering(n.obs)
    BY <1>1, <1>2, <1>7, <2>3, <2>5, <2>8, ToldShows
  <2>7. n.obs.batch.rows = b.rows \/ n.obs.batch.rows = now
    <3>1. CASE stage = "listening"
      BY <2>6, <3>1 DEF Showing, PayloadOK, UpToNow, Answering
    <3>2. CASE stage # "listening"
      <4>1. n.obs = i
        BY <1>1, <3>2 DEF Told
      <4> QED BY <1>9, <4>1 DEF IsInvalidated
    <3> QED BY <3>1, <3>2
  <2> QED BY <2>2, <2>6, <2>7 DEF Shows, now
<1> QED BY <1>1, <1>10, <1>11 DEF v, was, now

-----------------------------------------------------------------------------
(* A flush of the delta lane, table after table.                            *)
LEMMA SeenSigned ==
  ASSUME NEW p, NEW s, IsDeltas(s), Signed(s)
  PROVE  Signed(Seen(p, s))
<1>1. ToSet(Seen(p, s)) \subseteq ToSet(s)
  BY SeenFacts
<1>2. \A n \in DOMAIN Seen(p, s) : Seen(p, s)[n] \in ToSet(s)
  BY <1>1 DEF ToSet
<1>3. \A d \in ToSet(s) : d.d \in {-1, 1}
  BY DEF ToSet, Signed
<1> QED BY <1>2, <1>3 DEF Signed

\* The deltas of the root table were made from what the view shows, unless it is not shown.
ExactInv ==
  scenario.api = "delta" =>
    /\ Signed(queue[q.root])
    /\ stage # "none" /\ "misplaced" \notin obs.slips => Exactly(view, Seen(q, queue[q.root]), obs.batch)

LEMMA DeltaShows ==
  ASSUME CacheInv, IsFiniteSet(Changed), DeltaInv, ExactInv, DeltaFlush,
         "misplaced" \notin obs.slips => Shows(view, obs)
  PROVE  obs.slips \subseteq obs'.slips /\ ("misplaced" \notin obs.slips => Shows(view', obs'))
<1>1. Typed /\ scenario.api # "rows" /\ ObservableOK(db, q, obs, deltas) /\ stage' = stage
      /\ scenario.api = "delta" /\ stage # "none"
  BY DEF CacheInv, DeltaFlush
<1>2. PICK order \in SetToSeqs(Changed) : obs' = AfterTables(order).obs /\ view' = AfterTables(order).view
  BY DEF DeltaFlush
<1> DEFINE N == Len(order)
           out == Output(q.root)
           Met(n) == \E m \in 1..n : order[m] = q.root
<1>3. /\ order \in [1..N -> Changed] /\ N \in Nat /\ ToSet(order) = Changed
      /\ \A m, n \in 1..N : m # n => order[m] # order[n]
  BY <1>2, AllInTurn
<1>4. PICK f : AfterRun(f, order) /\ AfterTables(order) = f[N]
  BY <1>3, AfterRunExists
<1>5. IsDeltas(out) /\ Signed(out) /\ ("misplaced" \notin obs.slips => Exactly(view, out, obs.batch))
  <2>1. IsDeltas(queue[q.root])
    BY <1>1 DEF DeltaInv, QueueKept
  <2>2. out = Seen(q, queue[q.root])
    BY DEF Output, Seen
  <2>3. Signed(queue[q.root]) /\ ("misplaced" \notin obs.slips => Exactly(view, Seen(q, queue[q.root]), obs.batch))
    BY <1>1 DEF ExactInv
  <2> HIDE DEF out
  <2>4. IsDeltas(Seen(q, queue[q.root])) /\ Signed(Seen(q, queue[q.root]))
    BY <2>1, <2>3, SeenFacts, SeenSigned
  <2> QED BY <2>2, <2>3, <2>4
<1>6. \A t : t # q.root => Output(t) = <<>>
  BY DEF Output
<1>7. f[0] = [view |-> view, obs |-> obs] /\ \A n \in 1..N : f[n] = OnTableChange(f[n - 1], order[n])
  <2>1. \A n \in 0..N : f[n] = IF n = 0 THEN [view |-> view, obs |-> obs] ELSE OnTableChange(f[n - 1], order[n])
    BY <1>4 DEF AfterRun
  <2>2. 0 \in 0..N /\ \A n \in 1..N : n \in 0..N /\ n # 0
    BY <1>3
  <2> QED BY <2>1, <2>2
<1> DEFINE G(n) == /\ ObservableOK(db, q, f[n].obs, Remaining(order, n)) /\ obs.slips \subseteq f[n].obs.slips
                   /\ "misplaced" \notin obs.slips => /\ Shows(f[n].view, f[n].obs)
                                                      /\ ~Met(n) => Exactly(f[n].view, out, f[n].obs.batch)
           P == {n \in 0..N : G(n)}
<1> HIDE DEF out, N
<1>8. G(0)
  <2>1. \A t \in DOMAIN db : Remaining(order, 0)[t] = deltas[t]
    BY DEF Remaining
  <2>2. \A m \in DOMAIN q.nested : q.nested[m].root \in DOMAIN db
    BY <1>1, NodeRoots
  <2>3. \A x \in DOMAIN obs.batch.buckets : x[1] \in DOMAIN q.nested
    BY <1>1 DEF ObservableOK, BatchOK, IsBucket
  <2>4. ObservableOK(db, q, obs, Remaining(order, 0))
    BY <1>1, <2>1, <2>2, <2>3 DEF ObservableOK, BucketsCurrent
  <2>5. f[0].view = view /\ f[0].obs = obs
    BY <1>7
  <2> QED BY <1>5, <2>4, <2>5
<1>9. ASSUME NEW n \in 1..N, G(n - 1) PROVE G(n)
  <2> DEFINE t == order[n]
             s == f[n - 1]
             D == Remaining(order, n - 1)
             D2 == Remaining(order, n)
             tout == Output(t)
             new == f[n]
  <2>1. t \in DOMAIN db /\ D[t] = deltas[t]
    <3>1. t \in DOMAIN db
      BY <1>3 DEF Changed
    <3>2. \A m \in 1..(n - 1) : order[m] # t
      BY <1>3
    <3> QED BY <3>1, <3>2 DEF Remaining
  <2>2. \A u \in DOMAIN db : u # t => D2[u] = D[u]
    BY <1>3 DEF Remaining
  <2>3. new = OnTableChange(s, t)
    BY <1>7
  <2>4. ObservableOK(db, q, s.obs, D) /\ obs.slips \subseteq s.obs.slips
    BY <1>9
  <2>5. "misplaced" \notin obs.slips => Shows(s.view, s.obs) /\ (~Met(n - 1) => Exactly(s.view, out, s.obs.batch))
    BY <1>9
  <2>6. t = q.root => tout = out /\ ~Met(n - 1) /\ Met(n)
    <3>1. n \in 1..n /\ \A m \in 1..(n - 1) : m \in 1..N /\ m # n
      BY <1>3
    <3> QED BY <1>3, <3>1 DEF out
  <2>7. t # q.root => tout = <<>> /\ (~Met(n) => ~Met(n - 1))
    BY <1>6
  <2>8. ~Met(n) => t # q.root
    BY <2>6
  <2> HIDE DEF t, s, D, D2, new, tout, Met, G, P
  <2>9. IsDeltas(tout) /\ Signed(tout)
    BY <1>5, <2>6, <2>7, NoDeltas
  <2>10. "misplaced" \notin obs.slips => Shows(s.view, s.obs) /\ Exactly(s.view, tout, s.obs.batch)
    BY <2>5, <2>6, <2>7, NoDeltas
  <2>11. tout = Output(t)
    BY DEF tout
  <2>12. /\ new.view = Applied(s.view, tout) /\ s.obs.slips \subseteq new.obs.slips
         /\ "misplaced" \notin obs.slips =>
              /\ Shows(new.view, new.obs)
              /\ new.obs.batch.rows = s.obs.batch.rows \/ new.obs.batch.rows = ViewRows(new.view)
    BY <1>1, <2>1, <2>3, <2>4, <2>9, <2>10, <2>11, TableShows
  <2>13. ObservableOK(db, q, new.obs, D2)
    BY <1>1, <2>1, <2>2, <2>3, <2>4, OnTableChangeOK
  <2>14. ASSUME "misplaced" \notin obs.slips, ~Met(n) PROVE Exactly(new.view, out, new.obs.batch)
    <3>1. new.view = s.view
      BY <2>7, <2>8, <2>12, <2>14, AppliedNothing
    <3>2. Exactly(s.view, out, s.obs.batch)
      BY <2>5, <2>7, <2>8, <2>14
    <3>3. new.obs.batch.rows = s.obs.batch.rows \/ new.obs.batch.rows = ViewRows(s.view)
      BY <2>12, <2>14, <3>1
    <3> QED BY <3>1, <3>2, <3>3 DEF Exactly
  <2>15. obs.slips \subseteq new.obs.slips
    BY <2>4, <2>12
  <2> QED BY <2>12, <2>13, <2>14, <2>15 DEF G, new, D2
<1> HIDE DEF G
<1>10. 0 \in P
  BY <1>3, <1>8
<1>11. ASSUME NEW n \in 1..N, n - 1 \in P PROVE n \in P
  <2>1. n \in 0..N
    BY <1>3
  <2> QED BY <1>9, <1>11, <2>1
<1> HIDE DEF P
<1>12. 0..N \subseteq P
  BY <1>3, <1>10, <1>11, StepByStep
<1>13. G(N)
  <2>1. N \in P
    BY <1>3, <1>12
  <2> QED BY <2>1 DEF P
<1>14. obs.slips \subseteq f[N].obs.slips /\ ("misplaced" \notin obs.slips => Shows(f[N].view, f[N].obs))
  BY <1>13 DEF G
<1>15. obs' = f[N].obs /\ view' = f[N].view
  BY <1>2, <1>4
<1> QED BY <1>14, <1>15

\* Statements append to the queue.
Lengthened(s, O, n, new) == new = s \/ \E x \in O : x # Hole /\ new = Append(s, [d |-> n, row |-> x])

LEMMA RowsAppended ==
  ASSUME NEW s, IsDeltas(s), NEW O, OneRow(O), NEW n, NEW new, new = s \o DeltasOf(n, O)
  PROVE  Lengthened(s, O, n, new)
<1>1. s \in Seq(ToSet(s))
  BY DEF IsDeltas, IsList
<1>2. CASE O = {}
  <2>1. {[d |-> n, row |-> r] : r \in O} = {}
    BY <1>2
  <2>2. DeltasOf(n, O) = <<>>
    BY <2>1, EnumeratedFew DEF DeltasOf
  <2>3. s \o <<>> = s
    BY <1>1
  <2> QED BY <2>2, <2>3 DEF Lengthened
<1>3. CASE O # {}
  <2>5. PICK x \in O : TRUE
    BY <1>3
  <2>1. O = {x} /\ x # Hole
    BY <2>5 DEF OneRow
  <2> DEFINE e == [d |-> n, row |-> x]
  <2>2. {[d |-> n, row |-> r] : r \in O} = {e}
    BY <2>1
  <2> HIDE DEF e
  <2>3. DeltasOf(n, O) = <<e>>
    BY <2>2, EnumeratedFew DEF DeltasOf
  <2>4. s \o <<e>> = Append(s, e)
    BY <1>1
  <2> QED BY <2>1, <2>3, <2>4 DEF e, Lengthened
<1> QED BY <1>2, <1>3

LEMMA AppendedDelta ==
  ASSUME NEW s, IsDeltas(s), NEW e, e.row # Hole
  PROVE  /\ IsDeltas(Append(s, e)) /\ DOMAIN Append(s, e) = 1..(Len(s) + 1) /\ Len(s) \in Nat /\ DOMAIN s = 1..Len(s)
         /\ Append(s, e)[Len(s) + 1] = e /\ \A n \in 1..Len(s) : Append(s, e)[n] = s[n]
<1> DEFINE E == ToSet(s) \cup {e}
           N == Len(s)
           new == Append(s, e)
<1>1. s \in Seq(E) /\ N \in Nat /\ DOMAIN s = 1..N /\ \A n \in 1..N : s[n].row # Hole
  BY IsListFacts DEF IsDeltas, IsList
<1>2. e \in E
  OBVIOUS
<1> HIDE DEF E
<1>3. new \in Seq(E) /\ Len(new) = N + 1 /\ new[N + 1] = e /\ \A n \in 1..N : new[n] = s[n]
  BY <1>1, <1>2
<1> HIDE DEF new
<1>4. IsList(new) /\ DOMAIN new = 1..(N + 1)
  BY <1>3, ListIn, IsListFacts
<1>5. \A n \in 1..(N + 1) : n = N + 1 \/ n \in 1..N
  BY <1>1
<1>6. IsDeltas(new)
  BY <1>1, <1>3, <1>4, <1>5 DEF IsDeltas
<1> QED BY <1>1, <1>3, <1>4, <1>6 DEF new, N

LEMMA SignedQueue ==
  ASSUME NEW s, IsDeltas(s), Signed(s), NEW O, OneRow(O), NEW n \in {-1, 1}, NEW new, new = s \o DeltasOf(n, O)
  PROVE  IsDeltas(new) /\ Signed(new)
<1>1. CASE new = s
  BY <1>1
<1>2. CASE \E x \in O : x # Hole /\ new = Append(s, [d |-> n, row |-> x])
  <2>1. PICK x \in O : x # Hole /\ new = Append(s, [d |-> n, row |-> x])
    BY <1>2
  <2> DEFINE e == [d |-> n, row |-> x]
  <2>2. e.row # Hole /\ e.d \in {-1, 1} /\ new = Append(s, e)
    BY <2>1
  <2> HIDE DEF e
  <2>3. IsDeltas(new) /\ DOMAIN new = 1..(Len(s) + 1) /\ Len(s) \in Nat /\ DOMAIN s = 1..Len(s)
        /\ new[Len(s) + 1] = e /\ \A k \in 1..Len(s) : new[k] = s[k]
    BY <2>2, AppendedDelta
  <2>4. \A k \in 1..(Len(s) + 1) : k = Len(s) + 1 \/ k \in 1..Len(s)
    BY <2>3
  <2> QED BY <2>2, <2>3, <2>4 DEF Signed
<1>3. Lengthened(s, O, n, new)
  BY RowsAppended
<1> QED BY <1>1, <1>2, <1>3 DEF Lengthened

LEMMA ExactQueue ==
  ASSUME NEW p, NEW s, IsDeltas(s), NEW O, OneRow(O), NEW n, NEW v, ViewOK(v), NEW b, Exactly(v, Seen(p, s), b),
         NEW V, ~(n < 0) \/ (BehindBy(Holding(v), Seen(p, s), V) /\ \A x \in O : x.v \notin p.hidden => x \in V),
         NEW new, new = s \o DeltasOf(n, O)
  PROVE  Exactly(v, Seen(p, new), b)
<1> SUFFICES ASSUME Present(v, Seen(p, s)) PROVE Present(v, Seen(p, new))
  BY DEF Exactly
<1>1. CASE new = s
  BY <1>1
<1>2. CASE \E x \in O : x # Hole /\ new = Append(s, [d |-> n, row |-> x])
  <2>1. PICK x \in O : x # Hole /\ new = Append(s, [d |-> n, row |-> x])
    BY <1>2
  <2> DEFINE e == [d |-> n, row |-> x]
             out == Seen(p, s)
             R == ViewRows(v)
  <2>2. e.row = x /\ e.row # Hole /\ e.d = n /\ new = Append(s, e)
    BY <2>1
  <2> HIDE DEF e
  <2>3. IsList(s)
    BY DEF IsDeltas
  <2>4. Seen(p, new) = IF e.row.v \notin p.hidden THEN Append(out, e) ELSE out
    BY <2>2, <2>3, SeenAppend
  <2>5. IsDeltas(out)
    BY SeenFacts
  <2> HIDE DEF out
  <2>6. CASE e.row.v \in p.hidden
    BY <2>4, <2>6 DEF out
  <2>7. CASE e.row.v \notin p.hidden
    <3> DEFINE N == Len(out)
               more == Append(out, e)
    <3>1. DOMAIN more = 1..(N + 1) /\ N \in Nat /\ DOMAIN out = 1..N
          /\ more[N + 1] = e /\ \A k \in 1..N : more[k] = out[k]
      BY <2>2, <2>5, AppendedDelta
    <3> HIDE DEF more, N
    <3>2. ASSUME NEW m \in DOMAIN more, more[m].d < 0, \A k \in 1..(m - 1) : more[k].row.id # more[m].row.id
          PROVE  more[m].row.id \in Ids(R)
      <4>1. CASE m \in 1..N
        <5>1. \A k \in 1..(m - 1) : k \in 1..N
          BY <3>1, <4>1
        <5>2. out[m].d < 0 /\ \A k \in 1..(m - 1) : out[k].row.id # out[m].row.id
          BY <3>1, <3>2, <4>1, <5>1
        <5> QED BY <3>1, <4>1, <5>2 DEF Present, out, R
      <4>2. CASE m = N + 1
        <5>1. (N + 1) - 1 = N /\ n < 0
          BY <2>2, <3>1, <3>2, <4>2
        <5>2. \A k \in 1..N : out[k].row.id # x.id
          BY <2>2, <3>1, <3>2, <4>2, <5>1
        <5>3. x \in V
          BY <2>1, <2>2, <2>7, <5>1
        <5>4. x \in Holding(v)
          BY <3>1, <5>1, <5>2, <5>3 DEF BehindBy, out
        <5>5. x \in ToSet(R)
          BY <5>4, ViewRowsFacts
        <5>6. x.id \in Ids(R)
          BY <5>5 DEF ToSet, Ids
        <5> QED BY <2>2, <3>1, <4>2, <5>6
      <4>3. m \in 1..N \/ m = N + 1
        BY <3>1
      <4> QED BY <4>1, <4>2, <4>3
    <3>3. Present(v, more)
      BY <3>2 DEF Present, R
    <3> QED BY <2>4, <2>7, <3>3 DEF more
  <2> QED BY <2>6, <2>7
<1>3. Lengthened(s, O, n, new)
  BY RowsAppended
<1> QED BY <1>1, <1>2, <1>3 DEF Lengthened

LEMMA ExactStatement ==
  ASSUME Typed, NoHole, NoHole', DeltaInv, ExactInv, scenario.api = "delta", q' = q, GraphqlStatement
  PROVE  /\ Signed(queue'[q.root])
         /\ stage # "none" /\ "misplaced" \notin obs.slips => Exactly(view, Seen(q, queue'[q.root]), obs.batch)
<1> DEFINE c == db
           c2 == db'
           s == queue[q.root]
           O == c[q.root] \ c2[q.root]
           N == c2[q.root] \ c[q.root]
           mid == s \o DeltasOf(-1, O)
           new == queue'[q.root]
           V == Visibles(c, q)
<1>1. PICK t, old, gained : t \in DOMAIN db /\ StatementRow(t, old, gained)
  BY StatementRows DEF GraphqlStatement
<1>2. q.root \in DOMAIN db /\ DOMAIN db' = DOMAIN db
  <2>1. q.root \in DOMAIN db
    BY TypedFacts
  <2> QED BY <1>1, <2>1 DEF StatementRow
<1>3. queue' = [u \in DOMAIN db |-> queue[u] \o DeltasOf(-1, db[u] \ db'[u]) \o DeltasOf(1, db'[u] \ db[u])]
  BY DEF GraphqlStatement
<1>4. new = mid \o DeltasOf(1, N)
  BY <1>2, <1>3
<1>5. OneRow(O) /\ OneRow(N)
  <2>1. CASE t = q.root
    <3>1. c2[q.root] = (c[q.root] \ old) \cup gained
      BY <1>1, <1>2, <2>1 DEF StatementRow
    <3>2. O \subseteq old /\ N \subseteq gained
      BY <3>1
    <3>3. \A r \in O : r # Hole
      BY <1>2 DEF NoHole
    <3> QED BY <1>1, <3>2, <3>3 DEF StatementRow, OneRow
  <2>2. CASE t # q.root
    <3>1. O = {} /\ N = {}
      BY <1>1, <1>2, <2>2 DEF StatementRow
    <3> QED BY <3>1 DEF OneRow
  <2> QED BY <2>1, <2>2
<1>6. IsDeltas(s) /\ Signed(s)
      /\ (stage # "none" => ViewOK(view) /\ BehindBy(Holding(view), Seen(q, s), V))
      /\ (stage # "none" /\ "misplaced" \notin obs.slips => Exactly(view, Seen(q, s), obs.batch))
  BY DEF DeltaInv, QueueKept, ViewKept, ExactInv
<1>7. \A x \in O : x.v \notin q.hidden => x \in V
  BY DEF Visibles
<1>8. mid = s \o DeltasOf(-1, O)
  OBVIOUS
<1> DEFINE b == obs.batch
           m == -1
<1>9. m \in {-1, 1} /\ m < 0 /\ 1 \in {-1, 1} /\ ~(1 < 0)
  OBVIOUS
<1>10. mid = s \o DeltasOf(m, O)
  BY <1>8
<1> HIDE DEF c, c2, s, O, N, mid, new, V, b, m
<1>11. IsDeltas(mid) /\ Signed(mid)
  BY <1>5, <1>6, <1>9, <1>10, SignedQueue
<1>12. IsDeltas(new) /\ Signed(new)
  BY <1>4, <1>5, <1>9, <1>11, SignedQueue
<1>13. ASSUME stage # "none", "misplaced" \notin obs.slips PROVE Exactly(view, Seen(q, new), b)
  <2>1. ViewOK(view) /\ BehindBy(Holding(view), Seen(q, s), V) /\ Exactly(view, Seen(q, s), b)
    BY <1>6, <1>13 DEF b
  <2>2. Exactly(view, Seen(q, mid), b)
    BY <1>5, <1>6, <1>7, <1>10, <2>1, ExactQueue
  <2> QED BY <1>4, <1>5, <1>9, <1>11, <2>1, <2>2, ExactQueue
<1> QED BY <1>12, <1>13 DEF new, b

-----------------------------------------------------------------------------
(* What a subscriber is shown, step by step.                                *)
LEMMA ViewShown ==
  ASSUME NEW v, ViewOK(v), NEW res, res = [n \in DOMAIN ViewRows(v) |-> RootRow(q, ViewRows(v)[n])]
  PROVE  RootRows(res) = ViewRows(v) /\ DistinctIds(ViewRows(v))
<1> DEFINE w == ViewRows(v)
<1>1. DistinctIds(w)
  BY ViewRowsFacts DEF DistinctIds
<1>2. DOMAIN w = 1..Len(w) /\ w = [n \in 1..Len(w) |-> w[n]]
  BY <1>1, IsListFacts DEF DistinctIds
<1> HIDE DEF w
<1>3. DOMAIN res = DOMAIN w /\ \A n \in DOMAIN w : res[n] = RootRow(q, w[n])
  BY DEF w
<1>4. \A x : RootRow(q, x)[q.root] = x
  BY DEF RootRow
<1>5. RootRows(res) = [n \in DOMAIN w |-> res[n][q.root]]
  BY <1>3 DEF RootRows, RowsAt
<1>6. RootRows(res) = w
  BY <1>2, <1>3, <1>4, <1>5
<1> QED BY <1>1, <1>6 DEF w

LEMMA NothingShown ==
  ASSUME NEW o, NEW old, Showing(o, old), ~o.payload.known, NEW rows
  PROVE  Showing(o, rows) /\ o.batch.rows = <<>>
BY DEF Showing, PayloadOK, SentOK, Aligned

LEMMA HearingShows ==
  ASSUME NEW o, IsObservable(o), NEW rows
  PROVE  /\ Showing(o, rows) => Showing(Hearing(o), rows)
         /\ UpToNow(o) => UpToNow(Hearing(o))
         /\ Heard(Hearing(o))
         /\ Hearing(o).batch = o.batch /\ Hearing(o).slips = o.slips
<1> DEFINE u == Hearing(o)
<1>1. u.batch = o.batch /\ u.payload = o.payload /\ u.slips = o.slips /\ u.heard = o.payload.array
  BY DEF IsObservable, Hearing
<1> HIDE DEF u
<1>3. Heard(u)
  BY <1>1 DEF Heard
<1>2. (Showing(o, rows) => Showing(u, rows)) /\ (UpToNow(o) => UpToNow(u))
  BY <1>1, ShowsAlike
<1> QED BY <1>1, <1>2, <1>3 DEF u

LEMMA SubscribeShows ==
  ASSUME CacheInv, scenario.api # "rows", ListInv, Subscribe, "misplaced" \notin obs'.slips
  PROVE  /\ Showing(obs', RootRows(result)) /\ UpToNow(obs') /\ Heard(obs') /\ "misplaced" \notin obs.slips
         /\ DistinctIds(RootRows(result))
         /\ obs'.batch = obs.batch \/ obs'.batch.rows = RootRows(result)
<1> DEFINE rows == RootRows(result)
           o == IF UpToNow(obs) THEN obs ELSE Responded(obs, rows)
<1>1. obs' = Hearing(o) /\ ObservableOK(db, q, obs, deltas) /\ Selects(db, q)
  BY SelectsTables DEF Subscribe, CacheInv, UpToNow
<1>2. "misplaced" \notin obs.slips
  BY SubscribeSlips
<1>3. DistinctIds(rows) /\ Showing(obs, rows)
  BY <1>2 DEF ListInv
<1> HIDE DEF rows
<1>4. IsObservable(o) /\ Showing(o, rows) /\ UpToNow(o) /\ (o.batch = obs.batch \/ o.batch.rows = rows)
  <2>1. CASE UpToNow(obs)
    BY <1>1, <1>3, <2>1 DEF ObservableOK
  <2>2. CASE ~UpToNow(obs)
    <3> DEFINE u == Responded(obs, rows)
    <3>1. ObservableOK(db, q, u, deltas) /\ Showing(u, rows) /\ UpToNow(u)
      BY <1>1, <1>3, RespondedOK, RespondedShows
    <3>2. o = u
      BY <2>2
    <3> HIDE DEF u, o
    <3>3. u.batch.rows = rows
      BY <3>1 DEF Showing, PayloadOK, UpToNow
    <3> QED BY <3>1, <3>2, <3>3 DEF ObservableOK
  <2> QED BY <2>1, <2>2
<1> HIDE DEF o
<1>5. Showing(Hearing(o), rows) /\ UpToNow(Hearing(o)) /\ Heard(Hearing(o)) /\ Hearing(o).batch = o.batch
  BY <1>4, HearingShows
<1> QED BY <1>1, <1>2, <1>3, <1>4, <1>5 DEF rows

LEMMA CreateShows ==
  ASSUME CacheInv, ListInv, Create, "misplaced" \notin obs.slips
  PROVE  DistinctIds(RootRows(result')) /\ Showing(obs, RootRows(result')) /\ obs.batch.rows = <<>>
<1>1. Typed /\ scenario.api # "rows" /\ result' = Answer(db, q) /\ stage = "none"
  BY DEF CacheInv, Create
<1>2. IsQuery(q) /\ IsDatabase(db, q) /\ q.joins = <<>>
  BY <1>1, TypedFacts, SelectsTables
<1>3. RootListing(q, Answer(db, q))
  BY <1>2, AnswerListing
<1>4. DistinctIds(RootRows(result'))
  BY <1>1, <1>3, ListingDistinct DEF RootRows
<1>5. Showing(obs, RootRows(result)) /\ ~obs.payload.known
  BY <1>1 DEF ListInv
<1>6. Showing(obs, RootRows(result')) /\ obs.batch.rows = <<>>
  BY <1>5, NothingShown
<1> QED BY <1>4, <1>6

LEMMA FlushShows ==
  ASSUME CacheInv, IsFiniteSet(Changed), DeltaInv, ExactInv, ListInv, DeltaFlush, "misplaced" \notin obs'.slips
  PROVE  DistinctIds(RootRows(result')) /\ Showing(obs', RootRows(result')) /\ Answering(obs')
<1>1. scenario.api = "delta" /\ stage # "none" /\ ViewOK(view)
      /\ result = [n \in DOMAIN ViewRows(view) |-> RootRow(q, ViewRows(view)[n])]
  BY DEF DeltaFlush, DeltaInv, ViewKept
<1>2. RootRows(result) = ViewRows(view)
  BY <1>1, ViewShown
<1>3. "misplaced" \notin obs.slips => Shows(view, obs)
  BY <1>1, <1>2 DEF ListInv, Shows
<1>4. obs.slips \subseteq obs'.slips /\ ("misplaced" \notin obs.slips => Shows(view', obs'))
  BY <1>3, DeltaShows
<1>5. Shows(view', obs')
  BY <1>4
<1>6. result' = [n \in DOMAIN ViewRows(view') |-> RootRow(q, ViewRows(view')[n])]
  BY DEF DeltaFlush
<1> DEFINE v == view'
           res == result'
           o == obs'
<1>7. ViewOK(v) /\ res = [n \in DOMAIN ViewRows(v) |-> RootRow(q, ViewRows(v)[n])]
      /\ Showing(o, ViewRows(v)) /\ Answering(o)
  BY <1>5, <1>6 DEF Shows
<1> HIDE DEF v, res, o
<1>8. RootRows(res) = ViewRows(v) /\ DistinctIds(ViewRows(v))
  BY <1>7, ViewShown
<1>9. DistinctIds(RootRows(res)) /\ Showing(o, RootRows(res))
  BY <1>7, <1>8
<1> QED BY <1>7, <1>9 DEF res, o

LEMMA ListInit == GraphqlInit => ListInv /\ ExactInv
<1> SUFFICES ASSUME GraphqlInit PROVE ListInv /\ ExactInv
  OBVIOUS
<1>1. /\ stage = "none" /\ result = <<>> /\ queue = [t \in DOMAIN db |-> <<>>]
      /\ obs = [batch |-> NewBatch, payload |-> NoPayload, heard |-> <<>>, slips |-> {}]
  BY DEF GraphqlInit, Init
<1>2. IsList(<<>>) /\ DOMAIN <<>> = {}
  <2>1. <<>> \in Seq({}) /\ DOMAIN <<>> = {}
    OBVIOUS
  <2> QED BY <2>1, ListIn
<1>3. NewBatch.rows = <<>> /\ NewBatch.items = <<>>
  BY DEF NewBatch
<1>4. ~NoPayload.known /\ NoPayload.dirty
  BY DEF NoPayload
<1>5. obs.batch = NewBatch /\ obs.payload = NoPayload
  BY <1>1
<1>6. DistinctIds(<<>>)
  BY <1>2 DEF DistinctIds
<1>7. ListOK(obs.batch) /\ PayloadOK(obs, <<>>) /\ Aligned(obs.batch, <<>>)
  BY <1>2, <1>3, <1>4, <1>5, <1>6 DEF ListOK, PayloadOK, Aligned
<1>8. RootRows(result) = <<>>
  <2>1. RootRows(result) = [n \in {} |-> result[n][q.root]]
    BY <1>1, <1>2 DEF RootRows, RowsAt
  <2>2. <<>> = [n \in {} |-> result[n][q.root]]
    OBVIOUS
  <2> QED BY <2>1, <2>2
<1>11. SentOK(obs)
  <2>1. NewBatch.patch = NoPatch
    BY DEF NewBatch
  <2>2. StablePatch(NewBatch)
    BY <2>1 DEF StablePatch, NoPatch
  <2> QED BY <1>4, <1>5, <2>2 DEF SentOK, WasSent
<1>9. ListInv
  BY <1>1, <1>4, <1>5, <1>6, <1>7, <1>8, <1>11 DEF ListInv, Showing, Answering
<1>10. ASSUME scenario.api = "delta" PROVE Signed(queue[q.root])
  <2>1. Typed
    BY InitInv DEF GraphqlInit, Inv
  <2>2. q.root \in DOMAIN db
    BY <2>1, TypedFacts
  <2>3. queue[q.root] = <<>>
    BY <1>1, <2>2
  <2> QED BY <2>3, NoDeltas
<1> QED BY <1>1, <1>9, <1>10 DEF ExactInv

LEMMA ListStep ==
  ASSUME CacheInv, IsFiniteSet(Changed), SnapshotInv, DeltaInv, ExactInv, ListInv, [GraphqlNext]_<<vars, gvars>>
  PROVE  ListInv'
<1>1. Typed
  BY DEF CacheInv
<1>2. scenario' = scenario /\ q' = q
  BY <1>1, GraphqlTyped DEF GraphqlNext, GraphqlStatement, Statement, Insert, Update, Delete, Write, RowsNext, Observe, Create, PatchRefresh,
         WindowRefresh, SubsetRefresh, Unaffected, Requery, Flush, Drain, Subscribe, Unsubscribe, SnapshotFlush,
         DeltaFlush, vars
<1>3. SUFFICES ASSUME scenario.api # "rows", "misplaced" \notin obs'.slips
               PROVE  /\ DistinctIds(RootRows(result')) /\ Showing(obs', RootRows(result'))
                      /\ stage' = "listening" => UpToNow(obs') /\ Heard(obs')
                      /\ stage' = "none" => ~obs'.payload.known
  BY <1>2 DEF ListInv, RootRows, Showing, PayloadOK, SentOK, UpToNow, Heard, Answering
<1>4. CASE GraphqlStatement \/ Unsubscribe \/ UNCHANGED <<vars, gvars>>
  <2>1. obs' = obs /\ result' = result /\ (stage' # stage => stage' = "silent")
    <3>1. CASE GraphqlStatement
      <4>1. PICK t, old, new : StatementRow(t, old, new)
        BY <1>1, <3>1, StatementRows DEF GraphqlStatement
      <4> QED BY <3>1, <4>1 DEF GraphqlStatement, StatementRow
    <3>2. CASE Unsubscribe \/ UNCHANGED <<vars, gvars>>
      BY <3>2 DEF Unsubscribe, vars, gvars
    <3> QED BY <1>4, <3>1, <3>2
  <2> QED BY <1>3, <2>1 DEF ListInv, Answering
<1>5. CASE Create
  <2>1. obs' = obs /\ stage' = "silent"
    BY <1>5 DEF Create
  <2> QED BY <1>3, <1>5, <2>1, CreateShows
<1>6. CASE Subscribe
  <2>1. stage' = "listening" /\ result' = result
    BY <1>6 DEF Subscribe, vars
  <2> QED BY <1>3, <1>6, <2>1, SubscribeShows
<1>7. CASE SnapshotFlush
  <2>1. stage' = stage /\ stage # "none" /\ scenario.api = "snapshot"
    BY <1>7 DEF SnapshotFlush
  <2>2. PICK d : RootsSince(d)
    BY <2>1 DEF SnapshotInv
  <2> QED BY <1>3, <1>7, <2>1, <2>2, SnapshotShows DEF Answering
<1>8. CASE DeltaFlush
  <2>1. stage' = stage /\ stage # "none"
    BY <1>8 DEF DeltaFlush
  <2> QED BY <1>3, <1>8, <2>1, FlushShows DEF Answering
<1> QED BY <1>3, <1>4, <1>5, <1>6, <1>7, <1>8 DEF GraphqlNext, RowsNext

LEMMA ExactStep ==
  ASSUME CacheInv, NoHole, DeltaInv, ExactInv, ListInv, [GraphqlNext]_<<vars, gvars>>
  PROVE  ExactInv'
<1>1. Typed
  BY DEF CacheInv
<1>2. scenario' = scenario /\ q' = q
  BY <1>1, GraphqlTyped DEF GraphqlNext, GraphqlStatement, Statement, Insert, Update, Delete, Write, RowsNext, Observe, Create, PatchRefresh,
         WindowRefresh, SubsetRefresh, Unaffected, Requery, Flush, Drain, Subscribe, Unsubscribe, SnapshotFlush,
         DeltaFlush, vars
<1>3. SUFFICES ASSUME scenario.api = "delta"
               PROVE  /\ Signed(queue'[q.root])
                      /\ stage' # "none" /\ "misplaced" \notin obs'.slips => Exactly(view', Seen(q, queue'[q.root]), obs'.batch)
  BY <1>2 DEF ExactInv, Exactly, Present
<1>4. CASE GraphqlStatement
  <2>1. stage' = stage /\ view' = view /\ obs' = obs /\ NoHole'
    BY <1>1, <1>4, NoHoleStep DEF GraphqlStatement, GraphqlNext
  <2> QED BY <1>1, <1>2, <1>3, <1>4, <2>1, ExactStatement
<1>5. CASE Create
  <2>1. obs' = obs /\ queue' = queue
    BY <1>5 DEF Create
  <2>2. "misplaced" \notin obs.slips => obs.batch.rows = <<>>
    BY <1>5, CreateShows
  <2> QED BY <1>3, <2>1, <2>2 DEF ExactInv, Exactly
<1>6. CASE Subscribe
  <2>1. queue' = queue /\ view' = view /\ result' = result /\ stage # "none"
    BY <1>6 DEF Subscribe, vars
  <2>2. RootRows(result) = ViewRows(view)
    BY <1>3, <2>1, ViewShown DEF DeltaInv, ViewKept
  <2>3. ASSUME "misplaced" \notin obs'.slips PROVE Exactly(view, Seen(q, queue[q.root]), obs'.batch)
    <3>1. "misplaced" \notin obs.slips /\ (obs'.batch = obs.batch \/ obs'.batch.rows = RootRows(result))
      BY <1>3, <1>6, <2>3, SubscribeShows
    <3>2. Exactly(view, Seen(q, queue[q.root]), obs.batch)
      BY <1>3, <2>1, <3>1 DEF ExactInv
    <3> QED BY <2>2, <3>1, <3>2 DEF Exactly
  <2> QED BY <1>3, <2>1, <2>3 DEF ExactInv
<1>7. CASE Unsubscribe \/ UNCHANGED <<vars, gvars>>
  <2>1. queue' = queue /\ view' = view /\ obs' = obs /\ (stage' # "none" => stage # "none")
    BY <1>7 DEF Unsubscribe, gvars
  <2> QED BY <1>3, <2>1 DEF ExactInv
<1>8. CASE DeltaFlush
  <2>1. queue'[q.root] = <<>>
    <3>1. q.root \in DOMAIN db
      BY <1>1, TypedFacts
    <3> QED BY <1>8, <3>1 DEF DeltaFlush
  <2>2. Seen(q, <<>>) = <<>>
    BY PickedNone DEF Seen
  <2>3. Signed(<<>>) /\ \A v, b : Exactly(v, <<>>, b)
    BY NoDeltas
  <2> QED BY <1>3, <2>1, <2>2, <2>3
<1> QED BY <1>3, <1>4, <1>5, <1>6, <1>7, <1>8 DEF GraphqlNext, RowsNext, SnapshotFlush

(* Whatever is patched in place, spliced or served again, the list that is  *)
(* cached has the item of every row that is not dirty, a list that may be   *)
(* patched in place differs from the root rows in dirty rows only, and the  *)
(* payload has the items of the list (batch_render.rs                       *)
(* render_root_node_list, update_root_list_cache; graphql_observable.rs     *)
(* materialize_response_if_dirty, on_table_change_inner).                   *)
THEOREM ListAlways == GraphqlSpec => [](ListInv /\ ExactInv)
<1>1. GraphqlInit => ListInv /\ ExactInv
  BY ListInit
<1>2. CacheInv /\ IsFiniteSet(Changed) /\ SnapshotInv /\ NoHole /\ DeltaInv /\ ListInv /\ ExactInv /\ [GraphqlNext]_<<vars, gvars>>
        => (ListInv /\ ExactInv)'
  BY ListStep, ExactStep
<1> QED BY <1>1, <1>2, CacheAlways, ChangedAlways, SnapshotAlways, DeltaAlways, PTL DEF GraphqlSpec

(* Once nothing is queued, the response that a subscriber has is the one    *)
(* that rendering its root rows from scratch would give, whatever was       *)
(* served from caches on the way, unless an early return missed a nested    *)
(* change or a row id was searched in a list that is not in that order      *)
(* (batch_render.rs; graphql_observable.rs materialize_response_if_dirty).  *)
THEOREM ResponseAlwaysFresh == GraphqlSpec => []ResponseFresh
<1>1. CacheInv /\ ListInv => ResponseFresh
  <2> SUFFICES ASSUME CacheInv, ListInv, stage = "listening", ~Pending, obs.slips \cap {"unseen", "misplaced"} = {}
               PROVE  obs.payload.items = FreshItems(db, q, RootRows(result))
    BY DEF ResponseFresh, Settled
  <2> DEFINE b == obs.batch
             rows == RootRows(result)
  <2>1. /\ Typed /\ scenario.api # "rows" /\ ObservableOK(db, q, obs, deltas) /\ Selects(db, q)
        /\ "unseen" \notin obs.slips /\ "misplaced" \notin obs.slips
    BY SelectsTables DEF CacheInv
  <2>2. BatchOK(q, b) /\ AllFetched(db, q, b)
    <3>1. BatchOK(q, b) /\ BucketsCurrent(db, q, b, deltas)
      BY <2>1 DEF ObservableOK
    <3>2. ASSUME NEW x \in DOMAIN b.buckets PROVE b.buckets[x] = Fetch(db, q.nested[x[1]], x[2])
      <4>1. q.nested[x[1]].root \in DOMAIN db
        BY <2>1, <3>1, NodeRoots DEF BatchOK, IsBucket
      <4>2. deltas[q.nested[x[1]].root] = {}
        BY <2>1, <4>1, UnchangedEmpty DEF Pending
      <4> QED BY <3>1, <4>2 DEF BucketsCurrent
    <3> QED BY <3>1, <3>2 DEF AllFetched
  <2>3. ListOK(b) /\ PayloadOK(obs, rows) /\ UpToNow(obs)
    BY <2>1 DEF ListInv, Showing, Answering
  <2>4. obs.payload.items = b.items /\ b.rows = rows /\ b.dirty = {}
    BY <2>3 DEF PayloadOK, UpToNow
  <2> HIDE DEF b, rows
  <2>5. /\ DOMAIN b.items = DOMAIN rows /\ IsList(b.items) /\ IsList(rows)
        /\ \A n \in DOMAIN rows : <<0, rows[n]>> \in DOMAIN b.cache /\ b.items[n] = b.cache[<<0, rows[n]>>]
    BY <2>3, <2>4 DEF ListOK, DistinctIds
  <2>6. FreshItems(db, q, rows) = [n \in DOMAIN rows |-> b.cache[<<0, rows[n]>>]]
    BY <2>1, <2>2, <2>5, CachedItemsFresh
  <2>7. b.items = [n \in DOMAIN rows |-> b.items[n]]
    BY <2>5, IsListFacts
  <2>8. b.items = [n \in DOMAIN rows |-> b.cache[<<0, rows[n]>>]]
    BY <2>5, <2>7
  <2> QED BY <2>4, <2>6, <2>8 DEF rows
<1> QED BY <1>1, CacheAlways, ListAlways, PTL

(* What a subscriber was sent last, whole or patch upon patch, is then the  *)
(* response, unless a splice was applied again                              *)
(* (convert.rs gql_response_to_js_with_root_list_patch).                    *)
THEOREM HeardAlwaysCurrent == GraphqlSpec => []HeardCurrent
<1>1. CacheInv /\ ListInv => HeardCurrent
  <2> SUFFICES ASSUME CacheInv, ListInv, stage = "listening", ~Pending, obs.slips \cap {"spliced", "misplaced"} = {}
               PROVE  obs.heard = obs.payload.items
    BY DEF HeardCurrent, Settled
  <2>1. scenario.api # "rows" /\ "spliced" \notin obs.slips /\ "misplaced" \notin obs.slips
    BY DEF CacheInv
  <2>2. Showing(obs, RootRows(result)) /\ UpToNow(obs) /\ Heard(obs)
    BY <2>1 DEF ListInv, Answering
  <2>3. obs.heard = obs.payload.array
    BY <2>1, <2>2 DEF Heard
  <2>4. obs.payload.array = obs.payload.items
    BY <2>1, <2>2 DEF Showing, SentOK, WasSent, UpToNow
  <2> QED BY <2>3, <2>4
<1> QED BY <1>1, CacheAlways, ListAlways, PTL

(* The three together: root rows, response and what was sent.               *)
THEOREM GraphqlAlwaysCurrent == GraphqlSpec => []GraphqlCurrent
<1>1. RootsCurrent /\ ResponseFresh /\ HeardCurrent => GraphqlCurrent
  BY DEF GraphqlCurrent
<1> QED BY <1>1, RootsAlwaysCurrent, ResponseAlwaysFresh, HeardAlwaysCurrent, PTL

=============================================================================
