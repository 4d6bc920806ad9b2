----------------------------- MODULE PoolProofs -----------------------------
(***************************************************************************)
(* Proofs about the tags of pooled MetricData objects, for any requests,   *)
(* handlers and memory: the tags of a metric that may still have to be     *)
(* sent are those it was built for, although arrays are shared, appended   *)
(* to in place and reused.                                                 *)
(***************************************************************************)
EXTENDS MetricPool, SequenceTheorems, WellFoundedInduction, TLAPS

-----------------------------------------------------------------------------
(* Capacities *)

\* cap[k] is the capacity for k cells, up to m of them.
IsCap(cap, m) == cap = [k \in 0 .. m |-> IF k <= 1 THEN k ELSE 2 * cap[(k + 1) \div 2]]

LEMMA LeastNumber ==
  ASSUME NEW T, T \subseteq Nat, T # {}
  PROVE  \E m \in T : \A k \in T : m <= k
  <1> DEFINE R == OpToRel(<, Nat)
  <1>1. IsWellFoundedOn(R, Nat)
    BY NatLessThanWellFounded
  <1>2. \A a, b \in Nat : a < b => <<a, b>> \in R
    BY DEF OpToRel
  <1> HIDE DEF R
  <1>3. PICK x \in T : \A y \in T : <<y, x>> \notin R
    BY <1>1, WFMin, Zenon
  <1>4. ASSUME NEW y \in T
        PROVE  x <= y
    <2>1. x \in Nat /\ y \in Nat /\ ~ (y < x)
      BY <1>2, <1>3, Zenon
    <2> QED
      BY <2>1
  <1> QED
    BY <1>4, Zenon

\* There is such a function, so that the recursive definition defines it.
LEMMA CapExists ==
  ASSUME NEW m \in Nat
  PROVE  \E cap : IsCap(cap, m)
  <1> DEFINE T == {k \in Nat : ~ \E cap : IsCap(cap, k)}
  <1> SUFFICES ASSUME T # {}
               PROVE  FALSE
    OBVIOUS
  <1>1. PICK k \in T : \A j \in T : k <= j
    <2>1. T \subseteq Nat
      OBVIOUS
    <2> HIDE DEF T
    <2> QED
      BY <2>1, LeastNumber, Zenon
  <1>2. CASE k = 0
    <2> DEFINE f == [i \in 0 .. 0 |-> i]
    <2>1. \A i \in 0 .. 0 : i <= 1
      OBVIOUS
    <2>2. IsCap(f, 0)
      BY <2>1, Zenon DEF IsCap
    <2> QED
      BY <1>1, <1>2, <2>2, Zenon
  <1>3. CASE k # 0
    <2>1. k - 1 \in Nat /\ k \in Nat /\ ~ (k <= k - 1)
      BY <1>1, <1>3
    <2>2. PICK g : IsCap(g, k - 1)
      BY <1>1, <2>1, Zenon
    <2> DEFINE f == [i \in 0 .. k |-> IF i = k THEN (IF k <= 1 THEN k ELSE 2 * g[(k + 1) \div 2]) ELSE g[i]]
    <2>3. ASSUME NEW i \in 0 .. k
          PROVE  f[i] = IF i <= 1 THEN i ELSE 2 * f[(i + 1) \div 2]
      <3>1. i > 1 => (i + 1) \div 2 \in 0 .. k /\ (i + 1) \div 2 # k
        OBVIOUS
      <3>2. ~ (i <= 1) <=> i > 1
        OBVIOUS
      <3>3. CASE i = k
        BY <3>1, <3>2, <3>3, Zenon
      <3>4. CASE i # k
        <4>1. i \in 0 .. k - 1
          BY <2>1, <3>4
        <4>2. g[i] = IF i <= 1 THEN i ELSE 2 * g[(i + 1) \div 2]
          BY <2>2, <4>1, Zenon DEF IsCap
        <4> QED
          BY <3>1, <3>2, <3>4, <4>2, Zenon
      <3> QED
        BY <3>3, <3>4, Zenon
    <2>4. f = [i \in 0 .. k |-> f[i]]
      BY Zenon
    <2> HIDE DEF f
    <2>5. IsCap(f, k)
      BY <2>3, <2>4, Zenon DEF IsCap
    <2> QED
      BY <1>1, <2>5, Zenon
  <1> QED
    BY <1>2, <1>3, Zenon

\* A capacity is large enough.
LEMMA CapForFits ==
  ASSUME NEW n \in Nat
  PROVE  CapFor(n) \in Nat /\ CapFor(n) >= n
  <1> DEFINE cap == CHOOSE cap : IsCap(cap, n)
  <1>1. IsCap(cap, n)
    BY CapExists, Zenon
  <1>2. CapFor(n) = cap[n]
    BY Zenon DEF CapFor, IsCap
  <1> HIDE DEF cap
  <1>3. ASSUME NEW k \in 0 .. n
        PROVE  cap[k] = IF k <= 1 THEN k ELSE 2 * cap[(k + 1) \div 2]
    BY <1>1, Zenon DEF IsCap
  <1> DEFINE T == {k \in 0 .. n : ~ (cap[k] \in Nat /\ cap[k] >= k)}
  <1>4. T = {}
    <2> SUFFICES ASSUME T # {}
                 PROVE  FALSE
      OBVIOUS
    <2>1. PICK k \in T : \A j \in T : k <= j
      <3>1. T \subseteq Nat
        OBVIOUS
      <3> HIDE DEF T
      <3> QED
        BY <3>1, LeastNumber, Zenon
    <2>2. k \in 0 .. n /\ ~ (cap[k] \in Nat /\ cap[k] >= k)
      BY <2>1
    <2>3. k > 1
      BY <1>3, <2>2
    <2> DEFINE j == (k + 1) \div 2
    <2>4. j \in 0 .. n /\ ~ (k <= j) /\ 2 * j >= k
      BY <2>2, <2>3
    <2>5. cap[j] \in Nat /\ cap[j] >= j
      BY <2>1, <2>4, Zenon
    <2>6. cap[k] = 2 * cap[j]
      BY <1>3, <2>2, <2>3
    <2> HIDE DEF j
    <2> QED
      BY <2>2, <2>4, <2>5, <2>6
  <1> QED
    BY <1>2, <1>4

-----------------------------------------------------------------------------
(* Arrays *)

\* An array is a sequence, of values of any kind.
IsArray(c) == Len(c) \in Nat /\ DOMAIN c = 1 .. Len(c)

LEMMA ArrayLength ==
  ASSUME NEW m \in Nat, NEW f, f = [i \in 1 .. m |-> f[i]]
  PROVE  IsArray(f) /\ Len(f) = m
  <1> DEFINE S == {f[i] : i \in 1 .. m}
  <1>1. f \in [1 .. m -> S]
    BY Zenon
  <1> HIDE DEF S
  <1>2. f \in Seq(S)
    BY <1>1
  <1> QED
    BY <1>1, <1>2 DEF IsArray

LEMMA SortedDomain ==
  ASSUME NEW t
  PROVE  Sorted(t) = [i \in DOMAIN t |-> Sorted(t)[i]]
  <1> DEFINE P == CHOOSE p \in Permutations(DOMAIN t) :
                    \A i, j \in DOMAIN t : i < j => t[p[i]] <= t[p[j]]
  <1>1. Sorted(t) = [i \in DOMAIN t |-> t[P[i]]]
    BY DEF Sorted
  <1> HIDE DEF P
  <1> QED
    BY <1>1, Zenon

LEMMA FillArray ==
  ASSUME NEW c, IsArray(c), NEW from, NEW tags
  PROVE  IsArray(Fill(c, from, tags)) /\ Len(Fill(c, from, tags)) = Len(c)
  <1> DEFINE f == Fill(c, from, tags)
  <1>1. f = [i \in 1 .. Len(c) |-> f[i]] /\ Len(c) \in Nat
    BY Zenon DEF Fill, IsArray
  <1> HIDE DEF f
  <1>2. IsArray(f) /\ Len(f) = Len(c)
    BY <1>1, ArrayLength, Zenon
  <1> QED
    BY <1>2, Zenon DEF f

LEMMA SortArray ==
  ASSUME NEW c, IsArray(c), NEW n
  PROVE  IsArray(SortPrefix(c, n)) /\ Len(SortPrefix(c, n)) = Len(c)
  <1> DEFINE f == SortPrefix(c, n)
  <1>1. f = [i \in 1 .. Len(c) |-> f[i]] /\ Len(c) \in Nat
    BY Zenon DEF SortPrefix, IsArray
  <1> HIDE DEF f
  <1>2. IsArray(f) /\ Len(f) = Len(c)
    BY <1>1, ArrayLength, Zenon
  <1> QED
    BY <1>2, Zenon DEF f

\* The first cells of an array that has been filled with tags from its start,
\* and sorted, are the tags, sorted.
Filled(c, tags) == \A i \in 1 .. Len(tags) : c[i] = tags[i]

LEMMA SortFilled ==
  ASSUME NEW c, IsArray(c), NEW tags \in Seq(Nat), Len(tags) <= Len(c), Filled(c, tags)
  PROVE  [i \in 1 .. Len(tags) |-> SortPrefix(c, Len(tags))[i]] = Sorted(tags)
  <1> DEFINE n == Len(tags)
             p == [i \in 1 .. n |-> c[i]]
  <1>1. n \in Nat /\ DOMAIN tags = 1 .. n /\ tags = [i \in 1 .. n |-> tags[i]]
    OBVIOUS
  <1>2. p = tags
    BY <1>1, Zenon DEF Filled
  <1>3. \A i \in 1 .. n : i \in DOMAIN c /\ i <= n
    BY <1>1 DEF IsArray
  <1> HIDE DEF n
  <1>4. ASSUME NEW i \in 1 .. n
        PROVE  SortPrefix(c, n)[i] = Sorted(tags)[i]
    BY <1>2, <1>3, Zenon DEF SortPrefix
  <1>5. Sorted(tags) = [i \in 1 .. n |-> Sorted(tags)[i]]
    BY <1>1, SortedDomain, Zenon
  <1>6. [i \in 1 .. n |-> SortPrefix(c, n)[i]] = [i \in 1 .. n |-> Sorted(tags)[i]]
    BY <1>4, Zenon
  <1> QED
    BY <1>5, <1>6, Zenon DEF n

LEMMA FillFilled ==
  ASSUME NEW c, IsArray(c), NEW tags \in Seq(Nat), Len(tags) <= Len(c)
  PROVE  Filled(Fill(c, 0, tags), tags)
  <1> SUFFICES ASSUME NEW i \in 1 .. Len(tags)
               PROVE  Fill(c, 0, tags)[i] = tags[i]
    BY DEF Filled
  <1>1. i \in DOMAIN c /\ i > 0 /\ i - 0 <= Len(tags) /\ i - 0 = i
    BY DEF IsArray
  <1>2. Fill(c, 0, tags)[i] = tags[i - 0]
    BY <1>1, Zenon DEF Fill
  <1> QED
    BY <1>1, <1>2, Zenon

-----------------------------------------------------------------------------
(* Appending *)

Slices == [arr : Arrays \cup {NoArray}, len : Nat]

Heap == cells = [b \in Arrays |-> cells[b]] /\ \A b \in Arrays : IsArray(cells[b])

\* A slice lies within its array.
FitsIn(s, heap) == IF s.arr = NoArray THEN s.len = 0 ELSE s.len <= Len(heap[s.arr])

\* What an append of tags to s that ends up in array a does to memory.
Appended(s, tags, a) ==
  /\ Heap'
  /\ a = s.arr \/ FreshArray(a)
  /\ \A b \in Arrays : b # a /\ b # s.arr => cells'[b] = cells[b]
  /\ \A b \in Arrays : b # a \/ a = s.arr => Len(cells'[b]) = Len(cells[b])
  /\ IF a = NoArray THEN s.len + Len(tags) = 0 ELSE s.len + Len(tags) <= Len(cells'[a])
  /\ s.len = 0 => [i \in 1 .. Len(tags) |-> cells'[a][i]] = Sorted(tags)

\* No tags, and no array.
LEMMA AppendNothing ==
  ASSUME Heap, NEW s, NEW tags \in Seq(Nat), s.arr = NoArray, Len(tags) = 0, s.len + Len(tags) = 0, cells' = cells
  PROVE  Appended(s, tags, NoArray)
  <1>1. DOMAIN tags = {} /\ 1 .. Len(tags) = {}
    OBVIOUS
  <1>2. Sorted(tags) = [i \in {} |-> Sorted(tags)[i]]
    BY <1>1, SortedDomain, Zenon
  <1>3. [i \in 1 .. Len(tags) |-> cells'[NoArray][i]] = Sorted(tags)
    BY <1>1, <1>2, Zenon
  <1>4. Heap'
    BY Zenon DEF Heap
  <1> QED
    BY <1>3, <1>4, Zenon DEF Appended

LEMMA AppendInPlace ==
  ASSUME Heap, NEW s \in Slices, NEW tags \in Seq(Nat), NEW a \in Arrays, a = s.arr,
         s.len + Len(tags) <= Len(cells[a]),
         cells' = [cells EXCEPT ![a] = SortPrefix(Fill(cells[a], s.len, tags), s.len + Len(tags))]
  PROVE  Appended(s, tags, a)
  <1> DEFINE c == Fill(cells[a], s.len, tags)
             n == s.len + Len(tags)
  <1>1. IsArray(c) /\ Len(c) = Len(cells[a])
    BY FillArray, Zenon DEF Heap
  <1>2. IsArray(SortPrefix(c, n)) /\ Len(SortPrefix(c, n)) = Len(cells[a])
    BY <1>1, SortArray, Zenon
  <1>3. cells'[a] = SortPrefix(c, n)
    BY Zenon DEF Heap
  <1>4. \A b \in Arrays : b # a => cells'[b] = cells[b]
    BY Zenon DEF Heap
  <1>5. cells' = [b \in Arrays |-> cells'[b]]
    BY Zenon DEF Heap
  <1>6. ASSUME s.len = 0
        PROVE  [i \in 1 .. Len(tags) |-> cells'[a][i]] = Sorted(tags)
    <2>1. n = Len(tags) /\ Len(tags) <= Len(cells[a])
      BY <1>6
    <2>2. Filled(c, tags)
      BY <1>6, <2>1, FillFilled, Zenon DEF Heap
    <2> HIDE DEF c, n
    <2>3. [i \in 1 .. Len(tags) |-> SortPrefix(c, Len(tags))[i]] = Sorted(tags)
      BY <1>1, <2>1, <2>2, SortFilled, Zenon
    <2> QED
      BY <1>3, <2>1, <2>3, Zenon
  <1>7. s.len + Len(tags) <= Len(cells'[a])
    BY <1>2, <1>3, Zenon
  <1> HIDE DEF c, n
  <1>8. Heap'
    BY <1>2, <1>3, <1>4, <1>5, Zenon DEF Heap
  <1>9. \A b \in Arrays : Len(cells'[b]) = Len(cells[b])
    BY <1>2, <1>3, <1>4, Zenon
  <1> QED
    BY <1>4, <1>6, <1>7, <1>8, <1>9, MetricPoolAssumption, Zenon DEF Appended

\* old is the memory with the spare cells of the array of s used up.
UsedUp(s, old) ==
  /\ old = [b \in Arrays |-> old[b]]
  /\ \A b \in Arrays : IsArray(old[b]) /\ Len(old[b]) = Len(cells[b]) /\ (b # s.arr => old[b] = cells[b])

LEMMA SpareCells ==
  ASSUME Heap, NEW s \in Slices, NEW tags, NEW old,
         old = Written(s.arr, Fill(cells[s.arr], s.len, tags))
  PROVE  UsedUp(s, old)
  <1>1. s.arr \in Arrays \cup {NoArray}
    BY DEF Slices
  <1>2. CASE s.arr = NoArray
    <2>1. old = cells
      BY <1>2, Zenon DEF Written
    <2> QED
      BY <2>1, Zenon DEF Heap, UsedUp
  <1>3. CASE s.arr # NoArray
    <2>1. old = [cells EXCEPT ![s.arr] = Fill(cells[s.arr], s.len, tags)] /\ s.arr \in Arrays
      BY <1>1, <1>3, Zenon DEF Written
    <2>2. old = [b \in Arrays |-> old[b]] /\ \A b \in Arrays : b # s.arr => old[b] = cells[b]
      BY <2>1, Zenon DEF Heap
    <2>3. old[s.arr] = Fill(cells[s.arr], s.len, tags)
      BY <2>1, Zenon DEF Heap
    <2>4. IsArray(old[s.arr]) /\ Len(old[s.arr]) = Len(cells[s.arr])
      <3> DEFINE c == cells[s.arr]
      <3>1. IsArray(c)
        BY <2>1, Zenon DEF Heap
      <3> HIDE DEF c
      <3>2. IsArray(Fill(c, s.len, tags)) /\ Len(Fill(c, s.len, tags)) = Len(c)
        BY <3>1, FillArray, Zenon
      <3> QED
        BY <2>3, <3>2, Zenon DEF c
    <2> QED
      BY <2>2, <2>4, Zenon DEF Heap, UsedUp
  <1> QED
    BY <1>2, <1>3, Zenon

LEMMA AppendMoved ==
  ASSUME Heap, NEW s \in Slices, NEW tags \in Seq(Nat), NEW a \in Arrays, a # s.arr, FreshArray(a),
         NEW old, UsedUp(s, old), NEW zeros, zeros = [i \in 1 .. CapFor(s.len + Len(tags)) |-> 0],
         cells' = [old EXCEPT ![a] = SortPrefix(Fill(Fill(zeros, 0, Contents(s, cells)), s.len, tags), s.len + Len(tags))]
  PROVE  Appended(s, tags, a)
  <1> DEFINE n == s.len + Len(tags)
             z == Fill(zeros, 0, Contents(s, cells))
             c == Fill(z, s.len, tags)
  <1>1. n \in Nat /\ Len(tags) \in Nat
    BY DEF Slices
  <1>2. CapFor(n) \in Nat /\ CapFor(n) >= n
    BY <1>1, CapForFits, Zenon
  <1>3. zeros = [i \in 1 .. CapFor(n) |-> zeros[i]]
    BY Zenon
  <1>4. IsArray(zeros) /\ Len(zeros) = CapFor(n)
    BY <1>2, <1>3, ArrayLength, Zenon
  <1>5. IsArray(z) /\ Len(z) = CapFor(n)
    BY <1>4, FillArray, Zenon
  <1> HIDE DEF z
  <1>6. IsArray(c) /\ Len(c) = CapFor(n)
    BY <1>5, FillArray, Zenon
  <1>7. IsArray(SortPrefix(c, n)) /\ Len(SortPrefix(c, n)) = CapFor(n)
    BY <1>6, SortArray, Zenon
  <1>8. cells' = [b \in Arrays |-> cells'[b]] /\ cells'[a] = SortPrefix(c, n) /\ \A b \in Arrays : b # a => cells'[b] = old[b]
    BY Zenon DEF UsedUp, z
  <1>9. ASSUME s.len = 0
        PROVE  [i \in 1 .. Len(tags) |-> cells'[a][i]] = Sorted(tags)
    <2>1. n = Len(tags) /\ Len(tags) <= Len(z) /\ Len(tags) <= Len(c)
      BY <1>1, <1>2, <1>5, <1>6, <1>9
    <2>2. Filled(c, tags)
      BY <1>5, <1>9, <2>1, FillFilled, Zenon
    <2> HIDE DEF c, n
    <2>3. [i \in 1 .. Len(tags) |-> SortPrefix(c, Len(tags))[i]] = Sorted(tags)
      BY <1>6, <2>1, <2>2, SortFilled, Zenon
    <2> QED
      BY <1>8, <2>1, <2>3, Zenon
  <1>10. n <= Len(cells'[a])
    BY <1>1, <1>2, <1>7, <1>8
  <1>11. s.len + Len(tags) <= Len(cells'[a])
    BY <1>10
  <1> HIDE DEF c, n
  <1>12. Heap'
    BY <1>7, <1>8, Zenon DEF Heap, UsedUp
  <1>13. \A b \in Arrays : b # a => Len(cells'[b]) = Len(cells[b]) /\ (b # s.arr => cells'[b] = cells[b])
    BY <1>8, Zenon DEF UsedUp
  <1> QED
    BY <1>9, <1>11, <1>12, <1>13, MetricPoolAssumption, Zenon DEF Appended

LEMMA AppendDoes ==
  ASSUME Heap, NEW s \in Slices, FitsIn(s, cells), NEW tags \in Seq(Nat), NEW a \in Arrays \cup {NoArray},
         FreshArray(a) => a # s.arr, AppendTags(s, tags, [arr |-> a, len |-> s.len + Len(tags)])
  PROVE  Appended(s, tags, a)
  <1> DEFINE n == s.len + Len(tags)
             cap == IF s.arr = NoArray THEN 0 ELSE Len(cells[s.arr])
             filled == Fill(cells[s.arr], s.len, tags)
             old == Written(s.arr, filled)
             zeros == [i \in 1 .. CapFor(n) |-> 0]
             moved == Fill(Fill(zeros, 0, Contents(s, cells)), s.len, tags)
             new == [arr |-> a, len |-> n]
  <1>1. new.arr = a
    OBVIOUS
  <1>2. \/ n <= cap /\ a = s.arr /\ cells' = Written(s.arr, SortPrefix(filled, n))
        \/ n > cap /\ FreshArray(a) /\ cells' = [old EXCEPT ![a] = SortPrefix(moved, n)]
    <2>1. \/ n <= cap /\ new.arr = s.arr /\ cells' = Written(s.arr, SortPrefix(filled, n))
          \/ n > cap /\ FreshArray(new.arr) /\ cells' = [old EXCEPT ![new.arr] = SortPrefix(moved, n)]
      BY Zenon DEF AppendTags
    <2> HIDE DEF old, filled, moved, cap, n, new
    <2> QED
      BY <1>1, <2>1, Zenon
  <1>3. CASE n <= cap /\ a = s.arr /\ cells' = Written(s.arr, SortPrefix(filled, n))
    <2>1. CASE a = NoArray
      <3>1. cells' = cells /\ cap = 0
        BY <1>3, <2>1, Zenon DEF Written
      <3>2. s.len \in Nat /\ Len(tags) \in Nat /\ n <= 0
        BY <1>3, <3>1 DEF Slices
      <3>3. Len(tags) = 0 /\ s.len + Len(tags) = 0
        BY <3>2
      <3> QED
        BY <1>3, <2>1, <3>1, <3>3, AppendNothing, Zenon
    <2>2. CASE a # NoArray
      <3>1. a \in Arrays /\ cap = Len(cells[a])
        BY <1>3, <2>2, Zenon
      <3>2. cells' = [cells EXCEPT ![a] = SortPrefix(Fill(cells[a], s.len, tags), n)]
        BY <1>3, <2>2, Zenon DEF Written
      <3> QED
        BY <1>3, <3>1, <3>2, AppendInPlace, Zenon
    <2> QED
      BY <2>1, <2>2, Zenon
  <1>4. CASE n > cap /\ FreshArray(a) /\ cells' = [old EXCEPT ![a] = SortPrefix(moved, n)]
    <2>1. UsedUp(s, old)
      BY SpareCells, Zenon
    <2>2. a \in Arrays
      BY <1>4, Zenon DEF FreshArray
    <2> HIDE DEF old
    <2> QED
      BY <1>4, <2>1, <2>2, AppendMoved, Zenon
  <1> QED
    BY <1>2, <1>3, <1>4, Zenon

-----------------------------------------------------------------------------
(* The invariant *)

Metrics == [obj : Objects, want : {Sorted(t) : t \in Seq(Nat)}]

ObjsOf(s) == {s[i].obj : i \in DOMAIN s}
Objs(h) == ObjsOf(mine[h])
Live == pool \cup Owned

Shape ==
  /\ pool \subseteq Objects
  /\ slice \in [Objects -> Slices]
  /\ Heap
  /\ hpc \in [Handlers -> {"idle", "build", "publish", "put"}]
  /\ req \in [Handlers -> Requests \cup {NoRequest}]
  /\ at \in [Handlers -> [s : Nat \ {0}, n : Nat \ {0}]]
  /\ tagSet \in [Handlers -> Slices]
  /\ mine \in [Handlers -> Seq(Metrics)]
  /\ served \in 0 .. MaxServed /\ tainted \in BOOLEAN
  /\ \A h \in Handlers : IF hpc[h] = "idle" THEN mine[h] = <<>> /\ at[h] = Start ELSE req[h] \in Requests

\* An object is in the pool, or at one place of the buf of one handler.
Distinct(s) == \A i, j \in DOMAIN s : s[i].obj = s[j].obj => i = j
Apart ==
  /\ \A h \in Handlers : \A o \in Objs(h) : o \notin pool
  /\ \A g, h \in Handlers : \A o \in Objs(g) : o \in Objs(h) => g = h
  /\ \A h \in Handlers : Distinct(mine[h])

\* Its tags, if there are any, lie within an array.
Within == \A o \in Live : FitsIn(slice[o], cells)

\* Two slices of one array.
Joint(s, t) == s.arr = t.arr /\ s.arr # NoArray

\* The objects of a Prometheus or Datadog request that are still to be sent
\* share their arrays with no others.
Sharing(h) == hpc[h] \in {"build", "publish"} /\ req[h].kind # "opentsdb"
SharedApart ==
  \A h \in Handlers : Sharing(h) =>
    \A o \in Objs(h) : \A p \in Live : Joint(slice[p], slice[o]) => p \in Objs(h)

\* As long as no Prometheus object has gone back, those of OpenTSDB requests
\* and of the pool share no arrays; the pooled ones have no tags.
Single(o) == o \in pool \/ \E h \in Handlers : hpc[h] # "idle" /\ req[h].kind = "opentsdb" /\ o \in Objs(h)
SingleApart ==
  ~ tainted =>
    \A o \in Live : Single(o) => /\ \A p \in Live : Joint(slice[p], slice[o]) => p = o
                                 /\ o \in pool => slice[o].len = 0

\* Within a series, the tagSet is that of a sample already built.
HasTags(s, sl, t, tags) == \E i \in DOMAIN s : sl[s[i].obj] = t /\ s[i].want = Sorted(tags)
Latest ==
  \A h \in Handlers : hpc[h] = "build" /\ req[h].kind # "opentsdb" /\ at[h].n > 1 =>
    HasTags(mine[h], slice, tagSet[h], Series(h).tags)

\* What is still to be sent carries its own tags.
ExactIn(s, sl, heap) == \A i \in DOMAIN s : Contents(sl[s[i].obj], heap) = s[i].want
Safe(h) == hpc[h] \in {"build", "publish"} /\ (req[h].kind # "opentsdb" \/ ~ tainted)
AllExact == \A h \in Handlers : Safe(h) => ExactIn(mine[h], slice, cells)

PoolInv == Shape /\ Apart /\ Within /\ SharedApart /\ SingleApart /\ Latest /\ AllExact

-----------------------------------------------------------------------------
(* The objects of a buf *)

LEMMA AppendObjs ==
  ASSUME NEW s \in Seq(Metrics), NEW e \in Metrics
  PROVE  /\ Append(s, e) \in Seq(Metrics)
         /\ ObjsOf(Append(s, e)) = ObjsOf(s) \cup {e.obj}
         /\ Distinct(s) /\ e.obj \notin ObjsOf(s) => Distinct(Append(s, e))
  <1> DEFINE t == Append(s, e)
  <1>1. t \in Seq(Metrics) /\ Len(s) \in Nat /\ DOMAIN s = 1 .. Len(s) /\ DOMAIN t = 1 .. Len(s) + 1
    OBVIOUS
  <1>2. (\A i \in DOMAIN s : t[i] = s[i]) /\ t[Len(s) + 1] = e
    OBVIOUS
  <1> HIDE DEF t
  <1>3. \A i \in DOMAIN t : i \in DOMAIN s \/ i = Len(s) + 1
    BY <1>1
  <1>4. DOMAIN s \subseteq DOMAIN t /\ Len(s) + 1 \in DOMAIN t
    BY <1>1
  <1>5. ObjsOf(t) = ObjsOf(s) \cup {e.obj}
    BY <1>2, <1>3, <1>4, Zenon DEF ObjsOf
  <1>6. ASSUME Distinct(s), e.obj \notin ObjsOf(s)
        PROVE  Distinct(t)
    <2> SUFFICES ASSUME NEW i \in DOMAIN t, NEW j \in DOMAIN t, t[i].obj = t[j].obj
                 PROVE  i = j
      BY Zenon DEF Distinct
    <2>1. \A k \in DOMAIN s : s[k].obj # e.obj
      BY <1>6, Zenon DEF ObjsOf
    <2> QED
      BY <1>2, <1>3, <1>6, <2>1, Zenon DEF Distinct
  <1> QED
    BY <1>1, <1>5, <1>6, Zenon DEF t

LEMMA TailObjs ==
  ASSUME NEW s \in Seq(Metrics), s # <<>>
  PROVE  /\ Head(s) \in Metrics /\ Tail(s) \in Seq(Metrics)
         /\ ObjsOf(s) = ObjsOf(Tail(s)) \cup {Head(s).obj}
         /\ Distinct(s) => Distinct(Tail(s)) /\ Head(s).obj \notin ObjsOf(Tail(s))
  <1> DEFINE t == Tail(s)
  <1>1. t \in Seq(Metrics) /\ Head(s) \in Metrics /\ Len(s) \in Nat /\ DOMAIN s = 1 .. Len(s) /\ DOMAIN t = 1 .. Len(s) - 1
    OBVIOUS
  <1>2. (\A i \in DOMAIN t : t[i] = s[i + 1]) /\ Head(s) = s[1]
    OBVIOUS
  <1> HIDE DEF t
  <1>3. (\A i \in DOMAIN t : i + 1 \in DOMAIN s /\ i + 1 # 1) /\ (\A i \in DOMAIN s : i = 1 \/ (i - 1 \in DOMAIN t /\ (i - 1) + 1 = i))
    BY <1>1
  <1>4. 1 \in DOMAIN s
    BY <1>1
  <1>5. \A i, j \in DOMAIN t : i + 1 = j + 1 => i = j
    BY <1>1
  <1>6. ObjsOf(s) = ObjsOf(t) \cup {Head(s).obj}
    <2>1. ASSUME NEW i \in DOMAIN s
          PROVE  s[i].obj \in ObjsOf(t) \cup {Head(s).obj}
      <3>1. CASE i = 1
        BY <1>2, <3>1, Zenon
      <3>2. CASE i # 1
        <4>1. i - 1 \in DOMAIN t /\ t[i - 1] = s[i]
          BY <1>2, <1>3, <3>2, Zenon
        <4> QED
          BY <4>1, Zenon DEF ObjsOf
      <3> QED
        BY <3>1, <3>2, Zenon
    <2>2. ASSUME NEW i \in DOMAIN t
          PROVE  t[i].obj \in ObjsOf(s)
      BY <1>2, <1>3, Zenon DEF ObjsOf
    <2>3. Head(s).obj \in ObjsOf(s)
      BY <1>2, <1>4, Zenon DEF ObjsOf
    <2>4. ObjsOf(s) \subseteq ObjsOf(t) \cup {Head(s).obj}
      BY <2>1, Zenon DEF ObjsOf
    <2>5. ObjsOf(t) \subseteq ObjsOf(s)
      BY <2>2, Zenon DEF ObjsOf
    <2> QED
      BY <2>3, <2>4, <2>5, Zenon
  <1>7. ASSUME Distinct(s)
        PROVE  Distinct(t) /\ Head(s).obj \notin ObjsOf(t)
    <2>1. Distinct(t)
      <3> SUFFICES ASSUME NEW i \in DOMAIN t, NEW j \in DOMAIN t, t[i].obj = t[j].obj
                   PROVE  i = j
        BY Zenon DEF Distinct
      <3>1. i + 1 = j + 1
        BY <1>2, <1>3, <1>7, Zenon DEF Distinct
      <3> QED
        BY <1>5, <3>1, Zenon
    <2>2. ASSUME NEW i \in DOMAIN t, t[i].obj = Head(s).obj
          PROVE  FALSE
      <3>1. i + 1 = 1
        BY <1>2, <1>3, <1>4, <1>7, <2>2, Zenon DEF Distinct
      <3> QED
        BY <1>3, <3>1, Zenon
    <2> QED
      BY <2>1, <2>2, Zenon DEF ObjsOf
  <1> QED
    BY <1>1, <1>6, <1>7, Zenon DEF t

\* What is exact stays so when its slices and their contents stay.
Keeps(O, sl1, heap1, sl2, heap2) == \A o \in O : Contents(sl2[o], heap2) = Contents(sl1[o], heap1)

LEMMA ExactKept ==
  ASSUME NEW s, NEW sl1, NEW heap1, NEW sl2, NEW heap2,
         ExactIn(s, sl1, heap1), Keeps(ObjsOf(s), sl1, heap1, sl2, heap2)
  PROVE  ExactIn(s, sl2, heap2)
  BY Zenon DEF ExactIn, Keeps, ObjsOf

LEMMA ExactAppended ==
  ASSUME NEW s \in Seq(Metrics), NEW e \in Metrics, NEW sl, NEW heap,
         ExactIn(s, sl, heap), Contents(sl[e.obj], heap) = e.want
  PROVE  ExactIn(Append(s, e), sl, heap)
  <1> DEFINE t == Append(s, e)
  <1>1. \A i \in DOMAIN t : (i \in DOMAIN s /\ t[i] = s[i]) \/ t[i] = e
    OBVIOUS
  <1> HIDE DEF t
  <1>2. ExactIn(t, sl, heap)
    BY <1>1, Zenon DEF ExactIn
  <1> QED
    BY <1>2, Zenon DEF t

\* A slice keeps its contents when its array, if it has one, keeps its cells.
Stays(a) == a # NoArray => cells'[a] = cells[a]

LEMMA ContentsKept ==
  ASSUME NEW s, FitsIn(s, cells), Stays(s.arr)
  PROVE  Contents(s, cells') = Contents(s, cells) /\ FitsIn(s, cells')
  <1>1. CASE s.arr = NoArray
    <2>1. s.len = 0
      BY <1>1, Zenon DEF FitsIn
    <2>2. 1 .. s.len = {}
      BY <2>1
    <2> QED
      BY <1>1, <2>1, <2>2, Zenon DEF Contents, FitsIn
  <1>2. CASE s.arr # NoArray
    BY <1>2, Zenon DEF Contents, FitsIn, Stays
  <1> QED
    BY <1>1, <1>2, Zenon

\* The live objects of two successive states.
LEMMA OwnedIs ==
  /\ \A o : o \in Owned <=> \E h \in Handlers : o \in Objs(h)
  /\ \A o : o \in Owned' <=> \E h \in Handlers : o \in Objs(h)'
  BY Zenon DEF Owned, OwnedBy, Objs, ObjsOf

LEMMA ObjsTyped ==
  ASSUME Shape, NEW h \in Handlers
  PROVE  Objs(h) \subseteq Objects
  <1>1. mine[h] \in Seq(Metrics)
    BY Zenon DEF Shape
  <1>2. ASSUME NEW s \in Seq(Metrics), NEW i \in DOMAIN s
        PROVE  s[i].obj \in Objects
    <2>1. s[i] \in Metrics
      OBVIOUS
    <2> QED
      BY <2>1 DEF Metrics
  <1> QED
    BY <1>1, <1>2, Zenon DEF Objs, ObjsOf

LEMMA LiveTyped ==
  ASSUME Shape
  PROVE  Live \subseteq Objects /\ \A p \in Live : slice[p] \in Slices /\ slice[p].arr \in Arrays \cup {NoArray}
  <1>1. Live \subseteq Objects
    BY ObjsTyped, OwnedIs, Zenon DEF Live, Shape
  <1>2. \A p \in Objects : slice[p] \in Slices
    BY Zenon DEF Shape
  <1>3. \A s \in Slices : s.arr \in Arrays \cup {NoArray}
    BY DEF Slices
  <1> QED
    BY <1>1, <1>2, <1>3, Zenon

-----------------------------------------------------------------------------
(* Building a metric *)

LEMMA SeriesTyped ==
  ASSUME Shape, NEW h \in Handlers, hpc[h] = "build", at[h].s <= Len(req[h].series)
  PROVE  Series(h).tags \in Seq(Nat) /\ Series(h).samples \in Nat \ {0}
  <1> DEFINE S == [tags : Seq(Nat), samples : Nat \ {0}]
             q == req[h].series
             k == at[h].s
  <1>1. req[h] \in Requests
    <2>1. hpc[h] # "idle"
      OBVIOUS
    <2> QED
      BY <2>1, Zenon DEF Shape
  <1>2. q \in Seq(S)
    BY <1>1, MetricPoolAssumption, Zenon
  <1>3. k \in Nat \ {0}
    <2>1. at[h] \in [s : Nat \ {0}, n : Nat \ {0}]
      BY Zenon DEF Shape
    <2> QED
      BY <2>1
  <1>4. Series(h) = q[k]
    BY Zenon DEF Series
  <1> HIDE DEF S, q, k
  <1>5. q[k] \in S
    <2>1. k <= Len(q)
      BY Zenon DEF q, k
    <2> QED
      BY <1>2, <1>3, <2>1
  <1> QED
    BY <1>4, <1>5 DEF S

\* What building a metric in object o does to who has which object.
Gains(h, o) ==
  /\ o \in Objects /\ o \notin Owned
  /\ pool' = pool \ {o}
  /\ mine' \in [Handlers -> Seq(Metrics)] /\ at' \in [Handlers -> [s : Nat \ {0}, n : Nat \ {0}]]
  /\ \A g \in Handlers : g # h => mine'[g] = mine[g] /\ at'[g] = at[g]
  /\ \A g \in Handlers : g # h => Objs(g)' = Objs(g)
  /\ Objs(h)' = Objs(h) \cup {o}
  /\ \A p : p \in Live' <=> p \in Live \/ p = o

LEMMA CollectedMetric ==
  ASSUME Shape, NEW h \in Handlers, NEW o \in Objects, hpc[h] = "build", at[h].s <= Len(req[h].series),
         Collect(h, o)
  PROVE  \E e \in Metrics : /\ e.obj = o /\ e.want = Sorted(Series(h).tags)
                            /\ mine' = [mine EXCEPT ![h] = Append(mine[h], e)]
  <1> DEFINE e == [obj |-> o, want |-> Sorted(Series(h).tags)]
  <1>1. e \in Metrics
    BY SeriesTyped DEF Metrics
  <1>2. mine' = [mine EXCEPT ![h] = Append(mine[h], e)]
    BY Zenon DEF Collect
  <1>3. e.obj = o /\ e.want = Sorted(Series(h).tags)
    OBVIOUS
  <1> QED
    BY <1>1, <1>2, <1>3, Zenon

LEMMA CollectedPlace ==
  ASSUME Shape, NEW h \in Handlers, NEW o \in Objects, Collect(h, o)
  PROVE  /\ at' \in [Handlers -> [s : Nat \ {0}, n : Nat \ {0}]]
         /\ \A g \in Handlers : g # h => at'[g] = at[g]
         /\ at'[h].n > 1 => at'[h].s = at[h].s
  <1>1. at[h] \in [s : Nat \ {0}, n : Nat \ {0}] /\ at \in [Handlers -> [s : Nat \ {0}, n : Nat \ {0}]]
    BY Zenon DEF Shape
  <1> DEFINE k == IF at[h].n = Series(h).samples THEN [s |-> at[h].s + 1, n |-> 1]
                                                 ELSE [s |-> at[h].s, n |-> at[h].n + 1]
  <1>2. at' = [at EXCEPT ![h] = k]
    BY DEF Collect
  <1>3. k \in [s : Nat \ {0}, n : Nat \ {0}] /\ (k.n > 1 => k.s = at[h].s)
    BY <1>1
  <1> HIDE DEF k
  <1> QED
    BY <1>1, <1>2, <1>3

LEMMA BuildGains ==
  ASSUME Shape, Apart, NEW h \in Handlers, NEW o \in Objects, hpc[h] = "build",
         at[h].s <= Len(req[h].series), Get(o), Collect(h, o)
  PROVE  Gains(h, o) /\ Apart'
  <1>1. PICK e \in Metrics : /\ e.obj = o /\ e.want = Sorted(Series(h).tags)
                             /\ mine' = [mine EXCEPT ![h] = Append(mine[h], e)]
    BY CollectedMetric, Zenon
  <1>2. mine \in [Handlers -> Seq(Metrics)] /\ mine[h] \in Seq(Metrics)
    BY Zenon DEF Shape
  <1>3. mine'[h] = Append(mine[h], e) /\ \A g \in Handlers : g # h => mine'[g] = mine[g]
    BY <1>1, <1>2, Zenon
  <1>4. mine' \in [Handlers -> Seq(Metrics)]
    <2>1. Append(mine[h], e) \in Seq(Metrics)
      BY <1>2, AppendObjs, Zenon
    <2> QED
      BY <1>1, <1>2, <2>1, Zenon
  <1>5. o \notin Owned
    BY OwnedIs, Zenon DEF Get, FreshObject, Apart
  <1>6. o \notin Objs(h)
    BY <1>5, OwnedIs, Zenon
  <1>7. Objs(h)' = Objs(h) \cup {o} /\ Distinct(mine'[h])
    <2>1. ObjsOf(Append(mine[h], e)) = ObjsOf(mine[h]) \cup {e.obj}
      BY <1>2, AppendObjs, Zenon
    <2>2. Distinct(mine[h]) /\ e.obj \notin ObjsOf(mine[h])
      BY <1>1, <1>6, Zenon DEF Apart, Objs
    <2>3. Distinct(Append(mine[h], e))
      BY <1>2, <2>2, AppendObjs, Zenon
    <2> QED
      BY <1>1, <1>3, <2>1, <2>3, Zenon DEF Objs
  <1>8. \A g \in Handlers : g # h => Objs(g)' = Objs(g)
    BY <1>3, Zenon DEF Objs
  <1>9. pool' = pool \ {o}
    BY Zenon DEF Get
  <1>10. \A p : p \in Live' <=> p \in Live \/ p = o
    <2>1. \A p : p \in Owned' <=> p \in Owned \/ p = o
      <3>1. ASSUME NEW p \in Owned'
            PROVE  p \in Owned \/ p = o
        <4>1. PICK g \in Handlers : p \in Objs(g)'
          BY <3>1, OwnedIs, Zenon
        <4>2. p \in Objs(g) \/ p = o
          BY <1>7, <1>8, <4>1, Zenon
        <4> QED
          BY <4>2, OwnedIs, Zenon
      <3>2. ASSUME NEW p \in Owned
            PROVE  p \in Owned'
        <4>1. PICK g \in Handlers : p \in Objs(g)
          BY <3>2, OwnedIs, Zenon
        <4>2. p \in Objs(g)'
          BY <1>7, <1>8, <4>1, Zenon
        <4> QED
          BY <4>2, OwnedIs, Zenon
      <3>3. o \in Owned'
        BY <1>7, OwnedIs, Zenon
      <3> QED
        BY <3>1, <3>2, <3>3, Zenon
    <2> QED
      BY <1>9, <2>1, Zenon DEF Live
  <1>11. Gains(h, o)
    BY <1>3, <1>4, <1>5, <1>7, <1>8, <1>9, <1>10, CollectedPlace, Zenon DEF Gains
  <1>12. Apart'
    <2>1. \A g \in Handlers : \A p \in Objs(g)' : p \notin pool'
      BY <1>7, <1>8, <1>9, Zenon DEF Apart
    <2>2. \A f, g \in Handlers : \A p \in Objs(f)' : p \in Objs(g)' => f = g
      <3>1. \A g \in Handlers : o \notin Objs(g)
        BY <1>5, OwnedIs, Zenon
      <3>2. \A g \in Handlers : \A p \in Objs(g)' : p \in Objs(g) \/ (g = h /\ p = o)
        BY <1>7, <1>8, Zenon
      <3> SUFFICES ASSUME NEW f \in Handlers, NEW g \in Handlers, NEW p \in Objs(f)', p \in Objs(g)'
                   PROVE  f = g
        BY Zenon
      <3>3. p \in Objs(f) \/ (f = h /\ p = o)
        BY <3>2, Zenon
      <3>4. p \in Objs(g) \/ (g = h /\ p = o)
        BY <3>2, Zenon
      <3> QED
        BY <3>1, <3>3, <3>4, Zenon DEF Apart
    <2>3. \A g \in Handlers : Distinct(mine'[g])
      BY <1>3, <1>7, Zenon DEF Apart
    <2> QED
      BY <2>1, <2>2, <2>3, Zenon DEF Apart
  <1> QED
    BY <1>11, <1>12, Zenon

\* The effect of a build step on the slices: o gets another one.
SliceSet(o, new) ==
  /\ new \in Slices /\ slice' = [slice EXCEPT ![o] = new]
  /\ Heap' /\ FitsIn(new, cells')
  /\ \A p \in Live : p # o /\ slice[p].arr # NoArray => Len(cells'[slice[p].arr]) = Len(cells[slice[p].arr])

LEMMA SlicesNow ==
  ASSUME Shape, NEW o \in Objects, NEW new, SliceSet(o, new)
  PROVE  slice' \in [Objects -> Slices] /\ slice'[o] = new /\ \A p \in Live : p # o => slice'[p] = slice[p]
  <1>1. slice \in [Objects -> Slices] /\ slice' = [slice EXCEPT ![o] = new] /\ new \in Slices
    BY Zenon DEF Shape, SliceSet
  <1>2. slice' \in [Objects -> Slices]
    BY <1>1, Zenon
  <1>3. slice'[o] = new /\ \A p \in Objects : p # o => slice'[p] = slice[p]
    BY <1>1, Zenon
  <1> QED
    BY <1>2, <1>3, LiveTyped, Zenon

LEMMA BuildWithin ==
  ASSUME Shape, Within, NEW h \in Handlers, NEW o \in Objects, NEW new, Gains(h, o), SliceSet(o, new)
  PROVE  Within'
  <1> SUFFICES ASSUME NEW p \in Live'
               PROVE  FitsIn(slice'[p], cells')
    BY Zenon DEF Within
  <1>1. CASE p = o
    BY <1>1, SlicesNow, Zenon DEF SliceSet
  <1>2. CASE p # o
    <2>1. p \in Live
      BY <1>2, Zenon DEF Gains
    <2>2. slice'[p] = slice[p] /\ (slice[p].arr # NoArray => Len(cells'[slice[p].arr]) = Len(cells[slice[p].arr]))
      BY <1>2, <2>1, SlicesNow, Zenon DEF SliceSet
    <2>3. FitsIn(slice[p], cells)
      BY <2>1, Zenon DEF Within
    <2> QED
      BY <2>2, <2>3, Zenon DEF FitsIn
  <1> QED
    BY <1>1, <1>2, Zenon

LEMMA BuildShape ==
  ASSUME Shape, NEW h \in Handlers, NEW o \in Objects, NEW new, Gains(h, o), SliceSet(o, new),
         hpc[h] = "build", UNCHANGED <<served, hpc, req, tainted>>, tagSet' \in [Handlers -> Slices]
  PROVE  Shape'
  <1>1. pool' \subseteq Objects
    BY Zenon DEF Gains, Shape
  <1>2. slice' \in [Objects -> Slices] /\ Heap'
    BY SlicesNow, Zenon DEF SliceSet
  <1>3. hpc[h] # "idle"
    OBVIOUS
  <1>4. \A g \in Handlers : IF hpc'[g] = "idle" THEN mine'[g] = <<>> /\ at'[g] = Start ELSE req'[g] \in Requests
    BY <1>3, Zenon DEF Gains, Shape
  <1> QED
    BY <1>1, <1>2, <1>4, Zenon DEF Gains, Shape

\* The arrays of what is still to be sent keep their cells.
Untouched ==
  \A g \in Handlers : Safe(g) => \A p \in Objs(g) : Stays(slice[p].arr)

LEMMA BuildExact ==
  ASSUME PoolInv, NEW h \in Handlers, NEW o \in Objects, NEW new, Gains(h, o), SliceSet(o, new),
         hpc[h] = "build", at[h].s <= Len(req[h].series), Collect(h, o),
         UNCHANGED <<hpc, req, tainted>>, Untouched,
         Safe(h) => Contents(new, cells') = Sorted(Series(h).tags)
  PROVE  AllExact'
  <1> USE DEF PoolInv
  <1>1. \A p \in Live : p # o => slice'[p] = slice[p]
    BY SlicesNow, Zenon
  <1>2. ASSUME NEW g \in Handlers, Safe(g)
        PROVE  ExactIn(mine[g], slice', cells')
    <2>1. ASSUME NEW p \in ObjsOf(mine[g])
          PROVE  Contents(slice'[p], cells') = Contents(slice[p], cells)
      <3>1. p \in Objs(g)
        BY Zenon DEF Objs
      <3>2. p \in Owned
        BY <3>1, OwnedIs, Zenon
      <3>3. p \in Live /\ p # o
        BY <3>2, Zenon DEF Live, Gains
      <3>4. slice'[p] = slice[p] /\ Stays(slice[p].arr) /\ FitsIn(slice[p], cells)
        BY <1>1, <1>2, <3>1, <3>3, Zenon DEF Untouched, Within
      <3> QED
        BY <3>4, ContentsKept, Zenon
    <2>2. Keeps(ObjsOf(mine[g]), slice, cells, slice', cells')
      BY <2>1, Zenon DEF Keeps
    <2>3. ExactIn(mine[g], slice, cells)
      BY <1>2, Zenon DEF AllExact
    <2> QED
      BY <2>2, <2>3, ExactKept, Zenon
  <1>3. ASSUME NEW g \in Handlers, Safe(g)
        PROVE  ExactIn(mine'[g], slice', cells')
    <2>1. CASE g # h
      <3>1. mine'[g] = mine[g]
        BY <2>1, Zenon DEF Gains
      <3> QED
        BY <1>2, <1>3, <3>1, Zenon
    <2>2. CASE g = h
      <3>1. PICK e \in Metrics : /\ e.obj = o /\ e.want = Sorted(Series(h).tags)
                                 /\ mine' = [mine EXCEPT ![h] = Append(mine[h], e)]
        BY CollectedMetric, Zenon
      <3>2. mine \in [Handlers -> Seq(Metrics)] /\ mine[h] \in Seq(Metrics)
        BY Zenon DEF Shape
      <3>3. mine'[h] = Append(mine[h], e)
        BY <3>1, <3>2, Zenon
      <3>4. slice'[o] = new
        BY SlicesNow, Zenon
      <3>5. Contents(slice'[e.obj], cells') = e.want
        BY <1>3, <2>2, <3>1, <3>4, Zenon
      <3>6. ExactIn(mine[h], slice', cells')
        BY <1>2, <1>3, <2>2, Zenon
      <3>7. ExactIn(Append(mine[h], e), slice', cells')
        BY <3>2, <3>5, <3>6, ExactAppended, Zenon
      <3> QED
        BY <2>2, <3>3, <3>7, Zenon
    <2> QED
      BY <2>1, <2>2, Zenon
  <1>4. \A g \in Handlers : Safe(g)' => Safe(g)
    BY Zenon DEF Safe
  <1> QED
    BY <1>3, <1>4, Zenon DEF AllExact

\* What others build next is not affected.
LEMMA BuildLatest ==
  ASSUME PoolInv, NEW h \in Handlers, NEW o \in Objects, NEW new, Gains(h, o), SliceSet(o, new),
         UNCHANGED <<hpc, req>>, NEW g \in Handlers, g # h, tagSet'[g] = tagSet[g],
         hpc[g] = "build", req[g].kind # "opentsdb", at'[g].n > 1
  PROVE  HasTags(mine'[g], slice', tagSet'[g], Series(g)'.tags)
  <1> USE DEF PoolInv
  <1>1. mine'[g] = mine[g] /\ at'[g] = at[g] /\ req'[g] = req[g]
    BY Zenon DEF Gains
  <1>2. Series(g)' = Series(g)
    BY <1>1, Zenon DEF Series
  <1>3. PICK i \in DOMAIN mine[g] : slice[mine[g][i].obj] = tagSet[g] /\ mine[g][i].want = Sorted(Series(g).tags)
    BY <1>1, Zenon DEF Latest, HasTags
  <1>4. mine[g][i].obj \in Objs(g)
    BY <1>3, Zenon DEF Objs, ObjsOf
  <1>5. mine[g][i].obj \in Owned
    BY <1>4, OwnedIs, Zenon
  <1>6. slice'[mine[g][i].obj] = slice[mine[g][i].obj]
    <2>1. \A p \in Live : p # o => slice'[p] = slice[p]
      BY SlicesNow, Zenon
    <2>2. mine[g][i].obj \in Live /\ mine[g][i].obj # o
      BY <1>5, Zenon DEF Live, Gains
    <2> QED
      BY <2>1, <2>2, Zenon
  <1> QED
    BY <1>1, <1>2, <1>3, <1>6, Zenon DEF HasTags

\* An array that nothing refers to.
LEMMA FreshApart ==
  ASSUME NEW a, FreshArray(a)
  PROVE  \A p \in Live : slice[p].arr # a
  BY Zenon DEF FreshArray, ArraysOf, Live

\* What is still to be sent has no array of the pool.
LEMMA PoolApart ==
  ASSUME PoolInv, NEW g \in Handlers, Safe(g), NEW p \in Objs(g), NEW q \in pool
  PROVE  ~ Joint(slice[q], slice[p])
  <1> USE DEF PoolInv
  <1>1. q \in Live /\ p \in Live /\ p # q /\ q \notin Objs(g)
    BY OwnedIs, Zenon DEF Live, Apart
  <1>2. CASE req[g].kind # "opentsdb"
    BY <1>1, <1>2, Zenon DEF Safe, Sharing, SharedApart
  <1>3. CASE req[g].kind = "opentsdb"
    <2>1. hpc[g] # "idle"
      BY DEF Safe
    <2>2. Single(p) /\ ~ tainted
      BY <1>3, <2>1, Zenon DEF Safe, Single
    <2> QED
      BY <1>1, <2>2, Zenon DEF SingleApart
  <1> QED
    BY <1>2, <1>3, Zenon

-----------------------------------------------------------------------------
(* OpenTSDBWrite *)

LEMMA TagsOfTyped ==
  ASSUME PoolInv, NEW o \in Objects
  PROVE  TagsOf(o) \in Slices /\ FitsIn(TagsOf(o), cells) /\ (o \in pool => o \in Live /\ TagsOf(o) = slice[o])
  <1> USE DEF PoolInv
  <1>1. CASE o \in pool
    <2>1. TagsOf(o) = slice[o] /\ o \in Live
      BY <1>1, Zenon DEF TagsOf, Live
    <2>2. slice[o] \in Slices
      BY Zenon DEF Shape
    <2>3. FitsIn(slice[o], cells)
      BY <2>1, Zenon DEF Within
    <2> QED
      BY <2>1, <2>2, <2>3, Zenon
  <1>2. CASE o \notin pool
    <2>1. TagsOf(o) = Nil
      BY <1>2, Zenon DEF TagsOf
    <2>2. Nil \in Slices /\ Nil.arr = NoArray /\ Nil.len = 0
      BY DEF Nil, Slices
    <2> QED
      BY <1>2, <2>1, <2>2, Zenon DEF FitsIn
  <1> QED
    BY <1>1, <1>2, Zenon

\* A new array, that of a pooled object, or none.
LEMMA WhereOpenTSDB ==
  ASSUME PoolInv, NEW o \in Objects, NEW tags \in Seq(Nat), NEW a \in Arrays \cup {NoArray},
         AppendTags(TagsOf(o), tags, [arr |-> a, len |-> TagsOf(o).len + Len(tags)])
  PROVE  /\ Appended(TagsOf(o), tags, a)
         /\ FreshArray(a) \/ a = NoArray \/ (o \in pool /\ slice[o].arr = a)
         /\ TagsOf(o).arr = NoArray \/ (o \in pool /\ TagsOf(o).arr = slice[o].arr)
  <1> USE DEF PoolInv
  <1>1. FreshArray(a) => a # NoArray
    BY MetricPoolAssumption, Zenon DEF FreshArray
  <1>2. TagsOf(o).arr = NoArray \/ (o \in pool /\ TagsOf(o) = slice[o])
    <2>1. Nil.arr = NoArray
      BY DEF Nil
    <2> QED
      BY <2>1, Zenon DEF TagsOf
  <1>3. FreshArray(a) => a # TagsOf(o).arr
    BY <1>1, <1>2, FreshApart, TagsOfTyped, Zenon
  <1>4. Heap
    BY Zenon DEF Shape
  <1>5. Appended(TagsOf(o), tags, a)
    BY <1>3, <1>4, TagsOfTyped, AppendDoes, Zenon
  <1> QED
    BY <1>1, <1>2, <1>5, Zenon DEF Appended

LEMMA OpenTSDBKeeps ==
  ASSUME PoolInv, NEW h \in Handlers, OpenTSDBBuild(h)
  PROVE  PoolInv'
  <1> USE DEF PoolInv
  <1>1. /\ hpc[h] = "build" /\ req[h].kind = "opentsdb" /\ at[h].s <= Len(req[h].series)
        /\ UNCHANGED <<served, hpc, req, tagSet, tainted>>
    BY Zenon DEF OpenTSDBBuild, Building
  <1> DEFINE tags == Series(h).tags
             New(o, a) == [arr |-> a, len |-> TagsOf(o).len + Len(tags)]
  <1>2. PICK o \in Objects, a \in Arrays \cup {NoArray} :
               /\ Get(o)
               /\ AppendTags(TagsOf(o), tags, New(o, a))
               /\ slice' = [slice EXCEPT ![o] = New(o, a)]
               /\ Collect(h, o)
    BY Zenon DEF OpenTSDBBuild
  <1>3. tags \in Seq(Nat)
    BY <1>1, SeriesTyped, Zenon
  <1> HIDE DEF tags
  <1>4. /\ Appended(TagsOf(o), tags, a)
        /\ FreshArray(a) \/ a = NoArray \/ (o \in pool /\ slice[o].arr = a)
        /\ TagsOf(o).arr = NoArray \/ (o \in pool /\ TagsOf(o).arr = slice[o].arr)
    BY <1>2, <1>3, WhereOpenTSDB, Zenon
  <1> DEFINE new == New(o, a)
  <1>5. new.arr = a /\ new.len = TagsOf(o).len + Len(tags) /\ new \in Slices
    <2>1. TagsOf(o) \in Slices
      BY TagsOfTyped, Zenon
    <2> QED
      BY <1>3, <2>1 DEF Slices
  <1>6. slice' = [slice EXCEPT ![o] = new]
    BY <1>2, Zenon
  <1> HIDE DEF new, New
  <1>7. Gains(h, o) /\ Apart'
    BY <1>1, <1>2, BuildGains, Zenon
  <1>8. \A p \in Live : slice[p].arr # NoArray => slice[p].arr \in Arrays
    BY LiveTyped, Zenon
  <1>9. SliceSet(o, new)
    <2>1. \A p \in Live : slice[p].arr # NoArray => Len(cells'[slice[p].arr]) = Len(cells[slice[p].arr])
      <3> SUFFICES ASSUME NEW p \in Live, slice[p].arr # NoArray
                   PROVE  Len(cells'[slice[p].arr]) = Len(cells[slice[p].arr])
        BY Zenon
      <3>1. slice[p].arr # a \/ a = TagsOf(o).arr
        BY <1>4, FreshApart, TagsOfTyped, Zenon
      <3> QED
        BY <1>4, <1>8, <3>1, Zenon DEF Appended
    <2>2. FitsIn(new, cells')
      BY <1>4, <1>5, Zenon DEF Appended, FitsIn
    <2> QED
      BY <1>4, <1>5, <1>6, <2>1, <2>2, Zenon DEF SliceSet, Appended
  <1>10. slice'[o] = new /\ \A p \in Live : p # o => slice'[p] = slice[p]
    BY <1>9, SlicesNow, Zenon
  <1>11. Shape' /\ Within'
    <2>1. tagSet' \in [Handlers -> Slices]
      BY <1>1, Zenon DEF Shape
    <2> QED
      BY <1>1, <1>7, <1>9, <2>1, BuildShape, BuildWithin, Zenon
  <1>12. ASSUME NEW g \in Handlers, Safe(g), NEW p \in Objs(g)
         PROVE  p \in Live /\ p # o /\ (slice[p].arr # NoArray => slice[p].arr # a /\ slice[p].arr # TagsOf(o).arr)
    <2>1. p \in Live /\ p # o
      BY <1>7, OwnedIs, Zenon DEF Live, Gains
    <2>2. o \in pool => ~ Joint(slice[o], slice[p])
      BY <1>12, PoolApart, Zenon
    <2>3. FreshArray(a) => slice[p].arr # a
      BY <2>1, FreshApart, Zenon
    <2> QED
      BY <1>4, <2>1, <2>2, <2>3, Zenon DEF Joint
  <1>13. AllExact'
    <2>1. Untouched
      <3> SUFFICES ASSUME NEW g \in Handlers, Safe(g), NEW p \in Objs(g), slice[p].arr # NoArray
                   PROVE  cells'[slice[p].arr] = cells[slice[p].arr]
        BY Zenon DEF Untouched, Stays
      <3>1. slice[p].arr \in Arrays /\ slice[p].arr # a /\ slice[p].arr # TagsOf(o).arr
        BY <1>8, <1>12, Zenon
      <3> QED
        BY <1>4, <3>1, Zenon DEF Appended
    <2>2. ASSUME Safe(h)
          PROVE  Contents(new, cells') = Sorted(Series(h).tags)
      <3>1. ~ tainted
        BY <1>1, <2>2, Zenon DEF Safe
      <3>2. TagsOf(o).len = 0
        <4>1. CASE o \in pool
          <5>1. o \in Live /\ TagsOf(o) = slice[o]
            BY <4>1, TagsOfTyped, Zenon
          <5> QED
            BY <3>1, <4>1, <5>1, Zenon DEF SingleApart, Single
        <4>2. CASE o \notin pool
          BY <4>2 DEF TagsOf, Nil
        <4> QED
          BY <4>1, <4>2, Zenon
      <3>3. new.len = Len(tags)
        BY <1>3, <1>5, <3>2
      <3>4. [i \in 1 .. Len(tags) |-> cells'[a][i]] = Sorted(tags)
        BY <1>4, <3>2, Zenon DEF Appended
      <3> QED
        BY <1>5, <3>3, <3>4, Zenon DEF Contents, tags
    <2> QED
      BY <1>1, <1>2, <1>7, <1>9, <2>1, <2>2, BuildExact, Zenon
  <1>14. Latest'
    <2> SUFFICES ASSUME NEW g \in Handlers, hpc'[g] = "build", req'[g].kind # "opentsdb", at'[g].n > 1
                 PROVE  HasTags(mine'[g], slice', tagSet'[g], Series(g)'.tags)
      BY Zenon DEF Latest
    <2>1. g # h /\ hpc[g] = "build" /\ req[g].kind # "opentsdb" /\ tagSet'[g] = tagSet[g]
      BY <1>1, Zenon
    <2> QED
      BY <1>1, <1>7, <1>9, <2>1, BuildLatest, Zenon
  <1>15. SharedApart'
    <2> SUFFICES ASSUME NEW g \in Handlers, Sharing(g)', NEW x \in Objs(g)', NEW p \in Live',
                        Joint(slice'[p], slice'[x])
                 PROVE  p \in Objs(g)'
      BY Zenon DEF SharedApart
    <2>1. Sharing(g) /\ g # h /\ Safe(g)
      BY <1>1, Zenon DEF Sharing, Safe
    <2>2. Objs(g)' = Objs(g)
      BY <1>7, <2>1, Zenon DEF Gains
    <2>3. x \in Live /\ x # o /\ (slice[x].arr # NoArray => slice[x].arr # a)
      BY <1>12, <2>1, <2>2, Zenon
    <2>4. slice'[x] = slice[x]
      BY <1>10, <2>3, Zenon
    <2>5. p # o
      BY <1>5, <1>10, <2>3, <2>4, Zenon DEF Joint
    <2>6. p \in Live /\ slice'[p] = slice[p]
      BY <1>7, <1>10, <2>5, Zenon DEF Gains
    <2>7. Joint(slice[p], slice[x])
      BY <2>4, <2>6, Zenon
    <2> QED
      BY <2>1, <2>2, <2>6, <2>7, Zenon DEF SharedApart
  <1>16. SingleApart'
    <2> SUFFICES ASSUME ~ tainted', NEW x \in Live', Single(x)'
                 PROVE  /\ \A p \in Live' : Joint(slice'[p], slice'[x]) => p = x
                        /\ x \in pool' => slice'[x].len = 0
      BY Zenon DEF SingleApart
    <2>1. ~ tainted
      BY <1>1, Zenon
    <2>2. ASSUME NEW y \in Live, y # o, slice[y].arr # NoArray
          PROVE  slice[y].arr # a
      <3>1. CASE FreshArray(a) \/ a = NoArray
        BY <2>2, <3>1, FreshApart, Zenon
      <3>2. CASE o \in pool /\ slice[o].arr = a
        BY <2>1, <2>2, <3>2, TagsOfTyped, Zenon DEF SingleApart, Single, Joint
      <3> QED
        BY <1>4, <3>1, <3>2, Zenon
    <2>3. \A y \in Live' : y # o => y \in Live /\ slice'[y] = slice[y]
      BY <1>7, <1>10, Zenon DEF Gains
    <2>4. slice'[o].arr = a
      BY <1>5, <1>10, Zenon
    <2>5. CASE x = o
      <3>1. x \notin pool'
        BY <1>7, <2>5, Zenon DEF Gains
      <3> QED
        BY <2>2, <2>3, <2>4, <2>5, <3>1, Zenon DEF Joint
    <2>6. CASE x # o
      <3>1. x \in Live /\ slice'[x] = slice[x]
        BY <2>3, <2>6, Zenon
      <3>2. Single(x)
        <4>1. x \in pool' => x \in pool
          BY <1>7, Zenon DEF Gains
        <4>2. \A g \in Handlers : x \in Objs(g)' => x \in Objs(g)
          BY <1>7, <2>6, Zenon DEF Gains
        <4> QED
          BY <1>1, <4>1, <4>2, Zenon DEF Single
      <3>3. x \in pool' => slice'[x].len = 0
        BY <1>7, <2>1, <3>1, <3>2, Zenon DEF SingleApart, Gains
      <3>4. ASSUME NEW p \in Live', Joint(slice'[p], slice'[x])
            PROVE  p = x
        <4>1. p # o
          BY <2>2, <2>4, <2>6, <3>1, <3>4, Zenon DEF Joint
        <4>2. p \in Live /\ Joint(slice[p], slice[x])
          BY <2>3, <3>1, <3>4, <4>1, Zenon
        <4> QED
          BY <2>1, <3>1, <3>2, <4>2, Zenon DEF SingleApart
      <3> QED
        BY <3>3, <3>4, Zenon
    <2> QED
      BY <2>5, <2>6, Zenon
  <1> QED
    BY <1>7, <1>11, <1>13, <1>14, <1>15, <1>16, Zenon

-----------------------------------------------------------------------------
(* PrometheusMTWrite, DataDogSeries and DataDogCheck *)

\* The tags of a sample: in a new array, or those of a sample of the series;
\* none need no array.
SharesTags(h, new) ==
  /\ Heap' /\ new \in Slices /\ FitsIn(new, cells')
  /\ \A p \in Live : Stays(slice[p].arr)
  /\ \A p \in Live : Joint(slice[p], new) => p \in Objs(h)
  /\ Contents(new, cells') = Sorted(Series(h).tags)

LEMMA NewTags ==
  ASSUME PoolInv, NEW h \in Handlers, NEW tags \in Seq(Nat), tags = Series(h).tags,
         NEW a \in Arrays \cup {NoArray}, NEW new, new = [arr |-> a, len |-> Len(tags)], AppendTags(Nil, tags, new)
  PROVE  SharesTags(h, new)
  <1> USE DEF PoolInv
  <1>1. Nil \in Slices /\ Nil.arr = NoArray /\ Nil.len = 0 /\ Nil.len + Len(tags) = Len(tags)
    BY DEF Nil, Slices
  <1>2. new.arr = a /\ new.len = Len(tags) /\ new \in Slices
    BY DEF Slices
  <1>3. FitsIn(Nil, cells) /\ Heap
    BY <1>1, Zenon DEF FitsIn, Shape
  <1>4. FreshArray(a) => a # Nil.arr
    BY <1>1, MetricPoolAssumption, Zenon DEF FreshArray
  <1>5. AppendTags(Nil, tags, [arr |-> a, len |-> Nil.len + Len(tags)])
    BY <1>1, Zenon
  <1>6. Appended(Nil, tags, a)
    BY <1>1, <1>3, <1>4, <1>5, AppendDoes, Zenon
  <1>7. a = NoArray \/ FreshArray(a)
    BY <1>1, <1>6, Zenon DEF Appended
  <1>8. ASSUME NEW p \in Live, slice[p].arr # NoArray
        PROVE  slice[p].arr # a /\ slice[p].arr # Nil.arr /\ slice[p].arr \in Arrays
    BY <1>1, <1>7, <1>8, FreshApart, LiveTyped, Zenon
  <1>9. \A p \in Live : Stays(slice[p].arr)
    BY <1>6, <1>8, Zenon DEF Appended, Stays
  <1>10. FitsIn(new, cells')
    <2>1. IF a = NoArray THEN Len(tags) = 0 ELSE Len(tags) <= Len(cells'[a])
      BY <1>1, <1>6, Zenon DEF Appended
    <2> QED
      BY <1>2, <2>1, Zenon DEF FitsIn
  <1>11. Contents(new, cells') = Sorted(tags)
    <2>1. [i \in 1 .. Len(tags) |-> cells'[a][i]] = Sorted(tags)
      BY <1>1, <1>6, Zenon DEF Appended
    <2> QED
      BY <1>2, <2>1, Zenon DEF Contents
  <1>12. Heap'
    BY <1>6, Zenon DEF Appended
  <1> QED
    BY <1>2, <1>8, <1>9, <1>10, <1>11, <1>12, Zenon DEF SharesTags, Joint

LEMMA SameTags ==
  ASSUME PoolInv, NEW h \in Handlers, hpc[h] = "build", req[h].kind # "opentsdb", at[h].n > 1,
         NEW new, new = tagSet[h], UNCHANGED cells
  PROVE  SharesTags(h, new)
  <1> USE DEF PoolInv
  <1>1. PICK i \in DOMAIN mine[h] : slice[mine[h][i].obj] = tagSet[h] /\ mine[h][i].want = Sorted(Series(h).tags)
    BY Zenon DEF Latest, HasTags
  <1> DEFINE q == mine[h][i].obj
  <1>2. q \in Objs(h)
    BY <1>1, Zenon DEF Objs, ObjsOf
  <1>3. q \in Live
    BY <1>2, OwnedIs, Zenon DEF Live
  <1>4. Sharing(h) /\ Safe(h)
    BY Zenon DEF Sharing, Safe
  <1>5. Contents(slice[q], cells) = Sorted(Series(h).tags)
    BY <1>1, <1>4, Zenon DEF AllExact, ExactIn
  <1>6. new = slice[q] /\ new \in Slices
    BY <1>1, Zenon DEF Shape
  <1> HIDE DEF q
  <1>7. FitsIn(new, cells)
    BY <1>3, <1>6, Zenon DEF Within
  <1>8. \A p \in Live : Joint(slice[p], new) => p \in Objs(h)
    BY <1>2, <1>4, <1>6, Zenon DEF SharedApart
  <1>9. Heap'
    BY Zenon DEF Shape, Heap
  <1> QED
    BY <1>5, <1>6, <1>7, <1>8, <1>9, Zenon DEF SharesTags, Stays

LEMMA ShareKeeps ==
  ASSUME PoolInv, NEW h \in Handlers, hpc[h] = "build", req[h].kind # "opentsdb",
         at[h].s <= Len(req[h].series), ShareTags(h)
  PROVE  PoolInv'
  <1> USE DEF PoolInv
  <1>1. UNCHANGED <<served, hpc, req, tainted>>
    BY Zenon DEF ShareTags
  <1> DEFINE tags == Series(h).tags
             New(a) == [arr |-> a, len |-> Len(tags)]
  <1>2. PICK o \in Objects, a \in Arrays \cup {NoArray} :
               /\ Get(o)
               /\ \/ at[h].n = 1 /\ CreateTagSet(h, New(a))
                  \/ at[h].n > 1 /\ New(a) = tagSet[h] /\ UNCHANGED cells
               /\ tagSet' = [tagSet EXCEPT ![h] = New(a)]
               /\ slice' = [slice EXCEPT ![o] = New(a)]
               /\ Collect(h, o)
    BY Zenon DEF ShareTags
  <1>3. tags \in Seq(Nat)
    BY SeriesTyped, Zenon
  <1> DEFINE new == New(a)
  <1>4. SharesTags(h, new)
    <2>1. CASE at[h].n = 1 /\ CreateTagSet(h, New(a))
      <3>1. AppendTags(Nil, tags, new)
        BY <2>1, Zenon DEF CreateTagSet
      <3>2. new = [arr |-> a, len |-> Len(tags)] /\ tags = Series(h).tags
        OBVIOUS
      <3> HIDE DEF new, New, tags
      <3> QED
        BY <1>3, <3>1, <3>2, NewTags, Zenon
    <2>2. CASE at[h].n > 1 /\ New(a) = tagSet[h] /\ UNCHANGED cells
      BY <2>2, SameTags, Zenon
    <2> QED
      BY <1>2, <2>1, <2>2, Zenon
  <1>5. slice' = [slice EXCEPT ![o] = new] /\ tagSet' = [tagSet EXCEPT ![h] = new]
    BY <1>2, Zenon
  <1> HIDE DEF new, New, tags
  <1>6. Gains(h, o) /\ Apart'
    BY <1>2, BuildGains, Zenon
  <1>7. SliceSet(o, new)
    BY <1>4, <1>5, Zenon DEF SliceSet, SharesTags, Stays
  <1>8. slice'[o] = new /\ \A p \in Live : p # o => slice'[p] = slice[p]
    BY <1>7, SlicesNow, Zenon
  <1>9. tagSet'[h] = new /\ tagSet' \in [Handlers -> Slices] /\ \A g \in Handlers : g # h => tagSet'[g] = tagSet[g]
    BY <1>4, <1>5, Zenon DEF Shape, SharesTags
  <1>10. Shape' /\ Within'
    BY <1>1, <1>6, <1>7, <1>9, BuildShape, BuildWithin, Zenon
  <1>11. AllExact'
    <2>1. Untouched
      BY <1>4, OwnedIs, Zenon DEF Untouched, SharesTags, Live
    <2>2. Contents(new, cells') = Sorted(Series(h).tags)
      BY <1>4, Zenon DEF SharesTags
    <2> QED
      BY <1>1, <1>2, <1>6, <1>7, <2>1, <2>2, BuildExact, Zenon
  <1>12. Latest'
    <2> SUFFICES ASSUME NEW g \in Handlers, hpc'[g] = "build", req'[g].kind # "opentsdb", at'[g].n > 1
                 PROVE  HasTags(mine'[g], slice', tagSet'[g], Series(g)'.tags)
      BY Zenon DEF Latest
    <2>1. CASE g # h
      <3>1. hpc[g] = "build" /\ req[g].kind # "opentsdb" /\ tagSet'[g] = tagSet[g]
        BY <1>1, <1>9, <2>1, Zenon
      <3> QED
        BY <1>1, <1>6, <1>7, <2>1, <3>1, BuildLatest, Zenon
    <2>2. CASE g = h
      <3>1. PICK e \in Metrics : /\ e.obj = o /\ e.want = Sorted(Series(h).tags)
                                 /\ mine' = [mine EXCEPT ![h] = Append(mine[h], e)]
        BY <1>2, CollectedMetric, Zenon
      <3>2. mine \in [Handlers -> Seq(Metrics)] /\ mine[h] \in Seq(Metrics)
        BY Zenon DEF Shape
      <3>3. mine'[h] = Append(mine[h], e)
        BY <3>1, <3>2, Zenon
      <3>4. \E i \in DOMAIN Append(mine[h], e) : Append(mine[h], e)[i] = e
        <4>1. Len(mine[h]) + 1 \in DOMAIN Append(mine[h], e) /\ Append(mine[h], e)[Len(mine[h]) + 1] = e
          BY <3>2
        <4> QED
          BY <4>1, Zenon
      <3>5. at'[h].s = at[h].s
        BY <1>2, <2>2, CollectedPlace, Zenon
      <3>6. Series(h)' = Series(h)
        BY <1>1, <3>5, Zenon DEF Series
      <3>7. PICK i \in DOMAIN mine'[h] : mine'[h][i] = e
        BY <3>3, <3>4, Zenon
      <3>8. slice'[mine'[h][i].obj] = tagSet'[h] /\ mine'[h][i].want = Sorted(Series(h)'.tags)
        BY <1>8, <1>9, <3>1, <3>6, <3>7, Zenon
      <3> QED
        BY <2>2, <3>8, Zenon DEF HasTags
    <2> QED
      BY <2>1, <2>2, Zenon
  <1>13. \A y \in Live' : y # o => y \in Live /\ slice'[y] = slice[y]
    BY <1>6, <1>8, Zenon DEF Gains
  <1>14. o \in Objs(h)'
    BY <1>6, Zenon DEF Gains
  <1>15. \A p \in Live : Joint(slice[p], new) => p \in Objs(h)
    BY <1>4, Zenon DEF SharesTags
  <1>16. SharedApart'
    <2> SUFFICES ASSUME NEW g \in Handlers, Sharing(g)', NEW x \in Objs(g)', NEW p \in Live',
                        Joint(slice'[p], slice'[x])
                 PROVE  p \in Objs(g)'
      BY Zenon DEF SharedApart
    <2>1. Sharing(g)
      BY <1>1, Zenon DEF Sharing
    <2>2. Objs(g) \subseteq Objs(g)' /\ (g # h => Objs(g)' = Objs(g)) /\ Objs(h)' = Objs(h) \cup {o}
      BY <1>6, Zenon DEF Gains
    <2>3. CASE x = o
      <3>1. g = h
        <4>1. x \in Objs(h)'
          BY <1>14, <2>3, Zenon
        <4> QED
          BY <1>6, <4>1, Zenon DEF Apart
      <3>2. CASE p = o
        BY <1>14, <3>1, <3>2, Zenon
      <3>3. CASE p # o
        <4>1. p \in Live /\ Joint(slice[p], new)
          BY <1>8, <1>13, <2>3, <3>3, Zenon
        <4> QED
          BY <1>15, <2>2, <3>1, <4>1, Zenon
      <3> QED
        BY <3>2, <3>3, Zenon
    <2>4. CASE x # o
      <3>1. x \in Objs(g)
        <4>1. CASE g = h
          BY <2>2, <2>4, <4>1, Zenon
        <4>2. CASE g # h
          BY <2>2, <4>2, Zenon
        <4> QED
          BY <4>1, <4>2, Zenon
      <3>2. x \in Live
        BY <3>1, OwnedIs, Zenon DEF Live
      <3>3. slice'[x] = slice[x]
        BY <1>8, <2>4, <3>2, Zenon
      <3>4. CASE p = o
        <4>1. Joint(slice[x], new)
          BY <1>8, <3>3, <3>4, Zenon DEF Joint
        <4>2. g = h
          BY <1>15, <3>1, <3>2, <4>1, Zenon DEF Apart
        <4> QED
          BY <1>14, <3>4, <4>2, Zenon
      <3>5. CASE p # o
        <4>1. p \in Live /\ Joint(slice[p], slice[x])
          BY <1>13, <3>3, <3>5, Zenon
        <4> QED
          BY <2>1, <2>2, <3>1, <4>1, Zenon DEF SharedApart
      <3> QED
        BY <3>4, <3>5, Zenon
    <2> QED
      BY <2>3, <2>4, Zenon
  <1>17. SingleApart'
    <2> SUFFICES ASSUME ~ tainted', NEW x \in Live', Single(x)'
                 PROVE  /\ \A p \in Live' : Joint(slice'[p], slice'[x]) => p = x
                        /\ x \in pool' => slice'[x].len = 0
      BY Zenon DEF SingleApart
    <2>1. ~ tainted
      BY <1>1, Zenon
    <2>2. x # o
      <3>1. o \notin pool'
        BY <1>6, Zenon DEF Gains
      <3>2. \A g \in Handlers : o \in Objs(g)' => g = h
        BY <1>6, <1>14, Zenon DEF Apart
      <3> QED
        BY <1>1, <3>1, <3>2, Zenon DEF Single
    <2>3. x \in Live /\ slice'[x] = slice[x]
      BY <1>13, <2>2, Zenon
    <2>4. x \in pool' => x \in pool
      BY <1>6, Zenon DEF Gains
    <2>5. Single(x)
      <3>1. \A g \in Handlers : x \in Objs(g)' => x \in Objs(g)
        BY <1>6, <2>2, Zenon DEF Gains
      <3> QED
        BY <1>1, <2>4, <3>1, Zenon DEF Single
    <2>6. ~ Joint(slice[x], new)
      <3>1. x \notin Objs(h)
        BY <2>5, Zenon DEF Single, Apart
      <3> QED
        BY <1>15, <2>3, <3>1, Zenon
    <2>7. ASSUME NEW p \in Live', Joint(slice'[p], slice'[x])
          PROVE  p = x
      <3>1. p # o
        BY <1>8, <2>3, <2>6, <2>7, Zenon DEF Joint
      <3>2. p \in Live /\ Joint(slice[p], slice[x])
        BY <1>13, <2>3, <2>7, <3>1, Zenon
      <3> QED
        BY <2>1, <2>3, <2>5, <3>2, Zenon DEF SingleApart
    <2>8. x \in pool' => slice'[x].len = 0
      BY <2>1, <2>3, <2>4, <2>5, Zenon DEF SingleApart
    <2> QED
      BY <2>7, <2>8, Zenon
  <1> QED
    BY <1>6, <1>10, <1>11, <1>12, <1>16, <1>17, Zenon

-----------------------------------------------------------------------------
(* Steps after which there are no new objects, slices or tags *)

\* A handler goes on with what it has, or with nothing.
Goes(g) ==
  /\ mine'[g] = mine[g] /\ at'[g] = at[g] /\ tagSet'[g] = tagSet[g] /\ req'[g] = req[g]
  /\ hpc'[g] = "build" => hpc[g] = "build"
  /\ hpc'[g] \in {"build", "publish"} => hpc[g] \in {"build", "publish"}
  /\ hpc'[g] # "idle" => hpc[g] # "idle"
Bare(g) == mine'[g] = <<>> /\ at'[g] = Start

Shrinks ==
  /\ pool' \subseteq pool /\ tainted' = tainted
  /\ \A g \in Handlers : Goes(g) \/ Bare(g)
  /\ \A p \in Live' : slice'[p] = slice[p] /\ Stays(slice[p].arr)

LEMMA BareObjs ==
  ASSUME NEW g, Bare(g)
  PROVE  Objs(g)' = {} /\ Distinct(mine'[g]) /\ ExactIn(mine'[g], slice', cells') /\ ~ (at'[g].n > 1)
  <1>1. DOMAIN mine'[g] = {}
    BY DEF Bare
  <1>2. at'[g].n = 1
    BY DEF Bare, Start
  <1>3. ~ (at'[g].n > 1)
    BY <1>2
  <1> QED
    BY <1>1, <1>3, Zenon DEF Objs, ObjsOf, Distinct, ExactIn

LEMMA GoesObjs ==
  ASSUME NEW g, Goes(g)
  PROVE  /\ Objs(g)' = Objs(g) /\ Series(g)' = Series(g)
         /\ Sharing(g)' => Sharing(g)
  BY Zenon DEF Goes, Objs, Series, Sharing

LEMMA ShrinkKeeps ==
  ASSUME PoolInv, Shape', Shrinks
  PROVE  PoolInv'
  <1> USE DEF PoolInv
  <1>1. \A g \in Handlers : Goes(g) \/ Bare(g)
    BY Zenon DEF Shrinks
  <1>2. \A g \in Handlers : \A p \in Objs(g)' : p \in Objs(g) /\ Goes(g)
    BY <1>1, BareObjs, GoesObjs, Zenon
  <1>3. \A p \in Live' : p \in Live /\ slice'[p] = slice[p] /\ Stays(slice[p].arr)
    BY <1>2, OwnedIs, Zenon DEF Shrinks, Live
  <1>4. \A g \in Handlers : \A p \in Objs(g)' : p \in Live'
    BY OwnedIs, Zenon DEF Live
  <1>5. Apart'
    <2>1. \A g \in Handlers : \A o \in Objs(g)' : o \notin pool'
      BY <1>2, Zenon DEF Apart, Shrinks
    <2>2. \A f, g \in Handlers : \A o \in Objs(f)' : o \in Objs(g)' => f = g
      BY <1>2, Zenon DEF Apart
    <2>3. ASSUME NEW g \in Handlers
          PROVE  Distinct(mine'[g])
      <3>1. CASE Goes(g)
        BY <3>1, Zenon DEF Goes, Apart
      <3>2. CASE Bare(g)
        BY <3>2, BareObjs, Zenon
      <3> QED
        BY <1>1, <3>1, <3>2, Zenon
    <2> QED
      BY <2>1, <2>2, <2>3, Zenon DEF Apart
  <1>6. Within'
    <2> SUFFICES ASSUME NEW p \in Live'
                 PROVE  FitsIn(slice'[p], cells')
      BY Zenon DEF Within
    <2>1. slice'[p] = slice[p] /\ Stays(slice[p].arr)
      BY <1>3, Zenon
    <2>2. FitsIn(slice[p], cells)
      BY <1>3, Zenon DEF Within
    <2> QED
      BY <2>1, <2>2, ContentsKept, Zenon
  <1>7. SharedApart'
    <2> SUFFICES ASSUME NEW g \in Handlers, Sharing(g)', NEW x \in Objs(g)', NEW p \in Live',
                        Joint(slice'[p], slice'[x])
                 PROVE  p \in Objs(g)'
      BY Zenon DEF SharedApart
    <2>1. x \in Objs(g) /\ Sharing(g) /\ Objs(g)' = Objs(g)
      BY <1>2, GoesObjs, Zenon
    <2>2. p \in Live /\ slice'[p] = slice[p] /\ slice'[x] = slice[x]
      BY <1>3, <1>4, Zenon
    <2>3. Joint(slice[p], slice[x])
      BY <2>2, Zenon
    <2> QED
      BY <2>1, <2>2, <2>3, Zenon DEF SharedApart
  <1>8. SingleApart'
    <2> SUFFICES ASSUME ~ tainted', NEW x \in Live', Single(x)'
                 PROVE  /\ \A p \in Live' : Joint(slice'[p], slice'[x]) => p = x
                        /\ x \in pool' => slice'[x].len = 0
      BY Zenon DEF SingleApart
    <2>1. ~ tainted /\ (x \in pool' => x \in pool)
      BY Zenon DEF Shrinks
    <2>2. Single(x)
      BY <1>2, <2>1, Zenon DEF Single, Goes
    <2>3. x \in Live /\ slice'[x] = slice[x]
      BY <1>3, Zenon
    <2>4. x \in pool' => slice'[x].len = 0
      BY <2>1, <2>2, <2>3, Zenon DEF SingleApart
    <2>5. ASSUME NEW p \in Live', Joint(slice'[p], slice'[x])
          PROVE  p = x
      <3>1. p \in Live /\ Joint(slice[p], slice[x])
        BY <1>3, <2>3, <2>5, Zenon
      <3> QED
        BY <2>1, <2>2, <2>3, <3>1, Zenon DEF SingleApart
    <2> QED
      BY <2>4, <2>5, Zenon
  <1>9. Latest'
    <2> SUFFICES ASSUME NEW g \in Handlers, hpc'[g] = "build", req'[g].kind # "opentsdb", at'[g].n > 1
                 PROVE  HasTags(mine'[g], slice', tagSet'[g], Series(g)'.tags)
      BY Zenon DEF Latest
    <2>1. Goes(g)
      BY <1>1, BareObjs, Zenon
    <2>2. Series(g)' = Series(g) /\ Objs(g)' = Objs(g)
      BY <2>1, GoesObjs, Zenon
    <2>3. HasTags(mine[g], slice, tagSet[g], Series(g).tags)
      BY <2>1, Zenon DEF Goes, Latest
    <2>4. PICK i \in DOMAIN mine[g] : slice[mine[g][i].obj] = tagSet[g] /\ mine[g][i].want = Sorted(Series(g).tags)
      BY <2>3, Zenon DEF HasTags
    <2>5. mine[g][i].obj \in Objs(g)'
      BY <2>2, <2>4, Zenon DEF Objs, ObjsOf
    <2>6. slice'[mine[g][i].obj] = slice[mine[g][i].obj]
      BY <1>3, <1>4, <2>5, Zenon
    <2>7. mine'[g] = mine[g] /\ tagSet'[g] = tagSet[g]
      BY <2>1, Zenon DEF Goes
    <2> QED
      BY <2>2, <2>4, <2>6, <2>7, Zenon DEF HasTags
  <1>10. AllExact'
    <2> SUFFICES ASSUME NEW g \in Handlers, Safe(g)'
                 PROVE  ExactIn(mine'[g], slice', cells')
      BY Zenon DEF AllExact
    <2>1. CASE Bare(g)
      BY <2>1, BareObjs, Zenon
    <2>2. CASE Goes(g)
      <3>1. Safe(g) /\ mine'[g] = mine[g]
        BY <2>2, Zenon DEF Safe, Goes, Shrinks
      <3>2. ASSUME NEW p \in ObjsOf(mine[g])
            PROVE  Contents(slice'[p], cells') = Contents(slice[p], cells)
        <4>1. p \in Objs(g)'
          BY <3>1, Zenon DEF Objs
        <4>2. slice'[p] = slice[p] /\ Stays(slice[p].arr) /\ FitsIn(slice[p], cells)
          BY <1>3, <1>4, <4>1, Zenon DEF Within
        <4> QED
          BY <4>2, ContentsKept, Zenon
      <3>3. Keeps(ObjsOf(mine[g]), slice, cells, slice', cells')
        BY <3>2, Zenon DEF Keeps
      <3>4. ExactIn(mine[g], slice, cells)
        BY <3>1, Zenon DEF AllExact
      <3>5. ExactIn(mine[g], slice', cells')
        BY <3>3, <3>4, ExactKept, Zenon
      <3> QED
        BY <3>1, <3>5, Zenon
    <2> QED
      BY <1>1, <2>1, <2>2, Zenon
  <1> QED
    BY <1>5, <1>6, <1>7, <1>8, <1>9, <1>10, Zenon

\* A collection leaves what the remaining objects and their arrays hold.
LEMMA CollectedTyped ==
  ASSUME Shape, NEW live, NEW H, Collected(live, H)
  PROVE  /\ slice' \in [Objects -> Slices] /\ Heap'
         /\ \A p \in live : p \in Objects => slice'[p] = slice[p] /\ Stays(slice[p].arr)
  <1>1. Nil \in Slices
    BY DEF Nil, Slices
  <1>2. slice \in [Objects -> Slices]
    BY Zenon DEF Shape
  <1>3. slice' = [o \in Objects |-> IF o \in live THEN slice[o] ELSE Nil]
    BY Zenon DEF Collected
  <1>4. slice' \in [Objects -> Slices]
    BY <1>1, <1>2, <1>3, Zenon
  <1>5. cells' = [a \in Arrays |-> IF a \in ArraysOf(live, H) THEN cells[a] ELSE <<>>]
    BY Zenon DEF Collected
  <1>6. Heap'
    <2>1. IsArray(<<>>)
      BY DEF IsArray
    <2>2. \A a \in Arrays : IsArray(cells[a])
      BY Zenon DEF Shape, Heap
    <2> QED
      BY <1>5, <2>1, <2>2, Zenon DEF Heap
  <1>7. ASSUME NEW p \in live, p \in Objects
        PROVE  slice'[p] = slice[p] /\ Stays(slice[p].arr)
    <2>1. slice[p].arr \in ArraysOf(live, H)
      BY <1>7, Zenon DEF ArraysOf
    <2>2. slice[p].arr \in Arrays \cup {NoArray}
      <3>1. slice[p] \in Slices
        BY <1>2, <1>7, Zenon
      <3> QED
        BY <3>1 DEF Slices
    <2> QED
      BY <1>3, <1>5, <1>7, <2>1, <2>2, Zenon DEF Stays
  <1> QED
    BY <1>4, <1>6, <1>7, Zenon

LEMMA ServeKeeps ==
  ASSUME PoolInv, NEW h \in Handlers, NEW r \in Requests, Serve(h, r)
  PROVE  PoolInv'
  <1> USE DEF PoolInv
  <1>1. /\ hpc[h] = "idle" /\ hpc' = [hpc EXCEPT ![h] = "build"] /\ req' = [req EXCEPT ![h] = r]
        /\ UNCHANGED <<pool, slice, cells, at, tagSet, mine, tainted>>
    BY Zenon DEF Serve
  <1>2. served' \in 0 .. MaxServed
    BY MetricPoolAssumption DEF Serve, Shape
  <1>3. "build" \in {"idle", "build", "publish", "put"} /\ "build" # "idle"
    OBVIOUS
  <1>4. hpc'[h] = "build" /\ req'[h] = r /\ \A g \in Handlers : g # h => hpc'[g] = hpc[g] /\ req'[g] = req[g]
    BY <1>1, Zenon DEF Shape
  <1>5. Shape'
    <2>1. hpc' \in [Handlers -> {"idle", "build", "publish", "put"}] /\ req' \in [Handlers -> Requests \cup {NoRequest}]
      BY <1>1, <1>3, Zenon DEF Shape
    <2>2. Heap'
      BY <1>1, Zenon DEF Heap, Shape
    <2>3. \A g \in Handlers : IF hpc'[g] = "idle" THEN mine'[g] = <<>> /\ at'[g] = Start ELSE req'[g] \in Requests
      BY <1>1, <1>3, <1>4, Zenon DEF Shape
    <2> QED
      BY <1>1, <1>2, <2>1, <2>2, <2>3, Zenon DEF Shape
  <1>6. Bare(h)
    BY <1>1, Zenon DEF Shape, Bare
  <1>7. \A g \in Handlers : g # h => Goes(g)
    BY <1>1, <1>4, Zenon DEF Goes
  <1>8. Shrinks
    BY <1>1, <1>6, <1>7, Zenon DEF Shrinks, Stays
  <1> QED
    BY <1>5, <1>8, ShrinkKeeps, Zenon

\* A handler goes from "build" to "publish", or from there to "put".
LEMMA AdvanceKeeps ==
  ASSUME PoolInv, NEW h \in Handlers, Publish(h) \/ Published(h)
  PROVE  PoolInv'
  <1> USE DEF PoolInv
  <1>1. /\ \/ hpc[h] = "build" /\ hpc' = [hpc EXCEPT ![h] = "publish"]
           \/ hpc[h] = "publish" /\ hpc' = [hpc EXCEPT ![h] = "put"]
        /\ UNCHANGED <<served, pool, slice, cells, req, at, tagSet, mine, tainted>>
    BY Zenon DEF Publish, Published
  <1>2. /\ hpc' \in [Handlers -> {"idle", "build", "publish", "put"}]
        /\ \A g \in Handlers : g # h => hpc'[g] = hpc[g]
        /\ hpc[h] \in {"build", "publish"} /\ hpc'[h] \in {"publish", "put"}
    BY <1>1 DEF Shape
  <1>3. hpc[h] # "idle" /\ hpc'[h] # "idle" /\ hpc'[h] # "build"
    BY <1>2
  <1>4. Shape'
    <2>1. Heap'
      BY <1>1, Zenon DEF Heap, Shape
    <2>2. \A g \in Handlers : IF hpc'[g] = "idle" THEN mine'[g] = <<>> /\ at'[g] = Start ELSE req'[g] \in Requests
      BY <1>1, <1>2, <1>3, Zenon DEF Shape
    <2> QED
      BY <1>1, <1>2, <2>1, <2>2, Zenon DEF Shape
  <1>5. \A g \in Handlers : Goes(g)
    BY <1>1, <1>2, <1>3, Zenon DEF Goes
  <1>6. Shrinks
    BY <1>1, <1>5, Zenon DEF Shrinks, Stays
  <1> QED
    BY <1>4, <1>6, ShrinkKeeps, Zenon

LEMMA DoneKeeps ==
  ASSUME PoolInv, NEW h \in Handlers, Done(h), UNCHANGED <<served, pool, tainted>>
  PROVE  PoolInv'
  <1> USE DEF PoolInv
  <1> DEFINE live == pool \cup OwnedBy(Handlers \ {h})
  <1>1. /\ hpc' = [hpc EXCEPT ![h] = "idle"] /\ req' = [req EXCEPT ![h] = NoRequest]
        /\ at' = [at EXCEPT ![h] = Start] /\ tagSet' = [tagSet EXCEPT ![h] = Nil]
        /\ mine' = [mine EXCEPT ![h] = <<>>] /\ Collected(live, Handlers \ {h})
    BY Zenon DEF Done
  <1>2. /\ hpc'[h] = "idle" /\ at'[h] = Start /\ mine'[h] = <<>>
        /\ \A g \in Handlers : g # h => /\ hpc'[g] = hpc[g] /\ req'[g] = req[g] /\ at'[g] = at[g]
                                        /\ tagSet'[g] = tagSet[g] /\ mine'[g] = mine[g]
    BY <1>1, Zenon DEF Shape
  <1>3. Bare(h) /\ \A g \in Handlers : g # h => Goes(g)
    BY <1>2, Zenon DEF Bare, Goes
  <1>4. \A p \in Live' : p \in live
    <2>1. ASSUME NEW p \in Owned'
          PROVE  p \in OwnedBy(Handlers \ {h})
      <3>1. PICK g \in Handlers : p \in Objs(g)'
        BY <2>1, OwnedIs, Zenon
      <3>2. g # h
        BY <1>3, <3>1, BareObjs, Zenon
      <3>3. p \in Objs(g) /\ g \in Handlers \ {h}
        BY <1>3, <3>1, <3>2, GoesObjs, Zenon
      <3> QED
        BY <3>3, Zenon DEF OwnedBy, Objs, ObjsOf
    <2> QED
      BY <2>1, Zenon DEF Live
  <1>5. live \subseteq Live
    <2>1. OwnedBy(Handlers \ {h}) \subseteq Owned
      BY DEF Owned, OwnedBy
    <2> QED
      BY <2>1, Zenon DEF Live
  <1> HIDE DEF live
  <1>6. /\ slice' \in [Objects -> Slices] /\ Heap'
        /\ \A p \in live : p \in Objects => slice'[p] = slice[p] /\ Stays(slice[p].arr)
    BY <1>1, CollectedTyped, Zenon
  <1>7. \A p \in Live' : slice'[p] = slice[p] /\ Stays(slice[p].arr)
    BY <1>4, <1>5, <1>6, LiveTyped, Zenon
  <1>8. Shrinks
    BY <1>3, <1>7, Zenon DEF Shrinks
  <1>9. Shape'
    <2>1. Nil \in Slices /\ Start \in [s : Nat \ {0}, n : Nat \ {0}] /\ <<>> \in Seq(Metrics)
      BY DEF Nil, Slices, Start
    <2>2. "idle" \in {"idle", "build", "publish", "put"}
      OBVIOUS
    <2>3. /\ hpc' \in [Handlers -> {"idle", "build", "publish", "put"}]
          /\ req' \in [Handlers -> Requests \cup {NoRequest}]
          /\ at' \in [Handlers -> [s : Nat \ {0}, n : Nat \ {0}]]
          /\ tagSet' \in [Handlers -> Slices]
          /\ mine' \in [Handlers -> Seq(Metrics)]
      BY <1>1, <2>1, <2>2, Zenon DEF Shape
    <2>4. \A g \in Handlers : IF hpc'[g] = "idle" THEN mine'[g] = <<>> /\ at'[g] = Start ELSE req'[g] \in Requests
      BY <1>2, Zenon DEF Shape
    <2> QED
      BY <1>6, <2>3, <2>4, Zenon DEF Shape
  <1> QED
    BY <1>8, <1>9, ShrinkKeeps, Zenon

LEMMA DropKeeps ==
  ASSUME PoolInv, Drop
  PROVE  PoolInv'
  <1> USE DEF PoolInv
  <1>1. pool' = {} /\ Collected(Owned, Handlers) /\ UNCHANGED <<served, hpc, req, at, tagSet, mine, tainted>>
    BY Zenon DEF Drop, hvars
  <1>2. \A g \in Handlers : Goes(g)
    BY <1>1, Zenon DEF Goes
  <1>3. \A p \in Live' : p \in Owned
    <2>1. \A g \in Handlers : Objs(g)' = Objs(g)
      BY <1>2, GoesObjs, Zenon
    <2> QED
      BY <1>1, <2>1, OwnedIs, Zenon DEF Live
  <1>4. /\ slice' \in [Objects -> Slices] /\ Heap'
        /\ \A p \in Owned : p \in Objects => slice'[p] = slice[p] /\ Stays(slice[p].arr)
    BY <1>1, CollectedTyped, Zenon
  <1>5. Owned \subseteq Live
    BY Zenon DEF Live
  <1>6. \A p \in Live' : slice'[p] = slice[p] /\ Stays(slice[p].arr)
    BY <1>3, <1>4, <1>5, LiveTyped, Zenon
  <1>7. Shrinks
    BY <1>1, <1>2, <1>6, Zenon DEF Shrinks
  <1>8. Shape'
    BY <1>1, <1>4, Zenon DEF Shape
  <1> QED
    BY <1>7, <1>8, ShrinkKeeps, Zenon

-----------------------------------------------------------------------------
(* Putting objects back *)

LEMMA PutKeeps ==
  ASSUME PoolInv, NEW h \in Handlers, NEW kind, NEW s \in Slices, Put(h, kind, s),
         s.arr = slice[Head(mine[h]).obj].arr, s.len <= slice[Head(mine[h]).obj].len,
         kind = "prometheus" \/ (kind = "opentsdb" /\ s.len = 0)
  PROVE  PoolInv'
  <1> USE DEF PoolInv
  <1> DEFINE o == Head(mine[h]).obj
  <1>1. /\ hpc[h] = "put" /\ req[h].kind = kind /\ mine[h] # <<>>
        /\ slice' = [slice EXCEPT ![o] = s] /\ pool' = pool \cup {o}
        /\ tainted' = (tainted \/ kind = "prometheus")
        /\ mine' = [mine EXCEPT ![h] = Tail(mine[h])]
        /\ UNCHANGED <<served, cells, hpc, req, at, tagSet>>
    BY Zenon DEF Put
  <1>2. mine \in [Handlers -> Seq(Metrics)] /\ mine[h] \in Seq(Metrics)
    BY Zenon DEF Shape
  <1>3. /\ Head(mine[h]) \in Metrics /\ Tail(mine[h]) \in Seq(Metrics)
        /\ ObjsOf(mine[h]) = ObjsOf(Tail(mine[h])) \cup {o}
        /\ Distinct(Tail(mine[h])) /\ o \notin ObjsOf(Tail(mine[h]))
    <2>1. Distinct(mine[h])
      BY Zenon DEF Apart
    <2> QED
      BY <1>1, <1>2, <2>1, TailObjs, Zenon
  <1>4. o \in Objects
    BY <1>3 DEF Metrics
  <1>5. s.arr = slice[o].arr /\ s.len <= slice[o].len
    OBVIOUS
  <1> HIDE DEF o
  <1>6. mine'[h] = Tail(mine[h]) /\ \A g \in Handlers : g # h => mine'[g] = mine[g]
    BY <1>1, <1>2, Zenon
  <1>7. Objs(h) = Objs(h)' \cup {o} /\ o \notin Objs(h)' /\ \A g \in Handlers : g # h => Objs(g)' = Objs(g)
    BY <1>3, <1>6, Zenon DEF Objs
  <1>8. o \in Objs(h) /\ \A g \in Handlers : Objs(g)' \subseteq Objs(g) /\ o \notin Objs(g)'
    BY <1>7, Zenon DEF Apart
  <1>9. \A p : p \in Live' <=> p \in Live
    <2>1. \A p \in Owned : p \in Owned' \/ p = o
      <3>1. \A g \in Handlers : \A p \in Objs(g) : p \in Objs(g)' \/ p = o
        BY <1>7, Zenon
      <3> QED
        BY <3>1, OwnedIs, Zenon
    <2>2. o \in Owned /\ \A p \in Owned' : p \in Owned
      BY <1>8, OwnedIs, Zenon
    <2> QED
      BY <1>1, <2>1, <2>2, Zenon DEF Live
  <1>10. slice' \in [Objects -> Slices] /\ slice'[o] = s /\ \A p \in Objects : p # o => slice'[p] = slice[p]
    BY <1>1, <1>4, Zenon DEF Shape
  <1>11. \A p \in Live : slice'[p].arr = slice[p].arr
    BY <1>5, <1>10, LiveTyped, Zenon
  <1>12. hpc[h] # "idle" /\ hpc[h] # "build" /\ hpc[h] \notin {"build", "publish"}
    BY <1>1
  <1>13. Shape'
    <2>1. tainted' \in BOOLEAN
      BY <1>1
    <2>2. mine' \in [Handlers -> Seq(Metrics)]
      BY <1>1, <1>2, <1>3, Zenon
    <2>3. Heap'
      BY <1>1, Zenon DEF Shape, Heap
    <2>4. \A g \in Handlers : IF hpc'[g] = "idle" THEN mine'[g] = <<>> /\ at'[g] = Start ELSE req'[g] \in Requests
      BY <1>1, <1>6, <1>12, Zenon DEF Shape
    <2>5. pool' \subseteq Objects
      BY <1>1, <1>4, Zenon DEF Shape
    <2> QED
      BY <1>1, <1>10, <2>1, <2>2, <2>3, <2>4, <2>5, Zenon DEF Shape
  <1>14. Apart'
    <2>1. ASSUME NEW g \in Handlers, NEW p \in Objs(g)'
          PROVE  p \notin pool'
      <3>1. p \in Objs(g) /\ p # o
        BY <1>8, Zenon
      <3>2. p \notin pool
        BY <3>1, Zenon DEF Apart
      <3> QED
        BY <1>1, <3>1, <3>2, Zenon
    <2>2. \A f, g \in Handlers : \A p \in Objs(f)' : p \in Objs(g)' => f = g
      BY <1>8, Zenon DEF Apart
    <2>3. \A g \in Handlers : Distinct(mine'[g])
      BY <1>3, <1>6, Zenon DEF Apart
    <2> QED
      BY <2>1, <2>2, <2>3, Zenon DEF Apart
  <1>15. Within'
    <2> SUFFICES ASSUME NEW p \in Live
                 PROVE  FitsIn(slice'[p], cells')
      BY <1>9, Zenon DEF Within
    <2>1. FitsIn(slice[p], cells) /\ cells' = cells
      BY <1>1, Zenon DEF Within
    <2>2. CASE p # o
      BY <1>10, <2>1, <2>2, LiveTyped, Zenon
    <2>3. CASE p = o
      <3>1. s.len \in Nat /\ slice[o].len \in Nat /\ slice[o].arr \in Arrays \cup {NoArray}
        <4>1. slice[o] \in Slices
          BY <1>4, Zenon DEF Shape
        <4> QED
          BY <4>1 DEF Slices
      <3>2. CASE slice[o].arr = NoArray
        <4>1. slice[o].len = 0
          BY <2>1, <2>3, <3>2, Zenon DEF FitsIn
        <4>2. s.len = 0
          BY <1>5, <3>1, <4>1
        <4> QED
          BY <1>5, <1>10, <2>3, <3>2, <4>2, Zenon DEF FitsIn
      <3>3. CASE slice[o].arr # NoArray
        <4>1. slice[o].len <= Len(cells[slice[o].arr]) /\ IsArray(cells[slice[o].arr])
          BY <2>1, <2>3, <3>1, <3>3, Zenon DEF FitsIn, Shape, Heap
        <4>2. s.len <= Len(cells[slice[o].arr])
          BY <1>5, <3>1, <4>1 DEF IsArray
        <4> QED
          BY <1>5, <1>10, <2>1, <2>3, <3>3, <4>2, Zenon DEF FitsIn
      <3> QED
        BY <3>2, <3>3, Zenon
    <2> QED
      BY <2>2, <2>3, Zenon
  <1>16. SharedApart'
    <2> SUFFICES ASSUME NEW g \in Handlers, Sharing(g)', NEW x \in Objs(g)', NEW p \in Live',
                        Joint(slice'[p], slice'[x])
                 PROVE  p \in Objs(g)'
      BY Zenon DEF SharedApart
    <2>1. Sharing(g) /\ g # h
      BY <1>1, <1>12, Zenon DEF Sharing
    <2>2. Objs(g)' = Objs(g)
      BY <1>7, <2>1, Zenon
    <2>3. x \in Live /\ p \in Live
      BY <1>9, <2>2, OwnedIs, Zenon DEF Live
    <2>4. Joint(slice[p], slice[x])
      BY <1>11, <2>3, Zenon DEF Joint
    <2> QED
      BY <2>1, <2>2, <2>3, <2>4, Zenon DEF SharedApart
  <1>17. SingleApart'
    <2> SUFFICES ASSUME ~ tainted', NEW x \in Live', Single(x)'
                 PROVE  /\ \A p \in Live' : Joint(slice'[p], slice'[x]) => p = x
                        /\ x \in pool' => slice'[x].len = 0
      BY Zenon DEF SingleApart
    <2>1. ~ tainted /\ kind = "opentsdb" /\ s.len = 0
      BY <1>1, Zenon
    <2>2. x \in Live
      BY <1>9, Zenon
    <2>3. Single(x)
      <3>1. CASE x = o
        BY <1>1, <1>8, <1>12, <2>1, <3>1, Zenon DEF Single
      <3>2. CASE x # o
        BY <1>1, <1>8, <3>2, Zenon DEF Single
      <3> QED
        BY <3>1, <3>2, Zenon
    <2>4. ASSUME NEW p \in Live', Joint(slice'[p], slice'[x])
          PROVE  p = x
      <3>1. p \in Live /\ Joint(slice[p], slice[x])
        BY <1>9, <1>11, <2>2, <2>4, Zenon DEF Joint
      <3> QED
        BY <2>1, <2>2, <2>3, <3>1, Zenon DEF SingleApart
    <2>5. ASSUME x \in pool'
          PROVE  slice'[x].len = 0
      <3>1. CASE x = o
        BY <1>10, <2>1, <3>1, Zenon
      <3>2. CASE x # o
        <4>1. x \in pool /\ slice'[x] = slice[x]
          BY <1>1, <1>10, <2>2, <2>5, <3>2, LiveTyped, Zenon
        <4> QED
          BY <2>1, <2>2, <2>3, <4>1, Zenon DEF SingleApart
      <3> QED
        BY <3>1, <3>2, Zenon
    <2> QED
      BY <2>4, <2>5, Zenon
  <1>18. ASSUME NEW g \in Handlers, g # h, NEW p \in Objs(g)
         PROVE  slice'[p] = slice[p]
    <2>1. p # o
      BY <1>8, <1>18, Zenon DEF Apart
    <2>2. p \in Objects
      BY ObjsTyped, Zenon
    <2> QED
      BY <1>10, <2>1, <2>2, Zenon
  <1>19. Latest'
    <2> SUFFICES ASSUME NEW g \in Handlers, hpc'[g] = "build", req'[g].kind # "opentsdb", at'[g].n > 1
                 PROVE  HasTags(mine'[g], slice', tagSet'[g], Series(g)'.tags)
      BY Zenon DEF Latest
    <2>1. g # h /\ hpc[g] = "build" /\ req[g].kind # "opentsdb" /\ at[g].n > 1
      BY <1>1, <1>12, Zenon
    <2>2. PICK i \in DOMAIN mine[g] : slice[mine[g][i].obj] = tagSet[g] /\ mine[g][i].want = Sorted(Series(g).tags)
      BY <2>1, Zenon DEF Latest, HasTags
    <2>3. mine[g][i].obj \in Objs(g)
      BY <2>2, Zenon DEF Objs, ObjsOf
    <2>4. slice'[mine[g][i].obj] = slice[mine[g][i].obj]
      BY <1>18, <2>1, <2>3, Zenon
    <2>5. mine'[g] = mine[g] /\ tagSet'[g] = tagSet[g] /\ Series(g)' = Series(g)
      BY <1>1, <1>6, <2>1, Zenon DEF Series
    <2> QED
      BY <2>2, <2>4, <2>5, Zenon DEF HasTags
  <1>20. AllExact'
    <2> SUFFICES ASSUME NEW g \in Handlers, Safe(g)'
                 PROVE  ExactIn(mine'[g], slice', cells')
      BY Zenon DEF AllExact
    <2>1. Safe(g) /\ g # h
      BY <1>1, <1>12, Zenon DEF Safe
    <2>2. ASSUME NEW p \in ObjsOf(mine[g])
          PROVE  Contents(slice'[p], cells') = Contents(slice[p], cells)
      <3>1. slice'[p] = slice[p]
        BY <1>18, <2>1, Zenon DEF Objs
      <3> QED
        BY <1>1, <3>1, Zenon
    <2>3. Keeps(ObjsOf(mine[g]), slice, cells, slice', cells')
      BY <2>2, Zenon DEF Keeps
    <2>4. ExactIn(mine[g], slice, cells)
      BY <2>1, Zenon DEF AllExact
    <2>5. ExactIn(mine[g], slice', cells')
      BY <2>3, <2>4, ExactKept, Zenon
    <2> QED
      BY <1>6, <2>1, <2>5, Zenon
  <1> QED
    BY <1>13, <1>14, <1>15, <1>16, <1>17, <1>19, <1>20, Zenon

LEMMA PutBackKeeps ==
  ASSUME PoolInv, NEW h \in Handlers, OpenTSDBPut(h) \/ PrometheusPut(h)
  PROVE  PoolInv'
  <1> DEFINE o == Head(mine[h]).obj
             cut == [slice[o] EXCEPT !.len = 0]
  <1>1. mine[h] # <<>> /\ mine[h] \in Seq(Metrics)
    BY Zenon DEF OpenTSDBPut, PrometheusPut, Put, PoolInv, Shape
  <1>2. o \in Objects
    <2>1. Head(mine[h]) \in Metrics
      BY <1>1, TailObjs, Zenon
    <2> QED
      BY <2>1 DEF Metrics
  <1>3. slice[o] \in Slices
    BY <1>2, Zenon DEF PoolInv, Shape
  <1>4. cut \in Slices /\ cut.arr = slice[o].arr /\ cut.len = 0 /\ cut.len <= slice[o].len /\ slice[o].len <= slice[o].len
    BY <1>3 DEF Slices
  <1>5. CASE OpenTSDBPut(h)
    <2>1. Put(h, "opentsdb", cut)
      BY <1>5, Zenon DEF OpenTSDBPut
    <2> HIDE DEF cut
    <2> QED
      BY <1>4, <2>1, PutKeeps, Zenon
  <1>6. CASE PrometheusPut(h)
    <2>1. Put(h, "prometheus", slice[o])
      BY <1>6, Zenon DEF PrometheusPut
    <2> QED
      BY <1>3, <1>4, <2>1, PutKeeps, Zenon
  <1> QED
    BY <1>5, <1>6, Zenon

-----------------------------------------------------------------------------
(* The theorems *)

LEMMA PoolInit == Init => PoolInv
  <1> SUFFICES ASSUME Init
               PROVE  PoolInv
    OBVIOUS
  <1>1. Nil \in Slices /\ Start \in [s : Nat \ {0}, n : Nat \ {0}] /\ <<>> \in Seq(Metrics) /\ IsArray(<<>>)
    BY DEF Nil, Slices, Start, IsArray
  <1>2. Shape
    <2>1. served \in 0 .. MaxServed /\ "idle" \in {"idle", "build", "publish", "put"}
      BY MetricPoolAssumption DEF Init
    <2>2. Heap
      BY <1>1, Zenon DEF Init, Heap
    <2> QED
      BY <1>1, <2>1, <2>2, Zenon DEF Init, Shape
  <1>3. \A h \in Handlers : mine[h] = <<>> /\ hpc[h] = "idle" /\ DOMAIN mine[h] = {}
    BY DEF Init
  <1>4. \A h \in Handlers : Objs(h) = {} /\ Distinct(mine[h])
    BY <1>3, Zenon DEF Objs, ObjsOf, Distinct
  <1>5. Live = {}
    BY <1>4, OwnedIs, Zenon DEF Live, Init
  <1>6. \A h \in Handlers : hpc[h] \notin {"build", "publish"} /\ hpc[h] # "build"
    BY <1>3
  <1> QED
    BY <1>2, <1>4, <1>5, <1>6, Zenon
       DEF PoolInv, Apart, Within, SharedApart, SingleApart, Latest, AllExact, Sharing, Safe

LEMMA PoolStep == PoolInv /\ [Next]_vars => PoolInv'
  <1> SUFFICES ASSUME PoolInv, [Next]_vars
               PROVE  PoolInv'
    OBVIOUS
  <1>1. ASSUME NEW h \in Handlers, NEW r \in Requests, Serve(h, r)
        PROVE  PoolInv'
    BY <1>1, ServeKeeps, Zenon
  <1>2. ASSUME NEW h \in Handlers, OpenTSDBBuild(h)
        PROVE  PoolInv'
    BY <1>2, OpenTSDBKeeps, Zenon
  <1>3. ASSUME NEW h \in Handlers, PrometheusBuild(h) \/ DataDogSeries(h) \/ DataDogCheck(h)
        PROVE  PoolInv'
    <2>1. "prometheus" # "opentsdb" /\ "series" # "opentsdb" /\ "check" # "opentsdb"
      OBVIOUS
    <2>2. hpc[h] = "build" /\ req[h].kind # "opentsdb" /\ at[h].s <= Len(req[h].series) /\ ShareTags(h)
      BY <1>3, <2>1, Zenon DEF PrometheusBuild, DataDogSeries, DataDogCheck, Building
    <2> QED
      BY <2>2, ShareKeeps, Zenon
  <1>4. ASSUME NEW h \in Handlers, PrometheusRefuse(h) \/ Answer(h)
        PROVE  PoolInv'
    BY <1>4, DoneKeeps, Zenon DEF PrometheusRefuse, Answer
  <1>5. ASSUME NEW h \in Handlers, Publish(h) \/ Published(h)
        PROVE  PoolInv'
    BY <1>5, AdvanceKeeps, Zenon
  <1>6. ASSUME NEW h \in Handlers, OpenTSDBPut(h) \/ PrometheusPut(h)
        PROVE  PoolInv'
    BY <1>6, PutBackKeeps, Zenon
  <1>7. CASE Drop
    BY <1>7, DropKeeps, Zenon
  <1>8. CASE UNCHANGED vars
    <2>1. UNCHANGED <<pool, slice, cells, hpc, req, at, tagSet, mine, served, tainted>>
      BY <1>8, Zenon DEF vars, hvars
    <2>2. Shape' /\ Shrinks
      BY <2>1, Zenon DEF PoolInv, Shape, Heap, Shrinks, Goes, Stays
    <2> QED
      BY <2>2, ShrinkKeeps, Zenon
  <1> QED
    BY <1>1, <1>2, <1>3, <1>4, <1>5, <1>6, <1>7, <1>8, Zenon DEF Next

\* The invariant holds throughout.
LEMMA PoolAlways == Spec => []PoolInv
  <1>1. Init => PoolInv
    BY PoolInit
  <1>2. PoolInv /\ [Next]_vars => PoolInv'
    BY PoolStep
  <1> QED
    BY <1>1, <1>2, PTL DEF Spec

\* The pool has no object a handler still has, and the tags of every object
\* lie within its array.
THEOREM PoolTypes == Spec => []TypeOK
  <1>1. PoolInv => TypeOK
    <2> SUFFICES ASSUME PoolInv
                 PROVE  TypeOK
      OBVIOUS
    <2> USE DEF PoolInv
    <2>1. pool \subseteq Objects \ Owned
      BY OwnedIs, Zenon DEF Shape, Apart
    <2>2. \A o \in Objects : slice[o].arr \in Arrays \cup {NoArray}
      <3> SUFFICES ASSUME NEW o \in Objects
                   PROVE  slice[o].arr \in Arrays \cup {NoArray}
        OBVIOUS
      <3>1. slice[o] \in Slices
        BY Zenon DEF Shape
      <3> QED
        BY <3>1 DEF Slices
    <2>3. \A o \in pool \cup Owned : slice[o].arr # NoArray => slice[o].len <= Len(cells[slice[o].arr])
      BY Zenon DEF Within, Live, FitsIn
    <2> QED
      BY <2>1, <2>2, <2>3, Zenon DEF TypeOK, Shape
  <1> QED
    BY <1>1, PoolAlways, PTL

\* Prometheus and Datadog metrics go out with the tags of their series, also
\* when arrays of earlier requests are appended to.
THEOREM SharedTagsAreExact == Spec => []SharedTagsExact
  <1>1. PoolInv => SharedTagsExact
    BY Zenon DEF PoolInv, SharedTagsExact, Exact, AllExact, Safe, ExactIn
  <1> QED
    BY <1>1, PoolAlways, PTL

\* OpenTSDB metrics go out with the tags of their request, as long as no
\* Prometheus object has gone back to the pool.
THEOREM OpenTSDBTagsAreExact == Spec => []OpenTSDBTagsExact
  <1>1. PoolInv => OpenTSDBTagsExact
    BY Zenon DEF PoolInv, OpenTSDBTagsExact, Exact, AllExact, Safe, ExactIn
  <1> QED
    BY <1>1, PoolAlways, PTL
=============================================================================
