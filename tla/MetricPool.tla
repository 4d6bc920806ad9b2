----------------------------- MODULE MetricPool -----------------------------
(***************************************************************************)
(* ingest: the HTTP handlers that build MetricData objects from MetricPool *)
(* (OpenTSDB, Prometheus, Datadog), publish them and put them back.        *)
(*                                                                         *)
(* Tags are Go slices: an array and a length.  An append writes into the   *)
(* array's spare cells, which other slices of the same array may share, or *)
(* moves on to an array twice as large.  Tags are numbers, 0 is a cell     *)
(* never written.                                                          *)
(***************************************************************************)
EXTENDS Naturals, Sequences, FiniteSets, TLC

CONSTANTS
  Handlers,   \* goroutines that serve requests
  Requests,   \* [kind, series]: series is a sequence of [tags, samples]
  Objects,    \* heap addresses of MetricData objects: numbers
  Arrays,     \* heap addresses of tag arrays: numbers
  NoArray, NoRequest,
  MaxServed   \* bound on the requests of a behaviour

Kinds == {"opentsdb", "prometheus", "series", "check"}

ASSUME MetricPoolAssumption ==
  /\ Objects \subseteq Nat /\ Arrays \subseteq Nat
  /\ NoArray \notin Arrays
  /\ MaxServed \in Nat
  /\ \A r \in Requests : /\ r.kind \in Kinds
                         /\ r.series \in Seq([tags : Seq(Nat), samples : Nat \ {0}])

VARIABLES
  pool,     \* MetricPool
  slice,    \* slice[o]: the Tags of object o
  cells,    \* cells[a]: the contents of array a
  hpc,      \* handler: "idle", "build", "publish" or "put"
  req,      \* its request
  at,       \* the series, and the sample of it, to build next
  tagSet,   \* its local tagSet
  mine,     \* its buf: objects, with the tags they were built for
  served,   \* number of requests begun
  tainted   \* an object of a Prometheus request has gone back to the pool

hvars == <<hpc, req, at, tagSet, mine>>
vars == <<pool, slice, cells, hvars, served, tainted>>

Nil == [arr |-> NoArray, len |-> 0]
Start == [s |-> 1, n |-> 1]

Init ==
  /\ pool = {}
  /\ slice = [o \in Objects |-> Nil]
  /\ cells = [a \in Arrays |-> <<>>]
  /\ hpc = [h \in Handlers |-> "idle"]
  /\ req = [h \in Handlers |-> NoRequest]
  /\ at = [h \in Handlers |-> Start]
  /\ tagSet = [h \in Handlers |-> Nil]
  /\ mine = [h \in Handlers |-> <<>>]
  /\ served = 0
  /\ tainted = FALSE

-----------------------------------------------------------------------------
(* Slices *)

Contents(s, heap) == [i \in 1 .. s.len |-> heap[s.arr][i]]

OwnedBy(H) == UNION {{mine[h][i].obj : i \in DOMAIN mine[h]} : h \in H}
Owned == OwnedBy(Handlers)

\* The arrays that live objects, and the handlers of H, refer to.
ArraysOf(live, H) == {slice[o].arr : o \in live} \cup {tagSet[h].arr : h \in H}

\* What an allocation returns: an address nothing refers to; which one makes
\* no difference.
FreshObject(o) ==
  LET free == Objects \ (pool \cup Owned) IN o \in free /\ \A p \in free : o <= p
FreshArray(a) ==
  LET free == Arrays \ ArraysOf(pool \cup Owned, Handlers) IN a \in free /\ \A b \in free : a <= b

\* The memory that nothing refers to any more is cleared.
Collected(live, H) ==
  /\ slice' = [o \in Objects |-> IF o \in live THEN slice[o] ELSE Nil]
  /\ cells' = [a \in Arrays |-> IF a \in ArraysOf(live, H) THEN cells[a] ELSE <<>>]

\* The capacity that appending one by one leads to, for at least n cells: a
\* full array is doubled.
CapFor(n) ==
  LET cap[k \in 0 .. n] == IF k <= 1 THEN k ELSE 2 * cap[(k + 1) \div 2] IN cap[n]

Fill(array, from, tags) ==
  [i \in DOMAIN array |-> IF i > from /\ i - from <= Len(tags) THEN tags[i - from] ELSE array[i]]

Sorted(tags) ==
  LET p == CHOOSE p \in Permutations(DOMAIN tags) :
             \A i, j \in DOMAIN tags : i < j => tags[p[i]] <= tags[p[j]]
  IN  [i \in DOMAIN tags |-> tags[p[i]]]

\* SetId sorts the slice in place.
SortPrefix(array, n) ==
  LET prefix == Sorted([i \in 1 .. n |-> array[i]])
  IN  [i \in DOMAIN array |-> IF i <= n THEN prefix[i] ELSE array[i]]

\* The memory after a write to array a, if there is one.
Written(a, array) == IF a = NoArray THEN cells ELSE [cells EXCEPT ![a] = array]

\* Append tags to s; the spare cells of its array are used up first.  newS is
\* the resulting slice, sorted.
AppendTags(s, tags, newS) ==
  LET cap == IF s.arr = NoArray THEN 0 ELSE Len(cells[s.arr])
      n == s.len + Len(tags)
      filled == Fill(cells[s.arr], s.len, tags)
      moved == Fill(Fill([i \in 1 .. CapFor(n) |-> 0], 0, Contents(s, cells)), s.len, tags)
  IN  /\ newS.len = n
      /\ \/ n <= cap /\ newS.arr = s.arr
            /\ cells' = Written(s.arr, SortPrefix(filled, n))
         \/ n > cap /\ FreshArray(newS.arr)
            /\ cells' = [Written(s.arr, filled) EXCEPT ![newS.arr] = SortPrefix(moved, n)]

-----------------------------------------------------------------------------
(* The handlers *)

Serve(h, r) ==
  /\ hpc[h] = "idle"
  /\ served < MaxServed
  /\ served' = served + 1
  /\ hpc' = [hpc EXCEPT ![h] = "build"]
  /\ req' = [req EXCEPT ![h] = r]
  /\ UNCHANGED <<pool, slice, cells, at, tagSet, mine, tainted>>

Building(h, kind) == hpc[h] = "build" /\ req[h].kind = kind /\ at[h].s <= Len(req[h].series)

Series(h) == req[h].series[at[h].s]

\* Mutant: the pool goes on handing out an object it has handed out.
GetShared(o) == (o \in pool \/ FreshObject(o)) /\ UNCHANGED pool

\* MetricPool.Get: an object of the pool, or a new one; sync.Pool decides.
Get(o) == (o \in pool \/ FreshObject(o)) /\ pool' = pool \ {o}

\* What the object still has in its Tags: nothing if it is new.
TagsOf(o) == IF o \in pool THEN slice[o] ELSE Nil

\* The object joins buf, with the tags it should carry.
Collect(h, o) ==
  /\ mine' = [mine EXCEPT ![h] = Append(@, [obj |-> o, want |-> Sorted(Series(h).tags)])]
  /\ at' = [at EXCEPT ![h] = IF @.n = Series(h).samples THEN [s |-> @.s + 1, n |-> 1]
                                                        ELSE [s |-> @.s, n |-> @.n + 1]]

\* OpenTSDBWrite: FormatTags appends to what the object has in its Tags.
OpenTSDBBuild(h) ==
  /\ Building(h, "opentsdb")
  /\ \E o \in Objects, a \in Arrays \cup {NoArray} :
       LET new == [arr |-> a, len |-> TagsOf(o).len + Len(Series(h).tags)] IN
       /\ Get(o)
       /\ AppendTags(TagsOf(o), Series(h).tags, new)
       /\ slice' = [slice EXCEPT ![o] = new]
       /\ Collect(h, o)
  /\ UNCHANGED <<served, hpc, req, tagSet, tainted>>

\* createTagSet, and its like in PrometheusMTWrite: a new slice.
CreateTagSet(h, new) == AppendTags(Nil, Series(h).tags, new)

\* A new tagSet for the first sample of a series, the same for all others.
ShareTags(h) ==
  /\ \E o \in Objects, a \in Arrays \cup {NoArray} :
       LET new == [arr |-> a, len |-> Len(Series(h).tags)] IN
       /\ Get(o)
       /\ \/ at[h].n = 1 /\ CreateTagSet(h, new)
          \/ at[h].n > 1 /\ new = tagSet[h] /\ UNCHANGED cells
       /\ tagSet' = [tagSet EXCEPT ![h] = new]
       /\ slice' = [slice EXCEPT ![o] = new]
       /\ Collect(h, o)
  /\ UNCHANGED <<served, hpc, req, tainted>>

PrometheusBuild(h) == Building(h, "prometheus") /\ ShareTags(h)
DataDogSeries(h) == Building(h, "series") /\ ShareTags(h)
DataDogCheck(h) == Building(h, "check") /\ ShareTags(h)

\* The request is answered; objects that were not put back are garbage.
Done(h) ==
  /\ hpc' = [hpc EXCEPT ![h] = "idle"]
  /\ req' = [req EXCEPT ![h] = NoRequest]
  /\ at' = [at EXCEPT ![h] = Start]
  /\ tagSet' = [tagSet EXCEPT ![h] = Nil]
  /\ mine' = [mine EXCEPT ![h] = <<>>]
  /\ Collected(pool \cup OwnedBy(Handlers \ {h}), Handlers \ {h})

\* A Prometheus series without a name: 400, nothing is published or put back.
PrometheusRefuse(h) ==
  /\ Building(h, "prometheus")
  /\ at[h].n = 1
  /\ Done(h)
  /\ UNCHANGED <<served, pool, tainted>>

Publish(h) ==
  /\ hpc[h] = "build"
  /\ at[h].s > Len(req[h].series)
  /\ hpc' = [hpc EXCEPT ![h] = "publish"]
  /\ UNCHANGED <<served, pool, slice, cells, req, at, tagSet, mine, tainted>>

\* Publish has returned, with an error or without.
Published(h) ==
  /\ hpc[h] = "publish"
  /\ hpc' = [hpc EXCEPT ![h] = "put"]
  /\ UNCHANGED <<served, pool, slice, cells, req, at, tagSet, mine, tainted>>

\* The next object of buf goes back, with s for its Tags.
Put(h, kind, s) ==
  LET o == Head(mine[h]).obj IN
  /\ hpc[h] = "put" /\ req[h].kind = kind /\ mine[h] # <<>>
  /\ slice' = [slice EXCEPT ![o] = s]
  /\ pool' = pool \cup {o}
  /\ tainted' = (tainted \/ kind = "prometheus")
  /\ mine' = [mine EXCEPT ![h] = Tail(@)]
  /\ UNCHANGED <<served, cells, hpc, req, at, tagSet>>

\* Mutant: the tags are not cut off.
OpenTSDBPutFull(h) == Put(h, "opentsdb", slice[Head(mine[h]).obj])

\* OpenTSDBWrite cuts the tags off and keeps their array.
OpenTSDBPut(h) == Put(h, "opentsdb", [slice[Head(mine[h]).obj] EXCEPT !.len = 0])

\* PrometheusMTWrite puts the object back as it is.
PrometheusPut(h) == Put(h, "prometheus", slice[Head(mine[h]).obj])

\* All objects are back.  The Datadog handlers have deferred a loop over the
\* empty buf of their first lines: theirs never come back.
Answer(h) ==
  /\ hpc[h] = "put"
  /\ mine[h] = <<>> \/ req[h].kind \in {"series", "check"}
  /\ Done(h)
  /\ UNCHANGED <<served, pool, tainted>>

\* The garbage collector empties the pool.
Drop ==
  /\ pool' = {}
  /\ Collected(Owned, Handlers)
  /\ UNCHANGED <<served, hvars, tainted>>

-----------------------------------------------------------------------------

Next ==
  \/ \E h \in Handlers : \/ \E r \in Requests : Serve(h, r)
                         \/ OpenTSDBBuild(h) \/ PrometheusBuild(h)
                         \/ DataDogSeries(h) \/ DataDogCheck(h)
                         \/ PrometheusRefuse(h)
                         \/ Publish(h) \/ Published(h)
                         \/ OpenTSDBPut(h) \/ PrometheusPut(h) \/ Answer(h)
  \/ Drop

Spec == Init /\ [][Next]_vars

-----------------------------------------------------------------------------

TypeOK ==
  /\ pool \subseteq Objects \ Owned
  /\ \A o \in Objects : slice[o].arr \in Arrays \cup {NoArray}
  /\ \A o \in pool \cup Owned : slice[o].arr # NoArray => slice[o].len <= Len(cells[slice[o].arr])
  /\ hpc \in [Handlers -> {"idle", "build", "publish", "put"}]
  /\ req \in [Handlers -> Requests \cup {NoRequest}]
  /\ served \in 0 .. MaxServed /\ tainted \in BOOLEAN

\* The metrics h has built and may still have to send carry their own tags.
Exact(h) ==
  hpc[h] \in {"build", "publish"} =>
    \A i \in DOMAIN mine[h] : Contents(slice[mine[h][i].obj], cells) = mine[h][i].want

\* Prometheus and Datadog metrics go out with exactly the tags of their
\* series, though their tagSet arrays are shared by all samples and live on
\* in pooled objects, where OpenTSDB requests append to them.
SharedTagsExact ==
  \A h \in Handlers : req[h] # NoRequest /\ req[h].kind # "opentsdb" => Exact(h)

\* OpenTSDB metrics go out with exactly the tags of their request, though
\* they append to arrays of earlier requests, as long as the pool has got
\* none of the objects of a Prometheus request.
OpenTSDBTagsExact ==
  \A h \in Handlers : ~ tainted /\ req[h] # NoRequest /\ req[h].kind = "opentsdb" => Exact(h)
=============================================================================
