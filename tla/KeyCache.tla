------------------------------ MODULE KeyCache ------------------------------
(***************************************************************************)
(* publish/kafka/keycache: which metric keys have been seen, for all orgs. *)
(*                                                                         *)
(* The publisher asks Touch(key) for every point: "seen" lets it send a    *)
(* short MetricPoint, "not seen" makes it send the full MetricData.  A     *)
(* background goroutine (clear) wipes one shard of every org's cache per   *)
(* tick, and removes the caches it finds empty.                            *)
(*                                                                         *)
(* Every critical section of the code (the map's RWMutex, a shard's Mutex) *)
(* is one atomic step; between two of them any goroutine may run.          *)
(***************************************************************************)
EXTENDS Naturals

CONSTANTS
  Orgs,       \* organisations (MKey.Org)
  SubKeys,    \* the last 15 bytes of a Key
  NumShards,  \* shards of a Cache: 256 in the code
  CacheIds,   \* heap addresses of Cache objects
  NoCache,    \* a nil *Cache, or an absent map entry
  Touchers,   \* goroutines that call Touch (one per Publish in progress)
  NoKey, NoOrg

ASSUME KeyCacheAssumption ==
  /\ NumShards \in Nat \ {0}
  /\ NoCache \notin CacheIds
  /\ NoOrg \notin Orgs

Shards == 0 .. NumShards - 1

\* An MKey; the first byte of the Key selects the shard.
MKeys == [org : Orgs, shard : Shards, sub : SubKeys]

ASSUME NoKeyAssumption == NoKey \notin MKeys

VARIABLES
  caches,    \* KeyCache.caches: the org's Cache, or NoCache
  data,      \* data[c][i]: the SubKeys in shard i of the Cache at address c
  clearIdx,  \* KeyCache.clearIdx: the shard to clear next
  tpc,       \* where each toucher is: "idle", "create" or "mark"
  tkey,      \* the key it touches
  tcache,    \* its local variable cache
  cpc,       \* where clear is: "wait", "clear", "len" or "delete"
  targets,   \* clear's local targets, the ones not yet dealt with
  curOrg,    \* the target clear is dealing with
  scan,      \* Cache.Len's loop index
  empty      \* Cache.Len's sum is still 0

tvars == <<tpc, tkey, tcache>>
cvars == <<clearIdx, cpc, targets, curOrg, scan, empty>>
vars == <<caches, data, tvars, cvars>>

TypeOK ==
  /\ caches \in [Orgs -> CacheIds \cup {NoCache}]
  /\ data \in [CacheIds -> [Shards -> SUBSET SubKeys]]
  /\ clearIdx \in Shards
  /\ tpc \in [Touchers -> {"idle", "create", "mark"}]
  /\ tkey \in [Touchers -> MKeys \cup {NoKey}]
  /\ tcache \in [Touchers -> CacheIds \cup {NoCache}]
  /\ cpc \in {"wait", "clear", "len", "delete"}
  /\ targets \in [Orgs -> CacheIds \cup {NoCache}]
  /\ curOrg \in Orgs \cup {NoOrg}
  /\ scan \in Shards
  /\ empty \in BOOLEAN

Init ==
  /\ caches = [o \in Orgs |-> NoCache]
  /\ data = [c \in CacheIds |-> [i \in Shards |-> {}]]
  /\ clearIdx = 0
  /\ tpc = [t \in Touchers |-> "idle"]
  /\ tkey = [t \in Touchers |-> NoKey]
  /\ tcache = [t \in Touchers |-> NoCache]
  /\ cpc = "wait"
  /\ targets = [o \in Orgs |-> NoCache]
  /\ curOrg = NoOrg
  /\ scan = 0
  /\ empty = TRUE

-----------------------------------------------------------------------------
(* Touch *)

\* The lookup of the org's cache under the read lock.
TouchLookup(t, k) ==
  /\ tpc[t] = "idle"
  /\ tkey' = [tkey EXCEPT ![t] = k]
  /\ tcache' = [tcache EXCEPT ![t] = caches[k.org]]
  /\ tpc' = [tpc EXCEPT ![t] = IF caches[k.org] = NoCache THEN "create" ELSE "mark"]
  /\ UNCHANGED <<caches, data, cvars>>

\* An address no live reference holds: what NewCache may return.
Unreferenced(c) ==
  /\ \A o \in Orgs : caches[o] # c /\ targets[o] # c
  /\ \A t \in Touchers : tcache[t] # c

\* The second lookup, under the write lock, finds a cache that another
\* goroutine has just added.
TouchFound(t) ==
  /\ tpc[t] = "create"
  /\ caches[tkey[t].org] # NoCache
  /\ tcache' = [tcache EXCEPT ![t] = caches[tkey[t].org]]
  /\ tpc' = [tpc EXCEPT ![t] = "mark"]
  /\ UNCHANGED <<caches, data, tkey, cvars>>

\* Mutant: a recycled cache keeps its keys.
TouchCreateStale(t) ==
  /\ tpc[t] = "create"
  /\ caches[tkey[t].org] = NoCache
  /\ \E c \in CacheIds :
       /\ Unreferenced(c)
       /\ caches' = [caches EXCEPT ![tkey[t].org] = c]
       /\ tcache' = [tcache EXCEPT ![t] = c]
  /\ tpc' = [tpc EXCEPT ![t] = "mark"]
  /\ UNCHANGED <<data, tkey, cvars>>

\* The second lookup finds none either: the new cache goes into the map.
TouchCreate(t) ==
  /\ tpc[t] = "create"
  /\ caches[tkey[t].org] = NoCache
  /\ \E c \in CacheIds :
       /\ Unreferenced(c)
       /\ data' = [data EXCEPT ![c] = [i \in Shards |-> {}]]
       /\ caches' = [caches EXCEPT ![tkey[t].org] = c]
       /\ tcache' = [tcache EXCEPT ![t] = c]
  /\ tpc' = [tpc EXCEPT ![t] = "mark"]
  /\ UNCHANGED <<tkey, cvars>>

\* What Touch answers: was the key there before?
Seen(t) == tkey[t].sub \in data[tcache[t]][tkey[t].shard]

\* Shard.Touch: look the key up and add it, under the shard's lock; return.
TouchMark(t) ==
  /\ tpc[t] = "mark"
  /\ data' = [data EXCEPT ![tcache[t]][tkey[t].shard] = @ \cup {tkey[t].sub}]
  /\ tpc' = [tpc EXCEPT ![t] = "idle"]
  /\ tkey' = [tkey EXCEPT ![t] = NoKey]
  /\ tcache' = [tcache EXCEPT ![t] = NoCache]
  /\ UNCHANGED <<caches, cvars>>

-----------------------------------------------------------------------------
(* clear *)

\* A tick: the caches of the map are the targets.
ClearTick ==
  /\ cpc = "wait"
  /\ targets' = caches
  /\ cpc' = "clear"
  /\ UNCHANGED <<caches, data, tvars, clearIdx, curOrg, scan, empty>>

\* Cache.Clear resets the shard and starts to sum up the sizes.
ClearReset(o) ==
  /\ cpc = "clear"
  /\ targets[o] # NoCache
  /\ data' = [data EXCEPT ![targets[o]][clearIdx] = {}]
  /\ curOrg' = o
  /\ cpc' = "len"
  /\ scan' = 0
  /\ empty' = TRUE
  /\ UNCHANGED <<caches, tvars, clearIdx, targets>>

\* Done with the current target.
NextTarget ==
  /\ cpc' = "clear"
  /\ targets' = [targets EXCEPT ![curOrg] = NoCache]
  /\ curOrg' = NoOrg

\* Mutant: the loop stops one shard early.
LastShardEarly(i) == i + 2 >= NumShards

\* Cache.Len's loop ends after shard i.
LastShard(i) == i + 1 = NumShards

\* Cache.Len reads the size of one shard, under that shard's lock only.
ClearLen ==
  /\ cpc = "len"
  /\ empty' = (empty /\ data[targets[curOrg]][scan] = {})
  /\ \/ ~ LastShard(scan) /\ scan' = scan + 1 /\ UNCHANGED <<cpc, targets, curOrg>>
     \/ LastShard(scan) /\ scan' = 0 /\ empty' /\ cpc' = "delete" /\ UNCHANGED <<targets, curOrg>>
     \/ LastShard(scan) /\ scan' = 0 /\ ~ empty' /\ NextTarget
  /\ UNCHANGED <<caches, data, tvars, clearIdx>>

\* The size was 0: the org's entry leaves the map.
ClearDelete ==
  /\ cpc = "delete"
  /\ caches' = [caches EXCEPT ![curOrg] = NoCache]
  /\ NextTarget
  /\ UNCHANGED <<data, tvars, clearIdx, scan, empty>>

\* Mutant: the index wraps before it reaches the last shard.
NextIdxEarly(i) == IF i + 2 >= NumShards THEN 0 ELSE i + 1

\* The shard after shard i.
NextIdx(i) == IF i + 1 = NumShards THEN 0 ELSE i + 1

\* All targets are done: the next tick clears the next shard.
ClearEnd ==
  /\ cpc = "clear"
  /\ \A o \in Orgs : targets[o] = NoCache
  /\ clearIdx' = NextIdx(clearIdx)
  /\ cpc' = "wait"
  /\ UNCHANGED <<caches, data, tvars, targets, curOrg, scan, empty>>

-----------------------------------------------------------------------------

TouchStep(t) == TouchFound(t) \/ TouchCreate(t) \/ TouchMark(t)

ClearStep ==
  ClearTick \/ (\E o \in Orgs : ClearReset(o)) \/ ClearLen \/ ClearDelete \/ ClearEnd

Next ==
  \/ \E t \in Touchers, k \in MKeys : TouchLookup(t, k)
  \/ \E t \in Touchers : TouchStep(t)
  \/ ClearStep

Spec == Init /\ [][Next]_vars

\* A call in progress goes on, and so does the clear goroutine: its ticker
\* never stops.  Nothing obliges anybody to call Touch.
Fairness ==
  /\ \A t \in Touchers : WF_vars(TouchStep(t))
  /\ WF_vars(ClearStep)

-----------------------------------------------------------------------------

\* The caches of two orgs are never the same object, and a toucher marks only
\* a cache that belongs to its key's org: sub keys of different orgs, which
\* may be equal, are never mixed up.
OrgsApart ==
  /\ \A o, p \in Orgs : caches[o] = caches[p] /\ caches[o] # NoCache => o = p
  /\ \A t \in Touchers, o \in Orgs :
       tpc[t] = "mark" /\ caches[o] = tcache[t] => o = tkey[t].org

\* Once the points of an org stop to arrive, its cache is emptied, shard after
\* shard, and leaves the map, whatever other orgs do: clear keeps no memory
\* for orgs that have gone silent.
SilentOrgsLeave ==
  \A o \in Orgs :
    <>[](\A t \in Touchers : tpc[t] # "idle" => tkey[t].org # o) => <>[](caches[o] = NoCache)
=============================================================================
