--------------------------- MODULE KeyCacheProofs ---------------------------
(***************************************************************************)
(* Proofs about KeyCache and KeyCacheHistory, for every number of orgs,    *)
(* keys, shards, goroutines and passes, and that KeyCache implements       *)
(* SeenFilter: every step of it is a Touch, a Forget or a stutter of the   *)
(* filter.                                                                 *)
(***************************************************************************)
EXTENDS KeyCacheHistory, KeyCacheRefinement, TLAPS

-----------------------------------------------------------------------------
(* The structure of the heap: who refers to which cache. *)

TouchersOK ==
  \A t \in Touchers :
    /\ tpc[t] # "idle" => tkey[t] \in MKeys
    /\ IF tpc[t] = "mark" THEN tcache[t] \in CacheIds ELSE tcache[t] = NoCache

ClearOK ==
  /\ cpc \in {"len", "delete"} => curOrg \in Orgs /\ targets[curOrg] # NoCache
  /\ cpc \in {"wait", "clear"} => curOrg = NoOrg
  /\ cpc = "wait" => \A o \in Orgs : targets[o] = NoCache
  /\ cpc = "delete" => empty
  /\ cpc # "len" => scan = 0

\* Only clear removes entries, and nobody replaces one: what clear took as a
\* target is still the org's cache when clear gets to it.
TargetsCurrent ==
  \A o \in Orgs : targets[o] # NoCache => caches[o] = targets[o]

HoldersAgree ==
  \A t, u \in Touchers :
    tpc[t] = "mark" /\ tpc[u] = "mark" /\ tcache[t] = tcache[u]
      => tkey[t].org = tkey[u].org

Inv ==
  /\ TypeOK
  /\ TouchersOK
  /\ ClearOK
  /\ TargetsCurrent
  /\ HoldersAgree
  /\ OrgsApart

-----------------------------------------------------------------------------
(* How old marks can be. *)

\* The current pass has still to clear its shard of o's cache.
Pending(o) == cpc = "wait" \/ (targets[o] # NoCache /\ curOrg # o)

\* The number of passes from the current one to the one that clears shard s.
Due(o, s) ==
  IF s > clearIdx \/ (s = clearIdx /\ Pending(o))
  THEN s - clearIdx
  ELSE s + NumShards - clearIdx

Clocks ==
  /\ \A k \in MKeys : fullAt[k] <= pass
  /\ \A t \in Touchers : started[t] <= pass

\* A mark in the map is wiped at most NumShards passes after it was set.
MappedFresh ==
  \A o \in Orgs :
    caches[o] # NoCache =>
      \A k \in KeysIn(caches[o], o) : pass + Due(o, k.shard) - fullAt[k] <= NumShards

\* The same for a cache that a toucher holds, in the map or not, counted
\* from the moment the toucher looked it up.
HeldFresh ==
  \A t \in Touchers :
    tpc[t] = "mark" =>
      \A k \in KeysIn(tcache[t], tkey[t].org) : started[t] - fullAt[k] <= NumShards

\* While Cache.Len has found nothing, the keys behind its back are new.
CountedAreNew ==
  cpc \in {"len", "delete"} /\ empty =>
    \A k \in KeysIn(targets[curOrg], curOrg) :
      cpc = "delete" \/ k.shard < scan => fullAt[k] = pass

HInv ==
  /\ HTypeOK
  /\ Clocks
  /\ MappedFresh
  /\ HeldFresh
  /\ CountedAreNew

-----------------------------------------------------------------------------
(* The structural invariant. *)

LEMMA InitInv == Init => Inv
  BY KeyCacheAssumption, NoKeyAssumption
     DEF Init, Inv, TypeOK, TouchersOK, ClearOK, TargetsCurrent, HoldersAgree, OrgsApart, Shards

LEMMA TouchLookupInv ==
  ASSUME Inv, NEW t \in Touchers, NEW k \in MKeys, TouchLookup(t, k)
  PROVE  Inv'
  <1> USE KeyCacheAssumption DEF Inv, TouchLookup, cvars
  <1>0. k.org \in Orgs
    BY Zenon DEF MKeys
  <1>1. TypeOK'
    BY <1>0, Zenon DEF TypeOK
  <1>2. TouchersOK' /\ ClearOK' /\ TargetsCurrent'
    BY <1>0 DEF TypeOK, TouchersOK, ClearOK, TargetsCurrent
  <1>3. HoldersAgree' /\ OrgsApart'
    BY <1>0 DEF TypeOK, TouchersOK, HoldersAgree, OrgsApart
  <1> QED
    BY <1>1, <1>2, <1>3, Zenon

LEMMA TouchFoundInv ==
  ASSUME Inv, NEW t \in Touchers, TouchFound(t)
  PROVE  Inv'
  <1> USE KeyCacheAssumption DEF Inv, TouchFound, cvars
  <1>0. tkey[t] \in MKeys /\ tkey[t].org \in Orgs
    BY Zenon DEF MKeys, TouchersOK
  <1>1. TypeOK'
    BY <1>0, Zenon DEF TypeOK
  <1>2. TouchersOK' /\ ClearOK' /\ TargetsCurrent'
    BY <1>0 DEF TypeOK, TouchersOK, ClearOK, TargetsCurrent
  <1>3. HoldersAgree' /\ OrgsApart'
    BY <1>0 DEF TypeOK, TouchersOK, HoldersAgree, OrgsApart
  <1> QED
    BY <1>1, <1>2, <1>3, Zenon

LEMMA TouchCreateInv ==
  ASSUME Inv, NEW t \in Touchers, TouchCreate(t)
  PROVE  Inv'
  <1> USE KeyCacheAssumption DEF Inv, TouchCreate, cvars
  <1>0. tkey[t] \in MKeys /\ tkey[t].org \in Orgs
    BY Zenon DEF MKeys, TouchersOK
  <1>c. PICK c \in CacheIds :
          /\ Unreferenced(c)
          /\ data' = [data EXCEPT ![c] = [i \in Shards |-> {}]]
          /\ caches' = [caches EXCEPT ![tkey[t].org] = c]
          /\ tcache' = [tcache EXCEPT ![t] = c]
    BY Zenon
  <1>1. TypeOK'
    BY <1>0, <1>c, Zenon DEF TypeOK
  <1>2. TouchersOK' /\ ClearOK' /\ TargetsCurrent'
    BY <1>0, <1>c DEF TypeOK, TouchersOK, ClearOK, TargetsCurrent
  <1>3. HoldersAgree' /\ OrgsApart'
    BY <1>0, <1>c DEF TypeOK, TouchersOK, HoldersAgree, OrgsApart, Unreferenced
  <1> QED
    BY <1>1, <1>2, <1>3, Zenon

LEMMA TouchMarkInv ==
  ASSUME Inv, NEW t \in Touchers, TouchMark(t)
  PROVE  Inv'
  <1> USE KeyCacheAssumption DEF Inv, TouchMark, cvars
  <1>0. tkey[t] \in MKeys /\ tcache[t] \in CacheIds
    BY Zenon DEF TouchersOK
  <1>1. TypeOK'
    BY <1>0 DEF TypeOK, MKeys
  <1>2. TouchersOK' /\ ClearOK' /\ TargetsCurrent'
    BY Zenon DEF TypeOK, TouchersOK, ClearOK, TargetsCurrent
  <1>3. HoldersAgree' /\ OrgsApart'
    BY DEF TypeOK, TouchersOK, HoldersAgree, OrgsApart
  <1> QED
    BY <1>1, <1>2, <1>3, Zenon

LEMMA ClearStepInv ==
  ASSUME Inv, ClearStep
  PROVE  Inv'
  <1> USE KeyCacheAssumption DEF Inv, tvars
  <1>1. CASE ClearTick
    BY <1>1 DEF ClearTick, TypeOK, TouchersOK, ClearOK, TargetsCurrent, HoldersAgree, OrgsApart
  <1>2. ASSUME NEW o \in Orgs, ClearReset(o)
        PROVE  Inv'
    <2>1. TypeOK'
      BY <1>2 DEF ClearReset, TypeOK, Shards, TargetsCurrent
    <2>2. TouchersOK' /\ ClearOK' /\ TargetsCurrent'
      BY <1>2, Zenon DEF ClearReset, TypeOK, TouchersOK, ClearOK, TargetsCurrent
    <2>3. HoldersAgree' /\ OrgsApart'
      BY <1>2 DEF ClearReset, TypeOK, HoldersAgree, OrgsApart
    <2> QED
      BY <2>1, <2>2, <2>3, Zenon
  <1>3. CASE ClearLen
    <2>1. TypeOK'
      BY <1>3 DEF ClearLen, LastShard, NextTarget, TypeOK, Shards
    <2>2. TouchersOK' /\ ClearOK' /\ TargetsCurrent'
      BY <1>3, Zenon DEF ClearLen, LastShard, NextTarget, TypeOK, TouchersOK, ClearOK, TargetsCurrent
    <2>3. HoldersAgree' /\ OrgsApart'
      BY <1>3, Zenon DEF ClearLen, HoldersAgree, OrgsApart
    <2> QED
      BY <2>1, <2>2, <2>3, Zenon
  <1>4. CASE ClearDelete
    <2>1. TypeOK'
      BY <1>4, Zenon DEF ClearDelete, NextTarget, TypeOK
    <2>2. TouchersOK' /\ ClearOK' /\ TargetsCurrent'
      BY <1>4, Zenon DEF ClearDelete, NextTarget, TypeOK, TouchersOK, ClearOK, TargetsCurrent
    <2>3. HoldersAgree' /\ OrgsApart'
      BY <1>4 DEF ClearDelete, TypeOK, TouchersOK, HoldersAgree, OrgsApart
    <2> QED
      BY <2>1, <2>2, <2>3, Zenon
  <1>5. CASE ClearEnd
    <2>1. TypeOK'
      BY <1>5 DEF ClearEnd, NextIdx, TypeOK, Shards
    <2>2. TouchersOK' /\ ClearOK' /\ TargetsCurrent'
      BY <1>5, Zenon DEF ClearEnd, TouchersOK, ClearOK, TargetsCurrent
    <2>3. HoldersAgree' /\ OrgsApart'
      BY <1>5, Zenon DEF ClearEnd, HoldersAgree, OrgsApart
    <2> QED
      BY <2>1, <2>2, <2>3, Zenon
  <1> QED
    BY <1>1, <1>2, <1>3, <1>4, <1>5, Zenon DEF ClearStep

LEMMA StutterInv ==
  ASSUME Inv, UNCHANGED vars
  PROVE  Inv'
  BY DEF Inv, vars, tvars, cvars, TypeOK, TouchersOK, ClearOK, TargetsCurrent, HoldersAgree, OrgsApart

LEMMA NextInv == Inv /\ [Next]_vars => Inv'
  BY TouchLookupInv, TouchFoundInv, TouchCreateInv, TouchMarkInv, ClearStepInv, StutterInv
    , Zenon DEF Next, TouchStep

\* The structural invariant holds in every interleaving of Touch and clear.
THEOREM SpecInv == Spec => []Inv
  BY InitInv, NextInv, PTL DEF Spec

\* The values of KeyCache's variables: in particular clearIdx always names one
\* of the shards, however long clear runs.
THEOREM TypeCorrect == Spec => []TypeOK
  BY SpecInv, PTL DEF Inv

\* Touch never mixes up the caches of two orgs, whatever clear removes and
\* whatever other calls create between its lookup and its mark.
THEOREM OrgsStayApart == Spec => []OrgsApart
  BY SpecInv, PTL DEF Inv

-----------------------------------------------------------------------------
(* The history invariant. *)

\* The history variables only observe.
LEMMA HistoryObserves == HSpec => Spec
  <1>1. HInit => Init
    BY DEF HInit
  <1>2. [HNext]_allVars => [Next]_vars
    BY Zenon DEF HNext, HTouchLookup, HTouchMark, HClearEnd, HSilent, allVars, Next, TouchStep, ClearStep
  <1> QED
    BY <1>1, <1>2, PTL DEF HSpec, Spec

LEMMA DueRange ==
  ASSUME TypeOK, NEW o, NEW s \in Shards
  PROVE  Due(o, s) \in 0 .. NumShards
  BY KeyCacheAssumption DEF TypeOK, Shards, Due

LEMMA KeyRange ==
  ASSUME HTypeOK, NEW k \in MKeys
  PROVE  k.shard \in Shards /\ fullAt[k] \in Int
  <1>1. k.shard \in Shards
    BY Zenon DEF MKeys
  <1>2. fullAt[k] \in Nat \cup {Never}
    BY Zenon DEF HTypeOK
  <1> QED
    BY <1>1, <1>2, KeyCacheAssumption DEF Never

LEMMA HInitInv == HInit => HInv
  <1> SUFFICES ASSUME HInit PROVE HInv
    OBVIOUS
  <1>1. Inv
    BY InitInv DEF HInit
  <1> QED
    BY <1>1, KeyCacheAssumption
       DEF HInit, Init, Inv, HInv, HTypeOK, Never, Clocks, MappedFresh, HeldFresh, CountedAreNew

LEMMA HTouchLookupInv ==
  ASSUME Inv, HInv, NEW t \in Touchers, NEW k \in MKeys, HTouchLookup(t, k)
  PROVE  HInv'
  <1> USE KeyCacheAssumption DEF HTouchLookup, TouchLookup, cvars, HInv
  <1>0. Inv' /\ k.org \in Orgs
    BY TouchLookupInv, Zenon DEF MKeys
  <1>1. HTypeOK' /\ Clocks'
    BY <1>0 DEF Inv, HTypeOK, Clocks, Never
  <1>2. MappedFresh' /\ CountedAreNew'
    BY Zenon DEF MappedFresh, KeysIn, Due, Pending, CountedAreNew
  <1>3. HeldFresh'
    <2> SUFFICES ASSUME NEW u \in Touchers, tpc'[u] = "mark",
                        NEW m \in KeysIn(tcache[u], tkey[u].org)'
                 PROVE  started'[u] - fullAt'[m] <= NumShards
      BY Zenon DEF HeldFresh
    <2>1. CASE u # t
      BY <2>1, Zenon DEF HeldFresh, KeysIn, Inv, TypeOK, HTypeOK
    <2>2. CASE u = t
      <3>1. m \in KeysIn(caches[k.org], k.org) /\ caches[k.org] # NoCache /\ started'[u] = pass
        BY <2>2, Zenon DEF KeysIn, Inv, TypeOK, HTypeOK
      <3>2. pass + Due(k.org, m.shard) - fullAt[m] <= NumShards
        BY <1>0, <3>1, Zenon DEF MappedFresh
      <3>3. Due(k.org, m.shard) \in 0 .. NumShards /\ fullAt[m] \in Int /\ pass \in Nat
        BY <3>1, DueRange, KeyRange, Zenon DEF KeysIn, HTypeOK
      <3> QED
        BY <3>1, <3>2, <3>3
    <2> QED
      BY <2>1, <2>2, Zenon
  <1> QED
    BY <1>1, <1>2, <1>3, Zenon

LEMMA HTouchFoundInv ==
  ASSUME Inv, HInv, NEW t \in Touchers, TouchFound(t), UNCHANGED hvars
  PROVE  HInv'
  <1> USE KeyCacheAssumption DEF TouchFound, cvars, hvars, HInv
  <1>0. Inv' /\ tkey[t].org \in Orgs
    BY TouchFoundInv, Zenon DEF MKeys, Inv, TouchersOK
  <1>1. HTypeOK' /\ Clocks'
    BY <1>0, Zenon DEF Inv, HTypeOK, Clocks
  <1>2. MappedFresh' /\ CountedAreNew'
    BY Zenon DEF MappedFresh, KeysIn, Due, Pending, CountedAreNew
  <1>3. HeldFresh'
    <2> SUFFICES ASSUME NEW u \in Touchers, tpc'[u] = "mark",
                        NEW m \in KeysIn(tcache[u], tkey[u].org)'
                 PROVE  started'[u] - fullAt'[m] <= NumShards
      BY Zenon DEF HeldFresh
    <2>1. CASE u # t
      BY <2>1, Zenon DEF HeldFresh, KeysIn, Inv, TypeOK, HTypeOK
    <2>2. CASE u = t
      <3> DEFINE o == tkey[t].org
      <3>1. m \in KeysIn(caches[o], o) /\ caches[o] # NoCache /\ started[u] <= pass
        BY <2>2, Zenon DEF KeysIn, Inv, TypeOK, HTypeOK, Clocks
      <3>2. pass + Due(o, m.shard) - fullAt[m] <= NumShards
        BY <1>0, <3>1, Zenon DEF MappedFresh
      <3>3. Due(o, m.shard) \in 0 .. NumShards /\ fullAt[m] \in Int /\ pass \in Nat /\ started[u] \in Nat
        BY <3>1, DueRange, KeyRange, Zenon DEF KeysIn, HTypeOK
      <3> QED
        BY <3>1, <3>2, <3>3
    <2> QED
      BY <2>1, <2>2, Zenon
  <1> QED
    BY <1>1, <1>2, <1>3, Zenon

LEMMA HTouchCreateInv ==
  ASSUME Inv, HInv, NEW t \in Touchers, TouchCreate(t), UNCHANGED hvars
  PROVE  HInv'
  <1> USE KeyCacheAssumption DEF TouchCreate, cvars, hvars, HInv
  <1>0. Inv' /\ tkey[t].org \in Orgs
    BY TouchCreateInv, Zenon DEF MKeys, Inv, TouchersOK
  <1>c. PICK c \in CacheIds :
          /\ Unreferenced(c)
          /\ data' = [data EXCEPT ![c] = [i \in Shards |-> {}]]
          /\ caches' = [caches EXCEPT ![tkey[t].org] = c]
          /\ tcache' = [tcache EXCEPT ![t] = c]
    BY Zenon
  <1>n. \A o \in Orgs : KeysIn(c, o)' = {}
    BY <1>c, Zenon DEF KeysIn, Inv, TypeOK, MKeys
  <1>o. \A d \in CacheIds : d # c => data'[d] = data[d]
    BY <1>c, Zenon DEF Inv, TypeOK
  <1>1. HTypeOK' /\ Clocks'
    BY <1>0, Zenon DEF Inv, HTypeOK, Clocks
  <1>2. MappedFresh'
    <2> SUFFICES ASSUME NEW o \in Orgs, caches'[o] # NoCache, NEW k \in KeysIn(caches[o], o)'
                 PROVE  (pass + Due(o, k.shard) - fullAt[k] <= NumShards)'
      BY Zenon DEF MappedFresh
    <2>1. o # tkey[t].org /\ caches'[o] = caches[o] /\ caches[o] # c /\ caches[o] \in CacheIds
      BY <1>0, <1>c, <1>n DEF Inv, TypeOK, Unreferenced
    <2>2. k \in KeysIn(caches[o], o)
      BY <2>1, <1>o, Zenon DEF KeysIn
    <2> QED
      BY <2>1, <2>2, Zenon DEF MappedFresh, Due, Pending
  <1>3. HeldFresh'
    <2> SUFFICES ASSUME NEW u \in Touchers, tpc'[u] = "mark",
                        NEW m \in KeysIn(tcache[u], tkey[u].org)'
                 PROVE  started'[u] - fullAt'[m] <= NumShards
      BY Zenon DEF HeldFresh
    <2>1. u # t /\ tpc[u] = "mark" /\ tcache'[u] = tcache[u] /\ tcache[u] # c /\ tcache[u] \in CacheIds
      BY <1>0, <1>c, <1>n DEF Inv, TypeOK, TouchersOK, Unreferenced
    <2>2. m \in KeysIn(tcache[u], tkey[u].org)
      BY <2>1, <1>o, Zenon DEF KeysIn
    <2> QED
      BY <2>1, <2>2, Zenon DEF HeldFresh
  <1>4. CountedAreNew'
    <2> SUFFICES ASSUME cpc \in {"len", "delete"}, empty, NEW k \in KeysIn(targets[curOrg], curOrg)',
                        cpc = "delete" \/ k.shard < scan
                 PROVE  fullAt[k] = pass
      BY Zenon DEF CountedAreNew
    <2>1. targets[curOrg] # c /\ targets[curOrg] \in CacheIds
      BY <1>c, Zenon DEF Unreferenced, Inv, ClearOK, TypeOK
    <2>2. k \in KeysIn(targets[curOrg], curOrg)
      BY <2>1, <1>o, Zenon DEF KeysIn
    <2> QED
      BY <2>2, Zenon DEF CountedAreNew
  <1> QED
    BY <1>1, <1>2, <1>3, <1>4, Zenon

LEMMA HTouchMarkInv ==
  ASSUME Inv, HInv, NEW t \in Touchers, HTouchMark(t)
  PROVE  HInv'
  <1> USE KeyCacheAssumption DEF HTouchMark, TouchMark, cvars, HInv
  <1> DEFINE key == tkey[t]
             c == tcache[t]
  <1>0. Inv' /\ key \in MKeys /\ c \in CacheIds
    BY TouchMarkInv, Zenon DEF Inv, TouchersOK
  <1>1. HTypeOK'
    BY <1>0, Zenon DEF Inv, HTypeOK
  <1>f. \A k \in MKeys : fullAt'[k] = fullAt[k] \/ fullAt'[k] = pass
    BY Zenon DEF HTypeOK
  <1>2. Clocks'
    BY <1>f DEF Clocks, HTypeOK
  \* The only mark that is new is the key's own, and it is as new as can be.
  <1>m. ASSUME NEW d \in CacheIds, NEW o \in Orgs, NEW k \in KeysIn(d, o)',
               d = c => o = key.org
        PROVE  (k \in KeysIn(d, o) /\ fullAt'[k] = fullAt[k]) \/ fullAt'[k] = pass
    <2>1. CASE k \in KeysIn(d, o)
      BY <2>1, <1>f, Zenon DEF KeysIn
    <2>2. CASE k \notin KeysIn(d, o)
      <3>1. k \in MKeys /\ k.org = o /\ k.sub \in data'[d][k.shard] /\ k.sub \notin data[d][k.shard]
        BY <2>2, Zenon DEF KeysIn
      <3>2. k.shard \in Shards /\ key.shard \in Shards
        BY <1>0, <3>1, Zenon DEF MKeys
      <3>3. d = c /\ k.shard = key.shard /\ k.sub = key.sub
        BY <1>0, <3>1, <3>2 DEF Inv, TypeOK
      <3>4. k = key
        BY <1>0, <1>m, <3>1, <3>3 DEF MKeys
      <3>5. ~ Seen(t)
        BY <3>1, <3>3, <3>4, Zenon DEF Seen
      <3> QED
        BY <1>0, <3>4, <3>5, Zenon DEF HTypeOK
    <2> QED
      BY <2>1, <2>2, Zenon
  <1>3. MappedFresh'
    <2> SUFFICES ASSUME NEW o \in Orgs, caches'[o] # NoCache, NEW k \in KeysIn(caches[o], o)'
                 PROVE  (pass + Due(o, k.shard) - fullAt[k] <= NumShards)'
      BY Zenon DEF MappedFresh
    <2>1. caches[o] \in CacheIds /\ caches'[o] = caches[o] /\ (caches[o] = c => o = key.org)
      BY Zenon DEF Inv, TypeOK, OrgsApart
    <2>2. (k \in KeysIn(caches[o], o) /\ fullAt'[k] = fullAt[k]) \/ fullAt'[k] = pass
      BY <1>m, <2>1, Zenon
    <2>3. Due(o, k.shard)' = Due(o, k.shard) /\ Due(o, k.shard) \in 0 .. NumShards
      BY DueRange, KeyRange, Zenon DEF Due, Pending, KeysIn, HTypeOK
    <2> QED
      BY <2>1, <2>2, <2>3 DEF MappedFresh, HTypeOK
  <1>4. HeldFresh'
    <2> SUFFICES ASSUME NEW u \in Touchers, tpc'[u] = "mark",
                        NEW m \in KeysIn(tcache[u], tkey[u].org)'
                 PROVE  started'[u] - fullAt'[m] <= NumShards
      BY Zenon DEF HeldFresh
    <2>1. /\ u # t /\ tpc[u] = "mark" /\ tcache'[u] = tcache[u] /\ tkey'[u] = tkey[u]
          /\ started'[u] = started[u]
      BY Zenon DEF Inv, TypeOK, HTypeOK
    <2>2. /\ tcache[u] \in CacheIds /\ tkey[u].org \in Orgs
          /\ tcache[u] = c => tkey[u].org = key.org
      BY <2>1, Zenon DEF Inv, TouchersOK, HoldersAgree, MKeys
    <2>3. (m \in KeysIn(tcache[u], tkey[u].org) /\ fullAt'[m] = fullAt[m]) \/ fullAt'[m] = pass
      BY <1>m, <2>1, <2>2
    <2> QED
      BY <2>1, <2>3 DEF HeldFresh, Clocks, HTypeOK
  <1>5. CountedAreNew'
    <2> SUFFICES ASSUME cpc \in {"len", "delete"}, empty, NEW k \in KeysIn(targets[curOrg], curOrg)',
                        cpc = "delete" \/ k.shard < scan
                 PROVE  fullAt'[k] = pass
      BY Zenon DEF CountedAreNew
    <2>1. /\ curOrg \in Orgs /\ targets[curOrg] \in CacheIds
          /\ targets[curOrg] = c => curOrg = key.org
      BY DEF Inv, ClearOK, TypeOK, TargetsCurrent, OrgsApart
    <2>2. (k \in KeysIn(targets[curOrg], curOrg) /\ fullAt'[k] = fullAt[k]) \/ fullAt'[k] = pass
      BY <1>m, <2>1, Zenon
    <2> QED
      BY <2>2, Zenon DEF CountedAreNew
  <1> QED
    BY <1>1, <1>2, <1>3, <1>4, <1>5, Zenon

LEMMA HClearTickInv ==
  ASSUME Inv, HInv, ClearTick, UNCHANGED hvars
  PROVE  HInv'
  <1> USE DEF HInv, ClearTick, tvars, hvars
  <1>0. Inv'
    BY ClearStepInv, Zenon DEF ClearStep
  <1>1. HTypeOK' /\ Clocks' /\ CountedAreNew'
    BY <1>0, Zenon DEF Inv, HTypeOK, Clocks, CountedAreNew
  <1>2. MappedFresh'
    BY KeyCacheAssumption DEF MappedFresh, KeysIn, Due, Pending, Inv, ClearOK
  <1>3. HeldFresh'
    BY Zenon DEF HeldFresh, KeysIn
  <1> QED
    BY <1>1, <1>2, <1>3, Zenon

LEMMA HClearResetInv ==
  ASSUME Inv, HInv, NEW o \in Orgs, ClearReset(o), UNCHANGED hvars
  PROVE  HInv'
  <1> USE KeyCacheAssumption DEF HInv, ClearReset, tvars, hvars
  <1>0. Inv' /\ targets[o] \in CacheIds /\ clearIdx \in Shards
    BY ClearStepInv, Zenon DEF ClearStep, Inv, TypeOK
  <1>1. HTypeOK' /\ Clocks'
    BY <1>0, Zenon DEF Inv, HTypeOK, Clocks
  <1>d. \A c \in CacheIds, p \in Orgs : KeysIn(c, p)' \subseteq KeysIn(c, p)
    BY <1>0 DEF KeysIn, Inv, TypeOK, MKeys
  <1>2. MappedFresh'
    <2> SUFFICES ASSUME NEW p \in Orgs, caches'[p] # NoCache, NEW k \in KeysIn(caches[p], p)'
                 PROVE  (pass + Due(p, k.shard) - fullAt[k] <= NumShards)'
      BY Zenon DEF MappedFresh
    <2>1. caches[p] # NoCache /\ caches[p] \in CacheIds /\ k \in KeysIn(caches[p], p)
      BY <1>d, Zenon DEF Inv, TypeOK
    <2>2. p = o => k.shard # clearIdx
      BY <1>0, <2>1 DEF KeysIn, Inv, TypeOK, TargetsCurrent, MKeys
    <2>3. Due(p, k.shard)' = Due(p, k.shard)
      BY <2>2, Zenon DEF Due, Pending, Inv, ClearOK
    <2> QED
      BY <2>1, <2>3, Zenon DEF MappedFresh
  <1>3. HeldFresh'
    BY <1>d, Zenon DEF HeldFresh, Inv, TouchersOK, MKeys
  <1>4. CountedAreNew'
    BY KeyRange DEF CountedAreNew, KeysIn, Shards, HTypeOK
  <1> QED
    BY <1>1, <1>2, <1>3, <1>4, Zenon

LEMMA HClearLenInv ==
  ASSUME Inv, HInv, ClearLen, UNCHANGED hvars
  PROVE  HInv'
  <1> USE KeyCacheAssumption DEF HInv, ClearLen, LastShard, NextTarget, tvars, hvars
  <1>0. Inv' /\ curOrg \in Orgs /\ targets[curOrg] \in CacheIds
    BY ClearStepInv, Zenon DEF ClearStep, Inv, TypeOK, ClearOK
  <1>1. HTypeOK' /\ Clocks'
    BY <1>0, Zenon DEF Inv, HTypeOK, Clocks
  <1>2. MappedFresh'
    <2>1. \A o \in Orgs : Pending(o)' <=> Pending(o)
      BY <1>0 DEF Pending, Inv, TypeOK
    <2> QED
      BY <2>1, Zenon DEF MappedFresh, KeysIn, Due
  <1>3. HeldFresh'
    BY Zenon DEF HeldFresh, KeysIn
  <1>4. CountedAreNew'
    <2> SUFFICES ASSUME cpc' \in {"len", "delete"}, empty', NEW k \in KeysIn(targets[curOrg], curOrg)',
                        cpc' = "delete" \/ k.shard < scan'
                 PROVE  fullAt[k] = pass
      BY Zenon DEF CountedAreNew
    <2>1. /\ k \in KeysIn(targets[curOrg], curOrg) /\ k.shard \in Shards /\ scan \in Shards
          /\ empty /\ data[targets[curOrg]][scan] = {}
      BY KeyRange, Zenon DEF KeysIn, Inv, TypeOK, HTypeOK
    <2>2. k.shard # scan
      BY <2>1, Zenon DEF KeysIn
    <2>3. k.shard < scan
      BY <2>1, <2>2 DEF Shards
    <2> QED
      BY <2>1, <2>3, Zenon DEF CountedAreNew
  <1> QED
    BY <1>1, <1>2, <1>3, <1>4, Zenon

LEMMA HClearDeleteInv ==
  ASSUME Inv, HInv, ClearDelete, UNCHANGED hvars
  PROVE  HInv'
  <1> USE KeyCacheAssumption DEF HInv, ClearDelete, NextTarget, tvars, hvars
  <1>0. Inv' /\ curOrg \in Orgs
    BY ClearStepInv, Zenon DEF ClearStep, Inv, ClearOK
  <1>1. HTypeOK' /\ Clocks' /\ CountedAreNew'
    BY <1>0, Zenon DEF Inv, HTypeOK, Clocks, CountedAreNew
  <1>2. MappedFresh'
    <2>1. \A o \in Orgs : Pending(o)' <=> Pending(o)
      BY <1>0, Zenon DEF Pending, Inv, TypeOK
    <2>2. \A o \in Orgs : caches'[o] # NoCache => caches'[o] = caches[o]
      BY Zenon DEF Inv, TypeOK
    <2> QED
      BY <2>1, <2>2, Zenon DEF MappedFresh, KeysIn, Due
  <1>3. HeldFresh'
    BY Zenon DEF HeldFresh, KeysIn
  <1> QED
    BY <1>1, <1>2, <1>3, Zenon

LEMMA HClearEndInv ==
  ASSUME Inv, HInv, HClearEnd
  PROVE  HInv'
  <1> USE KeyCacheAssumption DEF HInv, HClearEnd, ClearEnd, NextIdx, tvars
  <1>0. Inv'
    BY ClearStepInv, Zenon DEF ClearStep
  <1>1. HTypeOK' /\ Clocks'
    BY <1>0, KeyRange DEF Inv, HTypeOK, Clocks
  <1>2. MappedFresh'
    <2> SUFFICES ASSUME NEW o \in Orgs, caches'[o] # NoCache, NEW k \in KeysIn(caches[o], o)'
                 PROVE  (pass + Due(o, k.shard) - fullAt[k] <= NumShards)'
      BY Zenon DEF MappedFresh
    <2>1. k \in KeysIn(caches[o], o) /\ k.shard \in Shards /\ fullAt[k] \in Int /\ clearIdx \in Shards
      BY KeyRange, Zenon DEF KeysIn, HTypeOK, Inv, TypeOK
    <2>2. ~Pending(o) /\ Pending(o)'
      BY Zenon DEF Pending, Inv, ClearOK
    \* Every shard's turn comes one pass nearer.
    <2>3. Due(o, k.shard)' = Due(o, k.shard) - 1 /\ Due(o, k.shard) \in Int
      <3>1. k.shard \in 0 .. NumShards - 1 /\ clearIdx \in 0 .. NumShards - 1 /\ NumShards \in Nat
        BY <2>1, Zenon DEF Shards
      <3>2. clearIdx' = IF clearIdx = NumShards - 1 THEN 0 ELSE clearIdx + 1
        <4>1. clearIdx' = IF clearIdx + 1 = NumShards THEN 0 ELSE clearIdx + 1
          BY Zenon
        <4> HIDE DEF HInv, HClearEnd, ClearEnd, NextIdx
        <4> QED
          BY <3>1, <4>1
      <3>3. Due(o, k.shard) = IF k.shard > clearIdx THEN k.shard - clearIdx ELSE k.shard + NumShards - clearIdx
        BY <2>2, Zenon DEF Due
      <3>4. Due(o, k.shard)' = IF k.shard > clearIdx' \/ k.shard = clearIdx' THEN k.shard - clearIdx'
                                                                             ELSE k.shard + NumShards - clearIdx'
        BY <2>2, Zenon DEF Due
      <3> HIDE DEF HClearEnd, ClearEnd, NextIdx
      <3>5. CASE clearIdx = NumShards - 1
        BY <3>1, <3>2, <3>3, <3>4, <3>5
      <3>6. CASE clearIdx # NumShards - 1
        BY <3>1, <3>2, <3>3, <3>4, <3>6
      <3> QED
        BY <3>5, <3>6, Zenon
    <2>4. pass + Due(o, k.shard) - fullAt[k] <= NumShards /\ pass \in Int
      BY <2>1 DEF MappedFresh, HTypeOK
    <2>5. pass' = pass + 1 /\ fullAt' = fullAt
      BY Zenon
    <2> HIDE DEF HClearEnd, ClearEnd, NextIdx
    <2> QED
      BY <2>1, <2>3, <2>4, <2>5
  <1>3. HeldFresh' /\ CountedAreNew'
    BY Zenon DEF HeldFresh, KeysIn, CountedAreNew
  <1> QED
    BY <1>1, <1>2, <1>3, Zenon

LEMMA HStutterInv ==
  ASSUME Inv, HInv, UNCHANGED allVars
  PROVE  HInv'
  <1>0. Inv'
    BY StutterInv DEF allVars
  <1> QED
    BY <1>0 DEF HInv, allVars, hvars, vars, tvars, cvars, Inv, HTypeOK, Clocks, MappedFresh,
                HeldFresh, CountedAreNew, KeysIn, Due, Pending

LEMMA HNextInv == Inv /\ HInv /\ [HNext]_allVars => HInv'
  BY HTouchLookupInv, HTouchFoundInv, HTouchCreateInv, HTouchMarkInv, HClearTickInv,
     HClearResetInv, HClearLenInv, HClearDeleteInv, HClearEndInv, HStutterInv
    , Zenon DEF HNext, HSilent

\* So does the invariant that dates the marks of the cache.
THEOREM HSpecInv == HSpec => [](Inv /\ HInv)
  <1>1. HSpec => []Inv
    BY HistoryObserves, SpecInv, PTL
  <1>2. HSpec => HInit /\ [][HNext]_allVars
    BY DEF HSpec
  <1> QED
    BY <1>1, <1>2, HInitInv, HNextInv, PTL

\* A "seen" answer never rests on a full MetricData older than one
\* clearInterval at the time of the call: Touch against clear, in every
\* interleaving and for every number of shards.
THEOREM SeenStaysFresh == HSpec => []SeenIsFresh
  <1>1. Inv /\ HInv => SeenIsFresh
    BY Zenon DEF Inv, HInv, TouchersOK, HeldFresh, KeysIn, SeenIsFresh, Seen
  <1> QED
    BY <1>1, HSpecInv, PTL

\* When clear removes an org's cache, the marks that go with it were all set
\* during the current pass.
THEOREM RemovalIsHarmless == HSpec => RemovalDropsOnlyNewMarks
  <1>1. ASSUME Inv, HInv, [HNext]_allVars, NEW o \in Orgs, caches[o] # NoCache,
               caches'[o] # caches[o], NEW k \in KeysIn(caches[o], o)
        PROVE  fullAt[k] = pass
    <2>1. cpc = "delete" /\ curOrg = o
      BY <1>1, Zenon DEF HNext, HTouchLookup, TouchLookup, HTouchMark, TouchMark, HClearEnd, ClearEnd,
                  HSilent, TouchFound, TouchCreate, ClearTick, ClearReset, ClearLen, ClearDelete,
                  allVars, vars, Inv, TypeOK
    <2> QED
      BY <1>1, <2>1, Zenon DEF Inv, HInv, ClearOK, TargetsCurrent, CountedAreNew
  <1>2. Inv /\ HInv /\ [HNext]_allVars => [RemovedMarksAreNew]_allVars
    BY <1>1, Zenon DEF RemovedMarksAreNew
  <1>3. HSpec => [][HNext]_allVars
    BY DEF HSpec
  <1> QED
    BY <1>2, <1>3, HSpecInv, PTL DEF RemovalDropsOnlyNewMarks

-----------------------------------------------------------------------------
(* The refinement, from the structural invariant Inv. *)

LEMMA AnswersObserve == RSpec => Spec
  <1>1. RInit => Init
    BY DEF RInit
  <1>2. [RNext]_rvars => [Next]_vars
    BY Zenon DEF RNext, RTouchMark, RSilent, rvars, Next, TouchStep
  <1> QED
    BY <1>1, <1>2, PTL DEF RSpec, Spec

LEMMA InitRefines == RInit => SF!Init
  <1> SUFFICES ASSUME RInit
               PROVE  SF!Init
    OBVIOUS
  <1>1. \A k \in MKeys : k.org \in Orgs /\ caches[k.org] = NoCache
    BY Zenon DEF RInit, Init, MKeys
  <1>2. \A u \in Touchers : tpc[u] # "mark"
    BY Zenon DEF RInit, Init
  <1> QED
    BY <1>1, <1>2, Zenon DEF RInit, SF!Init, Remembered

\* A Touch that has not marked yet adds nothing to what is remembered.
LEMMA LookupForgets ==
  ASSUME Inv, NEW t \in Touchers, NEW k \in MKeys, TouchLookup(t, k)
  PROVE  Remembered' \subseteq Remembered
  BY DEF Inv, TypeOK, TouchLookup, cvars, Remembered, MKeys

LEMMA FoundForgets ==
  ASSUME Inv, NEW t \in Touchers, TouchFound(t)
  PROVE  Remembered' \subseteq Remembered
  BY Zenon DEF Inv, TypeOK, TouchersOK, TouchFound, cvars, Remembered, MKeys

LEMMA CreateForgets ==
  ASSUME Inv, NEW t \in Touchers, TouchCreate(t)
  PROVE  Remembered' \subseteq Remembered
  <1> USE DEF TouchCreate, cvars
  <1>0. tkey[t] \in MKeys /\ tkey[t].org \in Orgs
    BY Zenon DEF MKeys, Inv, TouchersOK
  <1>c. PICK c \in CacheIds :
          /\ Unreferenced(c)
          /\ data' = [data EXCEPT ![c] = [i \in Shards |-> {}]]
          /\ caches' = [caches EXCEPT ![tkey[t].org] = c]
          /\ tcache' = [tcache EXCEPT ![t] = c]
    BY Zenon
  <1> SUFFICES ASSUME NEW k \in Remembered'
               PROVE  k \in Remembered
    BY Zenon
  <1>k. k \in MKeys /\ k.org \in Orgs /\ k.shard \in Shards
    BY Zenon DEF Remembered, MKeys
  <1>n. k.sub \notin data'[c][k.shard]
    BY <1>c, <1>k, Zenon DEF Inv, TypeOK
  <1>o. \A d : d \in CacheIds /\ d # c => data'[d] = data[d]
    BY <1>c, Zenon DEF Inv, TypeOK
  <1>1. CASE caches'[k.org] # NoCache /\ k.sub \in data'[caches'[k.org]][k.shard]
    <2>1. caches'[k.org] = caches[k.org] /\ caches[k.org] \in CacheIds /\ caches[k.org] # c
      BY <1>0, <1>c, <1>k, <1>n, <1>1 DEF Inv, TypeOK
    <2> QED
      BY <1>k, <1>o, <1>1, <2>1 DEF Remembered
  <1>2. ASSUME NEW u \in Touchers, tpc'[u] = "mark", tkey'[u].org = k.org,
               k.sub \in data'[tcache'[u]][k.shard]
        PROVE  k \in Remembered
    <2>1. u # t /\ tcache'[u] = tcache[u] /\ tcache[u] # c /\ tpc[u] = "mark" /\ tcache[u] \in CacheIds
      BY <1>c, <1>n, <1>2, Zenon DEF Inv, TypeOK, TouchersOK
    <2> QED
      BY <1>k, <1>o, <1>2, <2>1 DEF Remembered
  <1> QED
    BY <1>1, <1>2, Zenon DEF Remembered

LEMMA ClearForgets ==
  ASSUME Inv, ClearStep
  PROVE  Remembered' \subseteq Remembered
  <1>1. CASE ClearTick
    BY <1>1 DEF ClearTick, tvars, Remembered
  <1>2. ASSUME NEW o \in Orgs, ClearReset(o)
        PROVE  Remembered' \subseteq Remembered
    <2>1. \A c \in CacheIds, s \in Shards : data'[c][s] \subseteq data[c][s]
      BY <1>2, Zenon DEF ClearReset, Inv, TypeOK
    <2> SUFFICES ASSUME NEW k \in Remembered'
                 PROVE  k \in Remembered
      OBVIOUS
    <2>2. k \in MKeys /\ k.org \in Orgs /\ k.shard \in Shards
      BY Zenon DEF Remembered, MKeys
    <2>3. caches' = caches /\ tpc' = tpc /\ tkey' = tkey /\ tcache' = tcache
      BY <1>2, Zenon DEF ClearReset, tvars
    <2>4. caches[k.org] # NoCache => caches[k.org] \in CacheIds
      BY <2>2, Zenon DEF Inv, TypeOK
    <2>5. \A u \in Touchers : tpc[u] = "mark" => tcache[u] \in CacheIds
      BY Zenon DEF Inv, TouchersOK
    <2> QED
      BY <2>1, <2>2, <2>3, <2>4, <2>5, Zenon DEF Remembered
  <1>3. CASE ClearLen
    BY <1>3, Zenon DEF ClearLen, tvars, Remembered
  <1>4. CASE ClearDelete
    BY <1>4, Zenon DEF ClearDelete, tvars, Remembered, Inv, TypeOK, MKeys
  <1>5. CASE ClearEnd
    BY <1>5 DEF ClearEnd, tvars, Remembered
  <1> QED
    BY <1>1, <1>2, <1>3, <1>4, <1>5 DEF ClearStep

\* The mark adds the touched key and nothing else: caches are not shared
\* between orgs.
LEMMA MarkAnswers ==
  ASSUME Inv, NEW t \in Touchers, TouchMark(t)
  PROVE  /\ tkey[t] \in MKeys
         /\ Seen(t) => tkey[t] \in Remembered
         /\ Remembered' \subseteq Remembered \cup {tkey[t]}
  <1> USE DEF TouchMark, cvars
  <1>0. tkey[t] \in MKeys /\ tcache[t] \in CacheIds /\ tkey[t].org \in Orgs /\ tkey[t].shard \in Shards
    BY Zenon DEF Inv, TouchersOK, MKeys
  <1>1. Seen(t) => tkey[t] \in Remembered
    BY <1>0, Zenon DEF Seen, Remembered
  <1>2. ASSUME NEW k \in Remembered', k # tkey[t]
        PROVE  k \in Remembered
    <2>k. k \in MKeys /\ k.org \in Orgs /\ k.shard \in Shards
      BY <1>2, Zenon DEF Remembered, MKeys
    \* What another org's or another key's place in a cache holds stays.
    <2>d. ASSUME NEW c \in CacheIds, c = tcache[t] => k.org = tkey[t].org,
                 k.sub \in data'[c][k.shard]
          PROVE  k.sub \in data[c][k.shard]
      <3>1. CASE c = tcache[t] /\ k.shard = tkey[t].shard
        <4>1. k.sub # tkey[t].sub
          BY <1>0, <1>2, <2>k, <2>d, <3>1 DEF MKeys
        <4> QED
          BY <1>0, <2>k, <2>d, <3>1, <4>1, Zenon DEF Inv, TypeOK
      <3>2. CASE ~ (c = tcache[t] /\ k.shard = tkey[t].shard)
        BY <1>0, <2>k, <2>d, <3>2, Zenon DEF Inv, TypeOK
      <3> QED
        BY <3>1, <3>2, Zenon
    <2>1. CASE caches'[k.org] # NoCache /\ k.sub \in data'[caches'[k.org]][k.shard]
      <3>1. caches[k.org] \in CacheIds /\ (caches[k.org] = tcache[t] => k.org = tkey[t].org)
        BY <2>k, <2>1 DEF Inv, TypeOK, OrgsApart
      <3> QED
        BY <2>k, <2>d, <2>1, <3>1, Zenon DEF Remembered
    <2>2. ASSUME NEW u \in Touchers, tpc'[u] = "mark", tkey'[u].org = k.org,
                 k.sub \in data'[tcache'[u]][k.shard]
          PROVE  k \in Remembered
      <3>1. u # t /\ tpc[u] = "mark" /\ tkey'[u] = tkey[u] /\ tcache'[u] = tcache[u]
        BY <2>2, Zenon DEF Inv, TypeOK
      <3>2. tcache[u] \in CacheIds /\ (tcache[u] = tcache[t] => k.org = tkey[t].org)
        BY <2>2, <3>1, Zenon DEF Inv, TouchersOK, HoldersAgree
      <3> QED
        BY <2>k, <2>d, <2>2, <3>1, <3>2, Zenon DEF Remembered
    <2> QED
      BY <1>2, <2>1, <2>2, Zenon DEF Remembered
  <1> QED
    BY <1>0, <1>1, <1>2, Zenon

LEMMA StepRefines == Inv /\ [RNext]_rvars => [SF!Next]_<<Remembered, answer>>
  <1> SUFFICES ASSUME Inv, [RNext]_rvars
               PROVE  [SF!Next]_<<Remembered, answer>>
    OBVIOUS
  <1>1. ASSUME NEW t \in Touchers, RTouchMark(t)
        PROVE  SF!Next
    <2>1. SF!Touch(tkey[t], Seen(t)) /\ tkey[t] \in MKeys /\ Seen(t) \in BOOLEAN
      BY <1>1, MarkAnswers DEF RTouchMark, SF!Touch, SF!Answer, Seen
    <2> QED
      BY <2>1, Zenon DEF SF!Next
  <1>2. CASE RSilent
    <2>1. Remembered' \subseteq Remembered /\ UNCHANGED answer
      BY <1>2, LookupForgets, FoundForgets, CreateForgets, ClearForgets, Zenon DEF RSilent
    <2> QED
      BY <2>1 DEF SF!Next, SF!Forget
  <1>3. CASE UNCHANGED rvars
    BY <1>3 DEF rvars, vars, tvars, Remembered
  <1> QED
    BY <1>1, <1>2, <1>3 DEF RNext

\* The sharded, concurrently cleared cache gives the publisher the answers of
\* SeenFilter and no others.
THEOREM KeyCacheImplementsSeenFilter == RSpec => ImplementsSeenFilter
  <1>1. RSpec => []Inv
    BY AnswersObserve, SpecInv, PTL
  <1>2. RSpec => RInit /\ [][RNext]_rvars
    BY DEF RSpec
  <1> QED
    BY <1>1, <1>2, InitRefines, StepRefines, PTL DEF ImplementsSeenFilter, SF!Spec
=============================================================================
