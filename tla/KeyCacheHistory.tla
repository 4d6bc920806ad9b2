--------------------------- MODULE KeyCacheHistory ---------------------------
(***************************************************************************)
(* KeyCache with history variables, to say what its answers mean over      *)
(* time.  A pass is one round of clear over its targets; NumShards passes  *)
(* make the clearInterval that the publisher's flag v2-clear-interval      *)
(* configures.  The history variables never influence the cache.           *)
(***************************************************************************)
EXTENDS KeyCache, Integers

CONSTANT MaxPass  \* bound on the passes of a behaviour

ASSUME MaxPassAssumption == MaxPass \in Nat

VARIABLES
  pass,     \* number of passes completed
  fullAt,   \* pass during which Touch last answered "not seen" for the key
  started   \* pass during which the toucher's current call looked up the org

hvars == <<pass, fullAt, started>>
allVars == <<vars, hvars>>

\* So long ago that no answer may depend on it.
Never == 0 - (NumShards + 1)

HTypeOK ==
  /\ TypeOK
  /\ pass \in Nat
  /\ fullAt \in [MKeys -> Nat \cup {Never}]
  /\ started \in [Touchers -> Nat]

HInit ==
  /\ Init
  /\ pass = 0
  /\ fullAt = [k \in MKeys |-> Never]
  /\ started = [t \in Touchers |-> 0]

HTouchLookup(t, k) ==
  /\ TouchLookup(t, k)
  /\ started' = [started EXCEPT ![t] = pass]
  /\ UNCHANGED <<pass, fullAt>>

HTouchMark(t) ==
  /\ TouchMark(t)
  /\ fullAt' = IF Seen(t) THEN fullAt ELSE [fullAt EXCEPT ![tkey[t]] = pass]
  /\ started' = [started EXCEPT ![t] = 0]
  /\ UNCHANGED pass

HClearEnd ==
  /\ pass < MaxPass
  /\ ClearEnd
  /\ pass' = pass + 1
  /\ UNCHANGED <<fullAt, started>>

HSilent ==
  /\ \/ \E t \in Touchers : TouchFound(t) \/ TouchCreate(t)
     \/ ClearTick
     \/ \E o \in Orgs : ClearReset(o)
     \/ ClearLen
     \/ ClearDelete
  /\ UNCHANGED hvars

HNext ==
  \/ \E t \in Touchers, k \in MKeys : HTouchLookup(t, k)
  \/ \E t \in Touchers : HTouchMark(t)
  \/ HClearEnd
  \/ HSilent

HSpec == HInit /\ [][HNext]_allVars

-----------------------------------------------------------------------------

\* The keys of org o that the cache at c holds.
KeysIn(c, o) == {k \in MKeys : k.org = o /\ k.sub \in data[c][k.shard]}

\* A Touch about to answer "seen" began at most NumShards passes, that is one
\* clearInterval, after the last "not seen" answer for its key.  So a full
\* MetricData is asked for again after every clearInterval, also when the
\* call raced with clear and marks a cache that has left the map.
SeenIsFresh ==
  \A t \in Touchers :
    tpc[t] = "mark" /\ Seen(t) => started[t] - fullAt[tkey[t]] <= NumShards

RemovedMarksAreNew ==
  \A o \in Orgs :
    caches[o] # NoCache /\ caches'[o] # caches[o]
      => \A k \in KeysIn(caches[o], o) : fullAt[k] = pass

\* clear may remove a cache into which a key was put after its shard was
\* counted, but every key it forgets that way was answered "not seen" during
\* the very same pass: removal never drops an older mark.
RemovalDropsOnlyNewMarks == [][RemovedMarksAreNew]_allVars
=============================================================================
