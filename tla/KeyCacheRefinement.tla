------------------------- MODULE KeyCacheRefinement -------------------------
(***************************************************************************)
(* The key cache, with its shards, locks and clearing goroutine, is the    *)
(* SeenFilter that the publisher is specified against.                     *)
(***************************************************************************)
EXTENDS KeyCache

CONSTANT NoAnswer

VARIABLE answer  \* what the last Touch returned, and for which key

rvars == <<vars, answer>>

RInit == Init /\ answer = NoAnswer

RTouchMark(t) == TouchMark(t) /\ answer' = <<tkey[t], Seen(t)>>

RSilent ==
  /\ \/ \E t \in Touchers, k \in MKeys : TouchLookup(t, k)
     \/ \E t \in Touchers : TouchFound(t) \/ TouchCreate(t)
     \/ ClearStep
  /\ UNCHANGED answer

RNext == (\E t \in Touchers : RTouchMark(t)) \/ RSilent

RSpec == RInit /\ [][RNext]_rvars

RFairSpec == RSpec /\ Fairness

\* A key is remembered if it is in its org's cache, or in a cache that a call
\* on behalf of the org still holds.
Remembered ==
  {k \in MKeys : \/ caches[k.org] # NoCache /\ k.sub \in data[caches[k.org]][k.shard]
                 \/ \E t \in Touchers : /\ tpc[t] = "mark" /\ tkey[t].org = k.org
                                        /\ k.sub \in data[tcache[t]][k.shard]}

SF == INSTANCE SeenFilter WITH Keys <- MKeys, seen <- Remembered

\* KeyCache implements SeenFilter: in every interleaving of Touch and clear,
\* "seen" is answered only for a key of the same org that was touched before.
ImplementsSeenFilter == SF!Spec
=============================================================================
