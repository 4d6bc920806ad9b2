-------------------------- MODULE MCKeyCacheHistory --------------------------
(* KeyCacheHistory for TLC, with the symmetries of its model values. *)
EXTENDS KeyCacheHistory, TLC

Symmetry == Permutations(Orgs) \cup Permutations(CacheIds) \cup Permutations(Touchers)
=============================================================================
