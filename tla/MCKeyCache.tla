----------------------------- MODULE MCKeyCache -----------------------------
(* The key cache and what it implements, for TLC. *)
EXTENDS KeyCacheRefinement
=============================================================================
