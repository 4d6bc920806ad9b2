----------------------------- MODULE MCGcomCache -----------------------------
(* GcomCache for TLC, with the symmetries of its model values. *)
EXTENDS GcomCache, TLC

Symmetry == Permutations(Callers) \cup Permutations(Keys)
=============================================================================
