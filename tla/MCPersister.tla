---------------------------- MODULE MCPersister ----------------------------
(* Payloads for model checking Persister. *)
EXTENDS Persister, TLC

CONSTANT Large  \* the payload that makes more metrics than the buffer holds

\* One payload makes a single metric, the other three.
Gohais == [v \in Payloads |-> [decodes |-> v = Large, filesystems |-> 0]]

Symmetry == Permutations(Handlers)
=============================================================================
