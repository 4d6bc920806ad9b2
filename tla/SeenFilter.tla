----------------------------- MODULE SeenFilter -----------------------------
(***************************************************************************)
(* What the publisher may rely on when it asks the key cache about a key:  *)
(* "seen" is answered only for a key it was asked about before.  The cache *)
(* may forget any keys at any time, and may forget a key it is being asked *)
(* about, so "not seen" may be answered at any time.                       *)
(***************************************************************************)
CONSTANTS Keys, NoAnswer

VARIABLES
  seen,    \* keys the cache has been asked about and may remember
  answer   \* the last question and its answer

\* The effect on seen of answering ok for key k.
Answer(k, ok) ==
  /\ ok => k \in seen
  /\ seen' \in SUBSET (seen \cup {k})

Touch(k, ok) == Answer(k, ok) /\ answer' = <<k, ok>>

Forget == seen' \in SUBSET seen

Init == seen = {} /\ answer = NoAnswer

Next ==
  \/ \E k \in Keys, ok \in BOOLEAN : Touch(k, ok)
  \/ Forget /\ UNCHANGED answer

Spec == Init /\ [][Next]_<<seen, answer>>
=============================================================================
