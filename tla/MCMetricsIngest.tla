-------------------------- MODULE MCMetricsIngest --------------------------
(* Senders and bodies for model checking MetricsIngest. *)
EXTENDS MetricsIngest

MCSenders == {[org |-> 1, admin |-> FALSE, publisher |-> TRUE],
              [org |-> 2, admin |-> TRUE, publisher |-> TRUE],
              [org |-> 1, admin |-> FALSE, publisher |-> FALSE]}

Ok == [org |-> 2, err |-> NoError]
Bad(e) == [org |-> 2, err |-> e]

\* More invalid metrics than examples.
AllBad == <<Bad("time")>> \o [i \in 1 .. 11 |-> Bad("name")]

\* With a burst of 2: nothing to publish, the burst, and too much.
MCBodies == {AllBad, <<Ok, Bad("name"), Ok>>, <<Ok, Ok, Ok>>}
=============================================================================
