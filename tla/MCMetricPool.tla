---------------------------- MODULE MCMetricPool ----------------------------
(* Requests for model checking MetricPool. *)
EXTENDS MetricPool

Put2 == [kind |-> "opentsdb", series |-> <<[tags |-> <<2, 1>>, samples |-> 1], [tags |-> <<>>, samples |-> 1]>>]
Put1 == [kind |-> "opentsdb", series |-> <<[tags |-> <<4>>, samples |-> 1]>>]
Write == [kind |-> "prometheus", series |-> <<[tags |-> <<7, 6, 5>>, samples |-> 2]>>]
Bare == [kind |-> "prometheus", series |-> <<[tags |-> <<>>, samples |-> 1]>>]
Points == [kind |-> "series", series |-> <<[tags |-> <<9, 8>>, samples |-> 2]>>]
Checks == [kind |-> "check", series |-> <<[tags |-> <<8>>, samples |-> 1]>>]

\* Tags that fill their array, tags that leave spare cells, and no tags.
MCRequests == {Put2, Put1, Write, Bare, Points, Checks}

Symmetry == Permutations(Handlers)
=============================================================================
