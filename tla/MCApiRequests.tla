--------------------------- MODULE MCApiRequests ---------------------------
(* Requests, accounts and configurations for model checking ApiRequests. *)
EXTENDS ApiRequests, TLC

MCConfigs == {[plugin |-> "file", enforceRoles |-> TRUE, limited |-> TRUE],
              [plugin |-> "grafana", enforceRoles |-> TRUE, limited |-> FALSE],
              [plugin |-> "grafana-instance", enforceRoles |-> FALSE, limited |-> TRUE]}

\* Key 10 is the admin key; 11 an admin's, 12 a publisher's, 13 a viewer's.
MCAccounts == 11 :> [org |-> 3, admin |-> TRUE, publisher |-> TRUE]
           @@ 12 :> [org |-> 2, admin |-> FALSE, publisher |-> TRUE]
           @@ 13 :> [org |-> 2, admin |-> FALSE, publisher |-> FALSE]

MCInstanceMap == 7 :> 2 @@ 8 :> 3

Query(name, key, header, route, from, to, until) ==
  [name |-> name, key |-> key, header |-> header, route |-> route, from |-> from, to |-> to, until |-> until]

\* Time is less than 16 and a range at most 3 long: the default range, one that
\* fits, one that is too long, one that is reversed, one that wraps around, and
\* one that does not parse.
MCInputs ==
  {Query(0, 10, 5, "metrictank", Absent, Absent, Absent),
   Query(7, 10, 0, "find", Absent, Absent, Absent),
   Query(0, 11, 6, "render", Absent, Absent, Absent),
   Query(8, 11, 0, "render", 9, 12, Absent),
   Query(0, 12, 5, "render", 3, 9, Absent),
   Query(7, 12, 0, "render", 12, Absent, 9),
   Query(8, 12, 0, "render", 15, 1, Absent),
   Query(0, 13, 0, "find", Absent, Absent, Absent),
   Query(7, 13, 0, "render", Garbled, 9, Absent),
   Query(0, 0, 0, "render", Absent, Absent, Absent)}
=============================================================================
