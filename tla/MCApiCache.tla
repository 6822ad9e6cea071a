------------------------------ MODULE MCApiCache ------------------------------
(* Values for the model checker. *)
EXTENDS ApiCache

NoRequest == 0
ThreeRequests == 1..3
\* /stats is checked with two requests, /map and /forks with three.
AllEndpoints ==
  {<<"stats", "stats", "absent">>, <<"stats", "totals", "absent">>,
   <<"totals", "stats", "absent">>, <<"map", "map", "map">>,
   <<"forks", "forks", "forks">>}
===============================================================================
