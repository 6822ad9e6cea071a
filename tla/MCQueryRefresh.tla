--------------------------- MODULE MCQueryRefresh ---------------------------
(* Values for the model checker. *)
EXTENDS QueryRefresh

CountsOne == {[total |-> 1, current |-> 1]}
NoForks == {}
=============================================================================
