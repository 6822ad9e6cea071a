--------------------------- MODULE MCTreeSelection ---------------------------
(* The selection on small lists of candidates. *)
EXTENDS TreeSelection
==============================================================================
