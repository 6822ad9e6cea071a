--------------------------- MODULE MCDialAdmission ---------------------------
(* Values for the model checker. *)
EXTENDS DialAdmission, TLC

\* Nodes are alike, and so are workers.
DialSymmetry == Permutations(Ids) \cup Permutations(Workers)

\* Everything but granted, a history that none of the run's properties reads.
DialView == <<clock, entries, expiry, seq, answer, use, dialVars>>
==============================================================================
