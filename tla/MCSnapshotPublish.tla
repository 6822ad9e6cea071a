------------------------- MODULE MCSnapshotPublish -------------------------
(* Values for the model checker. *)
EXTENDS SnapshotPublish, TLC

Count(t, c) == [total |-> t, current |-> c]

\* A full crawl, one that kept its rows and lost its current fork, a gutted one.
CountsFullOrGutted == {Count(4, 4), Count(4, 1), Count(1, 1)}
CountsOne == {Count(1, 1)}

NetworkSymmetry == Permutations(Networks)

ForkAtThree == {3}
NoForks == {}
=============================================================================
