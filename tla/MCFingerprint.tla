---------------------------- MODULE MCFingerprint ----------------------------
(* Values for the model checker. *)
EXTENDS Fingerprint, TLC

Record(seq, ep, layer, net) ==
  [seq |-> seq, ep |-> ep, layer |-> layer, net |-> net, client |-> None]

CONSTANTS e1, e2, n1

\* A node whose signed record moves to another endpoint.
Moving == {Record(1, e1, "el", n1), Record(2, e2, "el", n1)}

\* All at once.
Everything ==
  {Record(0, e1, "unknown", None), Record(0, e2, "unknown", None), Record(1, e1, "el", n1),
   Record(1, e2, "unknown", None), Record(2, e2, "cl", n1)}

\* The records a user may submit.
Signed == {rec \in Records : rec.seq > 0 /\ rec.layer \in Layers}

\* The probe server is off.
Nobody == {}

SlotSymmetry == Permutations(Slots)
==============================================================================
