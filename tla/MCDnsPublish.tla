---------------------------- MODULE MCDnsPublish ----------------------------
(* Values for the model checker. *)
EXTENDS DnsPublish

Pick(n, es) == [nodes |-> n, entries |-> es]

BothCapabilities == <<"all", "snap">>

\* A full selection and a collapsed one, of other entries.
PicksTwo == {Pick(4, {"a"}), Pick(1, {"b"})}

ForkAtTwo == {2}
=============================================================================
