----------------------------- MODULE MCLifecycle -----------------------------
(* An execution and a consensus identity, or the latter alone. *)
EXTENDS Lifecycle

CONSTANTS el, cl

Both == <<el, cl>>
JustConsensus == <<cl>>
OfConsensus == {cl}
==============================================================================
