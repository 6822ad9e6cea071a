----------------------------- MODULE Fingerprint -----------------------------
(***************************************************************************)
(* The crawler's goroutines over the node set: resolve workers, the retry  *)
(* loop and the seed loop claim probes, pool workers carry them out and    *)
(* apply the results, inbound connections bring results nobody claimed     *)
(* (cmd/crawler/fingerprint.go, fingerprintpool.go, resolverpool.go,       *)
(* identities.go), and the probe server answers requests on demand         *)
(* (internal/probesrv).  A slot is one goroutine at work or one task in a  *)
(* queue; its steps are the sections under the node set's lock, and any    *)
(* other slot may act between them.                                        *)
(*                                                                         *)
(* What waits in pending and pendingLegacy (module ExpiringMap) is a       *)
(* connection that is applied later: Inbound and Visit may happen at any   *)
(* time, so the maps add no behaviour and are left out.  A claim may be    *)
(* turned down at any time: by the dial budget, by queue pressure, by a    *)
(* full or a closed queue.                                                 *)
(***************************************************************************)
EXTENDS NodeSet

CONSTANTS
  Slots,     \* goroutines and queued tasks
  Seeds,     \* ids of devnet seeds
  Devnet,    \* the network a seed is forced to
  Requests,  \* signed records that users ask to have probed
  Removals   \* whether rows go stale, resolutions fail and rows are penalised

\* stage: what comes next; rec: the record that was read; layer and net: as the
\* claim read them, then as the peer reported them; held: the endpoint of the
\* row when it was claimed (history).
Stages ==
  {"layerless", "found", "scanned", "claimed", "queued", "stamp", "complete", "release", "failing",
   "status", "head", "authenticate", "visitStamp", "visitHead", "identify", "hello", "greet",
   "requested", "demanded", "answer", "answerStale"}

FlowType ==
  [stage: Stages, id: Ids, rec: Records \cup {None}, layer: Layers \cup {""},
   net: Nets \cup {None}, held: Endpoints \cup {None}]

ASSUME FlowAssumption ==
  /\ Seeds \subseteq Ids /\ Devnet \in Nets /\ Removals \in BOOLEAN
  /\ Requests \subseteq {rec \in Records : rec.layer \in Layers}
  /\ None \notin FlowType

VARIABLES
  flow,  \* per slot: what it is doing, or None
  phase  \* of the process: see shutdown

fpVars == <<rows, candidates, flow, phase>>

\* The stages in which the slot owes the row the end of a claim.
Holding == {"claimed", "queued", "stamp", "complete", "release", "failing", "demanded"}

Flow(stage, id) ==
  [stage |-> stage, id |-> id, rec |-> None, layer |-> "", net |-> None, held |-> None]

FpInit == SetInit /\ flow = [s \in Slots |-> None] /\ phase = "running"

At(s, stage) == flow[s] # None /\ flow[s].stage = stage

\* Mutant: work is taken up after the shutdown.
FreeAlways(s) == flow[s] = None

\* A goroutine or a queue takes up work until shutdown has closed it.
Free(s) == flow[s] = None /\ phase # "closed"

Becomes(s, f) == flow' = [flow EXCEPT ![s] = f] /\ UNCHANGED phase
Ends(s) == Becomes(s, None)

-----------------------------------------------------------------------------
(* Finding work *)

\* cr.attempted: an id is resolved once in a window, which a resolver never
\* outlasts.
Attempted(id) ==
  \E s \in Slots : flow[s] # None /\ flow[s].id = id /\ flow[s].stage \in {"layerless", "found"}

\* resolve, up to the layer it reads after observing the record.
Resolve(s, id, rec, fallback) ==
  /\ Free(s) /\ ~Attempted(id) /\ rec.seq > 0 /\ (fallback => Removals)
  /\ \/ /\ ObserveApplied(id, rec, fallback, FALSE)
        /\ Becomes(s, [Flow(IF rows'[id].layer = "" THEN "layerless" ELSE "found", id)
                         EXCEPT !.rec = rec])
     \/ /\ ObserveStale(id, rec, fallback, FALSE)
        /\ Becomes(s, IF rows'[id] # None /\ rows'[id].layer = ""
                        THEN [Flow("layerless", id) EXCEPT !.rec = rec] ELSE None)
     \/ ObserveRefused(id, rec, fallback, FALSE) /\ Ends(s)

\* A record without a layer: it becomes an execution candidate, or is left to
\* a visit.
Convert(s) ==
  /\ At(s, "layerless")
  /\ LET id == flow[s].id
     IN \/ SetExecutionCandidateLayer(id) /\ Becomes(s, [flow[s] EXCEPT !.stage = "found"])
        \/ /\ ~Convertible(id) /\ UNCHANGED setVars
           /\ Becomes(s, IF rows[id] # None /\ rows[id].layer = "el"
                           THEN [flow[s] EXCEPT !.stage = "found"] ELSE None)

\* observeSeeds
ObserveSeed(s, id, rec) ==
  /\ Free(s) /\ id \in Seeds
  /\ LET e == Forced(rec, [net |-> Devnet, layer |-> ""])
     IN \/ ObserveApplied(id, e, FALSE, TRUE) /\ Becomes(s, [Flow("scanned", id) EXCEPT !.rec = rec])
        \/ ObserveStale(id, e, FALSE, TRUE) /\ Ends(s)
        \/ ObserveRefused(id, e, FALSE, TRUE) /\ Ends(s)

\* FingerprintCandidates, in the retry loop: the record is the one the row
\* holds at the time of the scan.
Scan(s, id, rec) ==
  /\ Free(s)
  /\ FingerprintDue(rows[id]) /\ rec.seq = rows[id].seq /\ rec.ep = rows[id].ep
  /\ Becomes(s, [Flow("scanned", id) EXCEPT !.rec = rec])
  /\ UNCHANGED setVars

\* retainCandidate: the retry loop dials what is retained.
RetainCandidate(id, rec) ==
  /\ phase # "closed" /\ rec.seq = 0
  /\ ObserveCandidateKnown(id, rec) \/ ObserveCandidateNew(id, rec)
  /\ UNCHANGED <<flow, phase>>

-----------------------------------------------------------------------------
(* enqueueFingerprint *)

\* No claim: the row is not due, or has no attempt left below the bound.
NotClaimed(id) == FingerprintDue(rows[id]) => rows[id].attempts >= MaxAttempts

Claim(s) ==
  /\ At(s, "found") \/ At(s, "scanned")
  /\ LET id == flow[s].id
     IN \/ /\ ClaimFingerprint(id)
           /\ Becomes(s, [flow[s] EXCEPT !.stage = "claimed", !.layer = rows[id].layer,
                                         !.net = rows[id].net, !.held = rows[id].ep])
        \/ NotClaimed(id) /\ UNCHANGED setVars /\ Ends(s)

\* Mutant: a claim that is turned down is not given back.
DeferKept(s) == At(s, "claimed") /\ UNCHANGED setVars /\ Ends(s)

Defer(s) == At(s, "claimed") /\ UnclaimFingerprint(flow[s].id) /\ Ends(s)

Enqueue(s) ==
  /\ At(s, "claimed")
  /\ Becomes(s, [flow[s] EXCEPT !.stage = "queued"])
  /\ UNCHANGED setVars

-----------------------------------------------------------------------------
(* The pool's workers *)

\* The probe was cancelled, or never dialled.
Cancel(s) == At(s, "queued") /\ phase # "running" /\ UnclaimFingerprint(flow[s].id) /\ Ends(s)

\* Whether the task is the Status probe of an unclassified candidate.
OfCandidate(s) == flow[s].layer = "el" /\ flow[s].net = None

\* finishFingerprint after the Hello: with a network if the Status exchange
\* completed, and without one if only the client is known.
ProbeIdentified(s, client, net) ==
  /\ At(s, "queued") /\ ~OfCandidate(s) /\ client \in ClientsOf(flow[s].layer)
  /\ \/ /\ SetClaimedFingerprint(flow[s].id, flow[s].layer, client, flow[s].held)
        /\ Becomes(s, IF net = None THEN None
                      ELSE [Flow("status", flow[s].id) EXCEPT !.layer = flow[s].layer, !.net = net])
     \/ DiscardClaimedFingerprint(flow[s].id, flow[s].layer) /\ Ends(s)

\* Mutant: a probe that failed is put back into the queue.
ProbeFailedRequeued(s) ==
  /\ At(s, "queued") /\ phase = "running"
  /\ UNCHANGED setVars /\ Becomes(s, [flow[s] EXCEPT !.stage = "claimed"])

\* finishFingerprint and finishCandidateFingerprint after a failure before the
\* Hello.
ProbeFailed(s) == At(s, "queued") /\ FingerprintFailed(flow[s].id) /\ Ends(s)

\* finishCandidateFingerprint: membership first.
CandidateStatus(s, net) ==
  /\ At(s, "queued") /\ OfCandidate(s)
  /\ LET e == Forced(flow[s].rec, [net |-> net, layer |-> "el"])
     IN \/ /\ ObserveApplied(flow[s].id, e, FALSE, FALSE)
           /\ Becomes(s, [flow[s] EXCEPT !.stage = "stamp", !.net = net])
        \/ /\ ObserveStale(flow[s].id, e, FALSE, FALSE) \/ ObserveRefused(flow[s].id, e, FALSE, FALSE)
           /\ Becomes(s, [flow[s] EXCEPT !.stage = "release"])

StampMembership(s) ==
  /\ At(s, "stamp")
  /\ Stamp(flow[s].id, "el", flow[s].net)
  /\ Becomes(s, [flow[s] EXCEPT !.stage = "complete"])

CandidateIdentified(s, client) ==
  /\ At(s, "complete")
  /\ \/ /\ SetClaimedFingerprint(flow[s].id, "el", client, flow[s].held)
        /\ Becomes(s, [Flow("head", flow[s].id) EXCEPT !.layer = "el", !.net = flow[s].net])
     \/ DiscardClaimedFingerprint(flow[s].id, "el") /\ Ends(s)

Release(s) == At(s, "release") /\ UnclaimFingerprint(flow[s].id) /\ Ends(s)

\* The Hello of a candidate named its client before the Status failed.
CandidateHello(s, client) ==
  /\ At(s, "queued") /\ OfCandidate(s)
  /\ SetCandidateClient(flow[s].id, client)
  /\ Becomes(s, [flow[s] EXCEPT !.stage = "failing"])

CandidateFailed(s) == At(s, "failing") /\ FingerprintFailed(flow[s].id) /\ Ends(s)

-----------------------------------------------------------------------------
(* Status, head, and results nobody claimed *)

\* applyStatus
ApplyStatus(s) ==
  /\ At(s, "status")
  /\ LET n == rows[flow[s].id]
     IN \/ /\ SetStatus(flow[s].id, flow[s].layer, flow[s].net)
           /\ Becomes(s, [flow[s] EXCEPT !.stage = "head"])
        \/ (n # None => n.layer # flow[s].layer) /\ UNCHANGED setVars /\ Ends(s)

ApplyHead(s, known) ==
  /\ At(s, "head")
  /\ SetHead(flow[s].id, flow[s].layer, flow[s].net, known) /\ Ends(s)

\* A peer authenticated by a legacy probe, or by an inbound connection while
\* its id has no layer: applyLegacyFingerprint, and its consensus counterpart.
Visit(s, id, rec, layer, net) ==
  /\ Free(s) /\ rec.layer = "unknown"
  /\ layer = "cl" /\ rows[id] # None => rows[id].layer = "" /\ rec.seq \in {0, rows[id].seq}
  /\ layer = "cl" /\ rows[id] = None => rec.seq = 0
  /\ Becomes(s, [Flow("authenticate", id) EXCEPT !.rec = rec, !.layer = layer, !.net = net])
  /\ UNCHANGED setVars

Authenticate(s) ==
  /\ At(s, "authenticate")
  /\ LET e == Forced(flow[s].rec, [net |-> flow[s].net, layer |-> flow[s].layer])
     IN \/ /\ ObserveApplied(flow[s].id, e, FALSE, FALSE)
           /\ Becomes(s, [flow[s] EXCEPT !.stage = "visitStamp", !.rec = None])
        \/ /\ ObserveStale(flow[s].id, e, FALSE, FALSE)
           /\ Becomes(s, [flow[s] EXCEPT !.stage = "identify", !.rec = None])
        \/ ObserveRefused(flow[s].id, e, FALSE, FALSE) /\ Ends(s)

VisitStamp(s) ==
  /\ At(s, "visitStamp")
  /\ Stamp(flow[s].id, flow[s].layer, flow[s].net)
  /\ Becomes(s, [flow[s] EXCEPT !.stage = "visitHead"])

VisitHead(s, known) ==
  /\ At(s, "visitHead")
  /\ SetHead(flow[s].id, flow[s].layer, flow[s].net, known)
  /\ Becomes(s, [flow[s] EXCEPT !.stage = "identify"])

VisitIdentified(s, client) ==
  /\ At(s, "identify") /\ client \in ClientsOf(flow[s].layer)
  /\ SetFingerprint(flow[s].id, flow[s].layer, client) /\ Ends(s)

\* applyInbound for a row of the connection's layer: the network read here
\* decides whether the result may verify the row.
Inbound(s, id, layer, net) ==
  /\ Free(s)
  /\ rows[id] # None /\ rows[id].layer = layer
  /\ Becomes(s, [Flow(IF layer = "el" /\ rows[id].net = None /\ net = None THEN "hello" ELSE "greet", id)
                   EXCEPT !.layer = layer, !.net = net])
  /\ UNCHANGED setVars

Hello(s, client) ==
  At(s, "hello") /\ SetCandidateClient(flow[s].id, client) /\ Ends(s)

Greet(s, client) ==
  /\ At(s, "greet") /\ client \in ClientsOf(flow[s].layer)
  /\ SetFingerprint(flow[s].id, flow[s].layer, client)
  /\ Becomes(s, IF flow[s].net = None THEN None ELSE [flow[s] EXCEPT !.stage = "status"])

-----------------------------------------------------------------------------
(* The probe server: handle, finishRegisteredProbe *)

Request(s, id, rec) ==
  /\ Free(s) /\ rec \in Requests
  /\ LET f(stage) == [Flow(stage, id) EXCEPT !.rec = rec, !.layer = rec.layer]
     IN \/ ObserveApplied(id, rec, FALSE, FALSE) /\ Becomes(s, f("requested"))
        \/ ObserveStale(id, rec, FALSE, FALSE) /\ Becomes(s, f("answerStale"))
        \/ ObserveRefused(id, rec, FALSE, FALSE) /\ Ends(s)

Demand(s) ==
  /\ At(s, "requested")
  /\ LET id == flow[s].id
     IN \/ /\ ClaimFingerprint(id)
           /\ Becomes(s, [flow[s] EXCEPT !.stage = "demanded", !.held = rows[id].ep])
        \/ NotClaimed(id) /\ UNCHANGED setVars /\ Becomes(s, [flow[s] EXCEPT !.stage = "answer"])

\* What follows an answer: an execution client is asked for no Status, of a
\* consensus client's only the head is taken.
Answered(s, net) ==
  Becomes(s, IF net = None THEN None
             ELSE [Flow("head", flow[s].id) EXCEPT !.layer = "cl", !.net = net])

Demanded(s, client, net) ==
  /\ At(s, "demanded") /\ client \in ClientsOf(flow[s].layer)
  /\ flow[s].layer = "el" => net = None
  /\ \/ /\ SetClaimedFingerprint(flow[s].id, flow[s].layer, client, flow[s].held)
        /\ Answered(s, net)
     \/ DiscardClaimedFingerprint(flow[s].id, flow[s].layer) /\ Ends(s)

DemandFailed(s) == At(s, "demanded") /\ FingerprintFailed(flow[s].id) /\ Ends(s)

AnswerUnclaimed(s, client, net) ==
  /\ At(s, "answer") \/ At(s, "answerStale")
  /\ client \in ClientsOf(flow[s].layer) /\ (flow[s].layer = "el" => net = None)
  /\ SetFingerprint(flow[s].id, flow[s].layer, client)
  /\ Answered(s, IF At(s, "answer") THEN net ELSE None)

\* The probe failed.
Unanswered(s) ==
  /\ At(s, "answer") \/ At(s, "answerStale")
  /\ UNCHANGED setVars /\ Ends(s)

-----------------------------------------------------------------------------
(* The rest of the system *)

RetryComes(id) == RetryDue(id) /\ UNCHANGED <<flow, phase>>

PenalizeUnresolved(id) ==
  Removals /\ phase # "closed" /\ Penalize(id) /\ UNCHANGED <<flow, phase>>

\* pruneStale of the publisher.
PrunePublished(S) == Removals /\ PruneStale(S) /\ UNCHANGED <<flow, phase>>

\* The context is cancelled.
Stop == phase = "running" /\ phase' = "cancelled" /\ UNCHANGED <<rows, candidates, flow>>

\* shutdown: resolvers, loops, probe server and listeners take up nothing new.
Close == phase = "cancelled" /\ phase' = "closed" /\ UNCHANGED <<rows, candidates, flow>>

\* The process ends after a publish, by a shutdown that waited for every slot
\* or by a crash, and the next one starts from what was published.
RestartProcess(S) ==
  /\ phase = "closed" => \A s \in Slots : flow[s] = None
  /\ Restart(S)
  /\ phase' = "running" /\ flow' = [s \in Slots |-> None]

-----------------------------------------------------------------------------

\* A slot begins something.
Begin(s) ==
  \E id \in Ids :
    \/ \E rec \in Records :
         \/ \E fallback \in BOOLEAN : Resolve(s, id, rec, fallback)
         \/ Scan(s, id, rec)
         \/ ObserveSeed(s, id, rec) \/ Request(s, id, rec)
         \/ \E net \in Nets, layer \in Layers : Visit(s, id, rec, layer, net)
    \/ \E layer \in Layers, net \in Nets \cup {None} : Inbound(s, id, layer, net)

\* A slot goes on.
Continue(s) ==
  \/ Convert(s) \/ Claim(s) \/ Defer(s) \/ Enqueue(s) \/ Cancel(s)
  \/ ProbeFailed(s) \/ StampMembership(s) \/ Release(s) \/ CandidateFailed(s)
  \/ ApplyStatus(s) \/ Authenticate(s) \/ VisitStamp(s)
  \/ Demand(s) \/ DemandFailed(s) \/ Unanswered(s)
  \/ \E net \in Nets : CandidateStatus(s, net)
  \/ \E known \in BOOLEAN : ApplyHead(s, known) \/ VisitHead(s, known)
  \/ \E client \in Clients :
       \/ \E net \in Nets \cup {None} :
            ProbeIdentified(s, client, net) \/ Demanded(s, client, net)
              \/ AnswerUnclaimed(s, client, net)
       \/ VisitIdentified(s, client) \/ Greet(s, client)
  \/ \E client \in ELClients :
       CandidateIdentified(s, client) \/ CandidateHello(s, client) \/ Hello(s, client)

Environment ==
  \/ \E id \in Ids :
       \/ \E rec \in Records : RetainCandidate(id, rec)
       \/ RetryComes(id) \/ PenalizeUnresolved(id)
  \/ \E S \in SUBSET Ids : PrunePublished(S) \/ RestartProcess(S)
  \/ Stop \/ Close

FpNext == Environment \/ \E s \in Slots : Begin(s) \/ Continue(s)

\* Goroutines run, every probe ends by its timeouts, and shutdown goes on.
FpSpec ==
  FpInit /\ [][FpNext]_fpVars /\ WF_fpVars(Close) /\ \A s \in Slots : WF_fpVars(Continue(s))

-----------------------------------------------------------------------------
(* Properties *)

Holders(id) == {s \in Slots : flow[s] # None /\ flow[s].id = id /\ flow[s].stage \in Holding}

\* ClaimFingerprintAt "atomically reserves a due probe": a row is in flight exactly
\* as long as one goroutine or queued task is there that will end its claim.  A
\* second one would probe the node twice; a claim that is lost on an early return,
\* a discarded result or a shutdown would keep the row from being probed again.
ClaimHasOneOwner ==
  \A id \in Ids :
    Cardinality(Holders(id)) = IF rows[id] # None /\ rows[id].inFlight THEN 1 ELSE 0

Fresh(n) == n # None /\ n.done /\ ~n.refreshDue /\ n.proof # None

\* SetClaimedFingerprint: a result "is discarded when the record changed after
\* the claim", so a fresh identity was established while the row had the
\* endpoint it has.
VerifiedSinceClaim == \A id \in Ids : Fresh(rows[id]) => rows[id].proof = rows[id].ep

\* Every probe of a row comes back.
ProbesReturn ==
  \A id \in Ids : (rows[id] # None /\ rows[id].inFlight) ~> (rows[id] = None \/ ~rows[id].inFlight)

\* A cancelled crawler comes to rest, every claim given back.
ShutsDown ==
  phase = "cancelled" ~> (\A s \in Slots : flow[s] = None) /\ (\A id \in Present(rows) : ~rows[id].inFlight)
==============================================================================
