------------------------------- MODULE NodeSet -------------------------------
(***************************************************************************)
(* The crawler's table of nodes (internal/nodeset/nodeset.go).  Every      *)
(* operation runs under the table's lock and is one action here; who calls *)
(* them, and in which order, is left open: Next lets any caller do         *)
(* anything.  Module Fingerprint says what the crawler's goroutines do.    *)
(*                                                                         *)
(* Times are abstracted to what the code asks of them: whether fpNext lies *)
(* ahead (waiting), whether fpAt is older than fpRefreshAge (a choice when *)
(* a record is observed), whether a row is stale (a choice of PruneStale). *)
(* Of the score only its sign is kept (low: Score <= dropBelow); halving a *)
(* positive score may or may not bring it there.  Every endpoint has a     *)
(* port to dial and an address that passes the address policy.             *)
(***************************************************************************)
EXTENDS Integers, FiniteSets

CONSTANTS
  Ids, Endpoints, Nets,
  ELClients, CLClients,  \* client software, by layer
  None,                  \* no row, network, client, head or proof
  Records,               \* node records as extract reads them
  Max,                   \* max, the capacity of the table
  Batch,                 \* rows evicted at a time
  CandidateLimit,        \* maxLegacyCandidates
  MaxAttempts            \* bound: fpAttempts

Layers == {"el", "cl"}
ClientsOf(layer) == IF layer = "el" THEN ELClients ELSE CLClients
Clients == ELClients \cup CLClients

RecordType ==
  [seq: Nat, ep: Endpoints, layer: Layers \cup {"unknown"}, net: Nets \cup {None},
   client: Clients \cup {None}]

\* Node.  proof is history: for an identity that a claimed probe established,
\* the endpoint the row had when the probe was claimed.
RowType ==
  [seq: Nat, ep: Endpoints, enr: BOOLEAN, layer: Layers \cup {""}, net: Nets \cup {None},
   client: Clients \cup {None}, head: [layer: Layers, net: Nets] \cup {None},
   done: BOOLEAN, refreshDue: BOOLEAN, inFlight: BOOLEAN, refresh: BOOLEAN,
   attempts: Nat, waiting: BOOLEAN, low: BOOLEAN, pinned: BOOLEAN,
   proof: Endpoints \cup {None}]

ASSUME SetAssumption ==
  /\ IsFiniteSet(Ids) /\ Records \subseteq RecordType
  /\ Max \in Nat \ {0} /\ Batch \in Nat \ {0}
  /\ CandidateLimit \in Nat \ {0} /\ MaxAttempts \in Nat \ {0}
  /\ None \notin Endpoints \cup Nets \cup Clients \cup [layer: Layers, net: Nets]
  /\ None \notin RowType
  /\ ELClients \cap CLClients = {}

VARIABLES
  rows,       \* s.m: per id a row, or None
  candidates  \* s.candidates

setVars == <<rows, candidates>>

SetInit == rows = [id \in Ids |-> None] /\ candidates = 0

Present(rs) == {id \in Ids : rs[id] # None}

-----------------------------------------------------------------------------
(* The candidates counter *)

IsELCandidate(n) == n # None /\ n.layer = "el" /\ n.net = None

\* Mutant: leaving the candidates is not counted.
TrackedUp(was, is) == IF is /\ ~was THEN 1 ELSE 0

\* trackCandidateLocked
Tracked(was, is) == IF is /\ ~was THEN 1 ELSE IF was /\ ~is THEN -1 ELSE 0

\* The row of id becomes n and the rows of S go.
Update(id, n, S) ==
  /\ rows' = [u \in Ids |-> IF u = id THEN n ELSE IF u \in S THEN None ELSE rows[u]]
  /\ candidates' = candidates - Cardinality({u \in S : IsELCandidate(rows[u])})
                     + Tracked(IsELCandidate(rows[id]), IsELCandidate(n))

Deleted(S) ==
  /\ rows' = [u \in Ids |-> IF u \in S THEN None ELSE rows[u]]
  /\ candidates' = candidates - Cardinality({u \in S : IsELCandidate(rows[u])})

-----------------------------------------------------------------------------
(* Capacity *)

CapacityClass(n) ==
  IF n.done \/ n.pinned THEN 0
  ELSE IF n.low THEN 3
  ELSE IF n.net # None THEN 1 ELSE 2

\* evictForLocked: the sets of victims that make room for a record of this
\* class, all of the lowest class present.  Which rows of it go first depends
\* on scores and times.
Victims(class) ==
  LET lower == {u \in Present(rows) : CapacityClass(rows[u]) > class /\ ~rows[u].pinned}
      lowest == {u \in lower : \A w \in lower : CapacityClass(rows[w]) <= CapacityClass(rows[u])}
  IN {S \in SUBSET lowest : S # {} /\ Cardinality(S) <= Batch
                            /\ (S = lowest \/ Cardinality(S) = Batch)}

RoomFor(class) == IF Cardinality(Present(rows)) < Max THEN {{}} ELSE Victims(class)

-----------------------------------------------------------------------------
(* observe *)

\* clearFingerprintLocked
ClearFingerprint(n) ==
  [n EXCEPT !.client = None, !.done = FALSE, !.refreshDue = FALSE, !.attempts = 0,
            !.waiting = FALSE, !.refresh = @ \/ n.inFlight, !.proof = None]

\* Whether penalizeLocked drops the row when the score falls to dropBelow.
Droppable(n) == ~n.done /\ n.attempts = 0 /\ ~n.inFlight

\* The rows a sighting may leave (touchObservationLocked), None where the
\* penalty drops it.
Touched(n, fallback, pin) ==
  LET marked(m) == IF pin THEN [m EXCEPT !.low = FALSE, !.pinned = TRUE] ELSE m
      fallen == IF Droppable(n) THEN None ELSE marked([n EXCEPT !.low = TRUE])
  IN IF ~fallback THEN {marked([n EXCEPT !.low = FALSE])}
     ELSE IF n.pinned THEN {marked(n)}
     ELSE IF n.low THEN {fallen} ELSE {fallen, marked(n)}

\* The record under what its caller forces: nothing, or a network and perhaps
\* a layer.
Forced(rec, force) ==
  IF force = None THEN rec
  ELSE [rec EXCEPT !.net = force.net,
                   !.layer = IF force.layer # "" THEN force.layer
                             ELSE IF @ = "unknown" THEN "el" ELSE @]

\* fingerprintRefreshReasons
RecordChanged(n, e) ==
  e.ep # n.ep \/ (n.client # None /\ e.client # None /\ e.client # n.client)

MayExpire(n) == IF n.done /\ ~n.refreshDue THEN BOOLEAN ELSE {FALSE}

\* Mutant: a probe under way does not learn that its endpoint has moved.
RefreshedUnarmed(n, e, expired) ==
  IF ~(RecordChanged(n, e) \/ expired) THEN n
  ELSE [n EXCEPT !.refreshDue = @ \/ n.done,
                 !.client = IF n.done THEN @ ELSE None,
                 !.attempts = IF n.inFlight THEN @ ELSE 0,
                 !.waiting = @ /\ n.inFlight]

Refreshed(n, e, expired) ==
  IF ~(RecordChanged(n, e) \/ expired) THEN n
  ELSE [n EXCEPT !.refreshDue = @ \/ n.done,
                 !.client = IF n.done THEN @ ELSE None,
                 !.refresh = @ \/ (RecordChanged(n, e) /\ n.inFlight),
                 !.attempts = IF n.inFlight THEN @ ELSE 0,
                 !.waiting = @ /\ n.inFlight]

\* The row takes over the record e.
TakeOver(n, e) ==
  LET layered == e.layer # "unknown" /\ e.layer # n.layer
      m == IF layered /\ n.layer # "" THEN ClearFingerprint(n) ELSE n
  IN [m EXCEPT !.seq = e.seq, !.ep = e.ep, !.enr = TRUE,
               !.head = IF layered \/ (e.net # None /\ e.net # n.net) THEN None ELSE @,
               !.net = IF e.net # None THEN e.net ELSE @,
               !.layer = IF layered THEN e.layer ELSE @,
               !.client = IF @ = None THEN e.client ELSE @]

NewRow(e, low, pin) ==
  [seq |-> e.seq, ep |-> e.ep, enr |-> TRUE, layer |-> "", net |-> None, client |-> None,
   head |-> None, done |-> FALSE, refreshDue |-> FALSE, inFlight |-> FALSE,
   refresh |-> FALSE, attempts |-> 0, waiting |-> FALSE, low |-> low /\ ~pin,
   pinned |-> pin, proof |-> None]

\* A record of a known id that is newer than the row, or as new.
ObserveKnown(id, e, fallback, pin) ==
  /\ rows[id] # None /\ e.seq >= rows[id].seq
  /\ \E n \in Touched(rows[id], fallback, pin) \ {None}, expired \in MayExpire(rows[id]) :
       Update(id, TakeOver(Refreshed(n, e, expired), e), {})

ObserveNew(id, e, fallback, pin) ==
  /\ rows[id] = None
  /\ \E S \in RoomFor(IF pin THEN 0 ELSE IF fallback THEN 3 ELSE IF e.net # None THEN 1 ELSE 2) :
       Update(id, TakeOver(NewRow(e, fallback, pin), e), S)

\* The record becomes the row: Applied.
ObserveApplied(id, e, fallback, pin) ==
  ObserveKnown(id, e, fallback, pin) \/ ObserveNew(id, e, fallback, pin)

\* The sighting counts, and the record does not: it is older than the row, or
\* the penalty of a failed resolution drops the row.
ObserveStale(id, e, fallback, pin) ==
  /\ rows[id] # None
  /\ \E n \in Touched(rows[id], fallback, pin) :
       /\ n = None \/ e.seq < rows[id].seq
       /\ Update(id, n, {})

\* A new id while the table is full of rows as good: not Accepted.
ObserveRefused(id, e, fallback, pin) ==
  /\ rows[id] = None
  /\ RoomFor(IF pin THEN 0 ELSE IF fallback THEN 3 ELSE IF e.net # None THEN 1 ELSE 2) = {}
  /\ UNCHANGED setVars

\* ObserveAuthenticatedEL and CL after observe: an unsigned row keeps no ENR.
Stamp(id, layer, net) ==
  LET n == rows[id]
      applies == n # None /\ n.layer = layer /\ n.net = net
  IN /\ \/ rows' = [rows EXCEPT ![id] = IF applies /\ n.seq = 0 THEN [n EXCEPT !.enr = FALSE] ELSE n]
        \/ applies /\ UNCHANGED rows  \* a later Status has been stamped
     /\ UNCHANGED candidates

-----------------------------------------------------------------------------
(* Execution candidates *)

ObserveCandidateKnown(id, e) ==
  LET n == rows[id]
  IN /\ n # None
     /\ \E expired \in MayExpire(n) :
          rows' = [rows EXCEPT ![id] =
            IF IsELCandidate(n) /\ n.seq = 0 /\ ~n.enr
              THEN [n EXCEPT !.refreshDue = @ \/ expired, !.ep = e.ep,
                             !.refresh = @ \/ (RecordChanged(n, e) /\ n.inFlight)]
              ELSE [n EXCEPT !.refreshDue = @ \/ expired]]
     /\ UNCHANGED candidates

ObserveCandidateNew(id, e) ==
  /\ rows[id] = None
  /\ Cardinality(Present(rows)) < Max
  /\ candidates < CandidateLimit
  /\ Update(id, [NewRow(e, FALSE, FALSE) EXCEPT !.layer = "el", !.enr = FALSE], {})

\* Whether the cap leaves room for a layerless row.
Convertible(id) ==
  /\ rows[id] # None /\ rows[id].layer = ""
  /\ candidates < CandidateLimit \/ rows[id].net # None

SetExecutionCandidateLayer(id) ==
  Convertible(id) /\ Update(id, [rows[id] EXCEPT !.layer = "el"], {})

SetCandidateClient(id, client) ==
  /\ rows' = [rows EXCEPT ![id] = IF IsELCandidate(@) THEN [@ EXCEPT !.client = client] ELSE @]
  /\ UNCHANGED candidates

-----------------------------------------------------------------------------
(* Claims *)

\* fingerprintDue, fingerprintable
FingerprintDue(n) ==
  /\ n # None /\ n.layer \in Layers
  /\ ~n.done \/ n.refreshDue
  /\ ~n.inFlight /\ ~n.waiting

ClaimFingerprint(id) ==
  /\ FingerprintDue(rows[id])
  /\ rows[id].attempts < MaxAttempts
  /\ rows' = [rows EXCEPT ![id].attempts = @ + 1, ![id].inFlight = TRUE]
  /\ UNCHANGED candidates

\* The row after n's claim is given back.
Unclaimed(n) ==
  IF n = None \/ ~n.inFlight THEN n
  ELSE [n EXCEPT !.inFlight = FALSE, !.refresh = FALSE,
                 !.attempts = IF n.refresh \/ @ = 0 THEN 0 ELSE @ - 1]

UnclaimFingerprint(id) ==
  rows' = [rows EXCEPT ![id] = Unclaimed(@)] /\ UNCHANGED candidates

\* The row after a probe of it failed.
Failed(n) ==
  IF n = None THEN n
  ELSE IF n.done /\ ~n.refreshDue THEN [n EXCEPT !.inFlight = FALSE, !.refresh = FALSE]
  ELSE [n EXCEPT !.inFlight = FALSE, !.refresh = FALSE, !.waiting = ~n.refresh,
                 !.attempts = IF n.refresh THEN 0 ELSE @]

FingerprintFailed(id) ==
  rows' = [rows EXCEPT ![id] = Failed(@)] /\ UNCHANGED candidates

\* The row with an identity established.
Identified(n, client, proof) ==
  [n EXCEPT !.client = client, !.done = TRUE, !.refreshDue = FALSE, !.attempts = 0,
            !.waiting = FALSE, !.proof = proof]

\* Mutant: the layer is not looked at again under the lock.
SetFingerprintAnyLayer(id, layer, client) ==
  /\ rows' = [rows EXCEPT ![id] = IF @ # None THEN Identified(@, client, None) ELSE @]
  /\ UNCHANGED candidates

\* SetFingerprint: a result nobody claimed, from an inbound connection or a
\* probe on demand.  An outstanding claim stays with its owner.
SetFingerprint(id, layer, client) ==
  /\ rows' = [rows EXCEPT ![id] = IF @ # None /\ @.layer = layer
                                    THEN Identified(@, client, None) ELSE @]
  /\ UNCHANGED candidates

\* Whether setFingerprint discards the result of a claimed probe.
Discarded(n, layer) == n # None => (n.refresh \/ n.layer # layer)

SetClaimedFingerprint(id, layer, client, proof) ==
  /\ ~Discarded(rows[id], layer)
  /\ rows' = [rows EXCEPT ![id] = [Identified(@, client, proof) EXCEPT !.inFlight = FALSE]]
  /\ UNCHANGED candidates

DiscardClaimedFingerprint(id, layer) ==
  /\ Discarded(rows[id], layer)
  /\ rows' = [rows EXCEPT ![id] =
       IF @ = None THEN @
       ELSE [@ EXCEPT !.attempts = 0, !.inFlight = FALSE, !.refresh = FALSE, !.waiting = FALSE]]
  /\ UNCHANGED candidates

-----------------------------------------------------------------------------
(* Status *)

\* SetExecutionStatusAt and SetConsensusStatus, when they apply.  A repeated Status
\* for the same network may earn a sighting (creditStatusSightingLocked).
SetStatus(id, layer, net) ==
  /\ rows[id] # None /\ rows[id].layer = layer
  /\ \E low \in {rows[id].low, rows[id].low /\ rows[id].net # net} :
       Update(id, [rows[id] EXCEPT !.net = net, !.low = low,
                                   !.head = IF rows[id].net = net THEN @ ELSE None], {})

\* Mutant: the head is stored whatever the row has become.
SetHeadUnguarded(id, layer, net, known) ==
  /\ rows' = [rows EXCEPT ![id] =
       IF @ # None
         THEN [@ EXCEPT !.head = IF known THEN [layer |-> layer, net |-> net] ELSE None] ELSE @]
  /\ UNCHANGED candidates

\* SetHead: known unless the Status was of a version without a head.
SetHead(id, layer, net, known) ==
  /\ rows' = [rows EXCEPT ![id] =
       IF @ # None /\ @.layer = layer /\ @.net = net
         THEN [@ EXCEPT !.head = IF known THEN [layer |-> layer, net |-> net] ELSE None] ELSE @]
  /\ UNCHANGED candidates

-----------------------------------------------------------------------------
(* Time, penalties, restart *)

\* The time in fpNext comes.
RetryDue(id) ==
  /\ rows[id] # None /\ rows[id].waiting
  /\ rows' = [rows EXCEPT ![id].waiting = FALSE]
  /\ UNCHANGED candidates

Penalize(id) ==
  /\ rows[id] # None /\ ~rows[id].pinned
  /\ \E n \in Touched(rows[id], TRUE, FALSE) : Update(id, n, {})

\* PruneStaleWithVerified: S are the rows not seen for too long.
PruneStale(S) ==
  /\ S # {} /\ \A id \in S : rows[id] # None /\ ~rows[id].pinned
  /\ Deleted(S)

\* snapshotEligible; an unsigned row with one sighting is left out besides.
SnapshotEligible(n) ==
  /\ n # None /\ n.layer \in Layers /\ n.net # None
  /\ ~n.low \/ n.done \/ n.pinned

\* row: what a row is after it was written.
Written(n) ==
  [n EXCEPT !.inFlight = FALSE, !.refresh = FALSE,
            !.refreshDue = @ /\ n.done,
            !.attempts = IF n.inFlight /\ @ > 0 THEN @ - 1 ELSE @]

\* Ingest: a consensus row that holds an execution identity, as a release without
\* the guard of SetFingerprint may have written it, loses it.
Restored(n) ==
  IF n.layer = "cl" /\ n.done /\ n.client \in ELClients THEN ClearFingerprint(Written(n)) ELSE Written(n)

\* The process ends after a publish and starts with the rows S of it.
Restart(S) ==
  /\ \A id \in S : SnapshotEligible(rows[id])
  /\ rows' = [id \in Ids |-> IF id \in S THEN Restored(rows[id]) ELSE None]
  /\ candidates' = 0

-----------------------------------------------------------------------------

Observation(id, e, fallback, pin) ==
  \/ ObserveApplied(id, e, fallback, pin) \/ ObserveStale(id, e, fallback, pin)
  \/ ObserveRefused(id, e, fallback, pin)

ClaimStep(id) ==
  \/ ClaimFingerprint(id) \/ UnclaimFingerprint(id) \/ FingerprintFailed(id) \/ RetryDue(id)

ResultStep(id, layer) ==
  \/ \E client \in ClientsOf(layer) :
       \/ SetFingerprint(id, layer, client)
       \/ \E proof \in Endpoints \cup {None} : SetClaimedFingerprint(id, layer, client, proof)
       \/ layer = "el" /\ SetCandidateClient(id, client)
  \/ DiscardClaimedFingerprint(id, layer)
  \/ \E net \in Nets :
       \/ Stamp(id, layer, net) \/ SetStatus(id, layer, net)
       \/ \E known \in BOOLEAN : SetHead(id, layer, net, known)

\* ObserveResult, ObserveDevnetResult and their fallbacks, ObserveSeedResult,
\* ObserveAuthenticatedEL and CL.
Sighting(id, rec) ==
  \/ \E fallback \in BOOLEAN : Observation(id, rec, fallback, FALSE)
  \/ \E net \in Nets :
       LET e(layer) == Forced(rec, [net |-> net, layer |-> layer])
       IN \/ \E fallback \in BOOLEAN : Observation(id, e(""), fallback, FALSE)
          \/ Observation(id, e(""), FALSE, TRUE)
          \/ \E layer \in Layers : Observation(id, e(layer), FALSE, FALSE)

SetNext ==
  \/ \E id \in Ids :
       \/ \E rec \in Records :
            \/ Sighting(id, rec)
            \/ rec.seq = 0 /\ (ObserveCandidateKnown(id, rec) \/ ObserveCandidateNew(id, rec))
       \/ ClaimStep(id) \/ SetExecutionCandidateLayer(id) \/ Penalize(id)
       \/ \E layer \in Layers : ResultStep(id, layer)
  \/ \E S \in SUBSET Ids : PruneStale(S) \/ Restart(S)

SetSpec == SetInit /\ [][SetNext]_setVars

-----------------------------------------------------------------------------
(* Properties *)

\* Every row keeps its type and the table its capacity, although a full table
\* takes in rows by dropping others.
SetTypeOK ==
  /\ rows \in [Ids -> RowType \cup {None}]
  /\ candidates \in Int
  /\ Cardinality(Present(rows)) <= Max

\* "candidates counts retained unclassified execution candidates exactly": no
\* sequence of layer and network changes, evictions and deletions makes the
\* counter drift, on which the admission cap rests.
CandidatesExact == candidates = Cardinality({id \in Ids : IsELCandidate(rows[id])})

\* A head is one of the network and of the layer the row is published under,
\* although Status and head are applied in two steps with anything between.
HeadMatches ==
  \A id \in Present(rows) :
    rows[id].head # None => rows[id].head = [layer |-> rows[id].layer, net |-> rows[id].net]

\* A verified identity names software of the row's own layer, also when one
\* node key runs an execution and a consensus client.
IdentityOfLayer ==
  \A id \in Present(rows) :
    rows[id].done => rows[id].layer \in Layers /\ rows[id].client \in ClientsOf(rows[id].layer)
==============================================================================
