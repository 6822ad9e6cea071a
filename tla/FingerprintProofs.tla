-------------------------- MODULE FingerprintProofs --------------------------
(***************************************************************************)
(* What the table of nodes keeps, for any number of nodes, networks,       *)
(* clients and callers (sections 1 to 4): the counter of candidates, the   *)
(* heads and identities of the rows, and the capacity.  A row is good if   *)
(* it has its type, its head is of its own network and layer, and a        *)
(* verified identity is of its layer.  Every operation makes good rows of  *)
(* good rows, and whoever changes a row accounts for it in the counter.    *)
(*                                                                         *)
(* What the crawler's goroutines keep, for any number of them.  Whatever   *)
(* they do is an operation of the node set (section 5), so that what is    *)
(* shown of it holds in the crawler.  A claim is never lost; while no row  *)
(* is removed, it has one owner, and its result is applied to the endpoint *)
(* that was probed (section 9).  For that every step is of one of four     *)
(* kinds: a quiet one, the beginning or the end of a claim, or a restart   *)
(* (sections 6 to 8).                                                      *)
(***************************************************************************)
EXTENDS Fingerprint, FiniteSetTheorems, TLAPS

Good ==
  {n \in RowType :
     /\ n.head # None => n.head = [layer |-> n.layer, net |-> n.net]
     /\ n.done => n.layer \in Layers /\ n.client \in ClientsOf(n.layer)}

RowsOK == rows \in [Ids -> Good \cup {None}]

InCapacity == Cardinality(Present(rows)) <= Max

SetInv == RowsOK /\ CandidatesExact /\ InCapacity

\* m is a good row that is a candidate if n is.
Alike(m, n) == m \in Good /\ m.layer = n.layer /\ m.net = n.net

-----------------------------------------------------------------------------
(* 1. Rows *)

\* A row whose network, layer and head stay, and whose identity stays or goes.
LEMMA AlikeIf ==
  ASSUME NEW n \in Good, NEW m \in RowType, m.layer = n.layer, m.net = n.net, m.head = n.head,
         m.done => n.done /\ m.client = n.client
  PROVE  Alike(m, n)
  BY DEF Alike, Good

\* clearFingerprintLocked leaves a row without an identity.
LEMMA ClearFingerprintGood ==
  ASSUME NEW n \in Good
  PROVE  /\ Alike(ClearFingerprint(n), n)
         /\ ~ClearFingerprint(n).done /\ ClearFingerprint(n).head = n.head
<1> n \in RowType
  BY DEF Good
<1>1. ASSUME NEW r \in BOOLEAN
      PROVE  [n EXCEPT !.client = None, !.done = FALSE, !.refreshDue = FALSE, !.attempts = 0,
                       !.waiting = FALSE, !.refresh = r, !.proof = None] \in RowType
  BY DEF RowType
<1>2. (n.refresh \/ n.inFlight) \in BOOLEAN
  BY DEF RowType
<1>3. ClearFingerprint(n) \in RowType
  BY <1>1, <1>2 DEF ClearFingerprint
<1>4. LET m == ClearFingerprint(n)
      IN  m.done = FALSE /\ m.layer = n.layer /\ m.net = n.net /\ m.head = n.head
  BY DEF RowType, ClearFingerprint
<1> QED
  BY <1>3, <1>4, AlikeIf

\* touchObservationLocked changes the score, or drops the row.
LEMMA TouchedGood ==
  ASSUME NEW n \in Good, NEW fallback \in BOOLEAN, NEW pin \in BOOLEAN,
         NEW m \in Touched(n, fallback, pin), m # None
  PROVE  Alike(m, n)
<1> DEFINE mark(x) == [x EXCEPT !.low = FALSE, !.pinned = TRUE]
           scored(b) == [n EXCEPT !.low = b]
<1>1. ASSUME NEW x \in Good
      PROVE  Alike(mark(x), x)
  <2>1. x \in RowType
    BY DEF Good
  <2>2. mark(x) \in RowType
    BY <2>1 DEF RowType
  <2>3. /\ mark(x).layer = x.layer /\ mark(x).net = x.net /\ mark(x).head = x.head
        /\ mark(x).done = x.done /\ mark(x).client = x.client
    BY <2>1 DEF RowType
  <2> QED
    BY <2>2, <2>3, AlikeIf
<1>2. ASSUME NEW b \in BOOLEAN
      PROVE  Alike(scored(b), n)
  BY DEF Alike, Good, RowType
<1>3. Alike(n, n)
  BY DEF Alike
<1>4. \/ m = n \/ m = mark(n)
      \/ \E b \in BOOLEAN : m = scored(b) \/ m = mark(scored(b))
  BY DEF Touched
<1> HIDE DEF mark, scored
<1> QED
  BY <1>1, <1>2, <1>3, <1>4 DEF Alike

\* A changed record schedules another probe.
LEMMA RefreshedGood ==
  ASSUME NEW n \in Good, NEW e \in RecordType, NEW expired \in BOOLEAN
  PROVE  Alike(Refreshed(n, e, expired), n)
<1> n \in RowType
  BY DEF Good
<1>1. ASSUME NEW q \in BOOLEAN, NEW r \in BOOLEAN, NEW w \in BOOLEAN, NEW c \in Clients \cup {None}, NEW a \in Nat
      PROVE  [n EXCEPT !.refreshDue = q, !.client = c, !.refresh = r, !.attempts = a, !.waiting = w] \in RowType
  BY DEF RowType
<1>2. /\ (n.refreshDue \/ n.done) \in BOOLEAN
      /\ (n.refresh \/ (RecordChanged(n, e) /\ n.inFlight)) \in BOOLEAN
      /\ (n.waiting /\ n.inFlight) \in BOOLEAN
      /\ (IF n.done THEN n.client ELSE None) \in Clients \cup {None}
      /\ (IF n.inFlight THEN n.attempts ELSE 0) \in Nat
  BY DEF RowType
<1>3. Refreshed(n, e, expired) \in RowType
  BY <1>1, <1>2, ZenonT(60) DEF Refreshed
<1>4. LET m == Refreshed(n, e, expired)
      IN  /\ m.layer = n.layer /\ m.net = n.net /\ m.head = n.head
          /\ m.done = n.done /\ (n.done => m.client = n.client)
  BY DEF RowType, Refreshed
<1> QED
  BY <1>3, <1>4, AlikeIf

\* The row of a record that was observed: an identity and a head go with the
\* layer, a head with the network.
LEMMA TakeOverGood ==
  ASSUME NEW n \in Good, NEW e \in RecordType
  PROVE  TakeOver(n, e) \in Good
<1> DEFINE layered == e.layer # "unknown" /\ e.layer # n.layer
           m == IF layered /\ n.layer # "" THEN ClearFingerprint(n) ELSE n
           head == IF layered \/ (e.net # None /\ e.net # n.net) THEN None ELSE m.head
           net == IF e.net # None THEN e.net ELSE m.net
           layer == IF layered THEN e.layer ELSE m.layer
           client == IF m.client = None THEN e.client ELSE m.client
           o == TakeOver(n, e)
<1> n \in RowType
  BY DEF Good
<1>1. /\ m \in Good /\ m.layer = n.layer /\ m.net = n.net /\ m.head = n.head
      /\ layered => ~m.done
  <2>1. n.layer = "" => ~n.done
    BY DEF Good, Layers
  <2> QED
    BY <2>1, ClearFingerprintGood DEF Alike
<1>2. m \in RowType
  BY <1>1 DEF Good
<1>3. TakeOver(n, e) = [m EXCEPT !.seq = e.seq, !.ep = e.ep, !.enr = TRUE, !.head = head,
                                 !.net = net, !.layer = layer, !.client = client]
  BY DEF TakeOver
<1>4. /\ head \in [layer: Layers, net: Nets] \cup {None} /\ net \in Nets \cup {None}
      /\ layer \in Layers \cup {""} /\ client \in Clients \cup {None}
      /\ e.seq \in Nat /\ e.ep \in Endpoints
  BY <1>2 DEF RowType, RecordType
<1>5. /\ head # None => head = [layer |-> layer, net |-> net]
      /\ m.done => layer \in Layers /\ client \in ClientsOf(layer)
  <2>1. head # None => head = [layer |-> layer, net |-> net]
    BY <1>1, <1>2 DEF Good, RowType
  <2>2. ASSUME m.done
        PROVE  layer \in Layers /\ client \in ClientsOf(layer)
    BY <1>1, <2>2, SetAssumption DEF Good, ClientsOf, Clients
  <2> QED
    BY <2>1, <2>2
<1> HIDE DEF m, head, net, layer, client
<1>6. o \in RowType
  BY <1>2, <1>3, <1>4, ZenonT(60) DEF RowType
<1>7. o.head = head /\ o.net = net /\ o.layer = layer /\ o.client = client /\ o.done = m.done
  BY <1>2, <1>3 DEF RowType
<1> HIDE DEF o
<1>8. o \in Good
  BY <1>5, <1>6, <1>7 DEF Good
<1> QED
  BY <1>8 DEF o

LEMMA NewRowGood ==
  ASSUME NEW e \in RecordType, NEW low \in BOOLEAN, NEW pin \in BOOLEAN
  PROVE  /\ NewRow(e, low, pin) \in Good
         /\ [NewRow(e, low, pin) EXCEPT !.layer = "el", !.enr = FALSE] \in Good
  BY DEF NewRow, Good, RowType, RecordType, Layers

\* An identity of the layer of the row.
LEMMA IdentifiedGood ==
  ASSUME NEW n \in Good, n.layer \in Layers, NEW client \in ClientsOf(n.layer),
         NEW proof \in Endpoints \cup {None}
  PROVE  /\ Alike(Identified(n, client, proof), n)
         /\ Alike([Identified(n, client, proof) EXCEPT !.inFlight = FALSE], n)
<1> n \in RowType /\ client \in Clients
  BY DEF Good, ClientsOf, Clients
<1> DEFINE m == Identified(n, client, proof)
           o == [m EXCEPT !.inFlight = FALSE]
<1>1. m \in RowType
  BY DEF Identified, RowType
<1>2. m.layer = n.layer /\ m.net = n.net /\ m.head = n.head /\ m.client = client
  BY DEF Identified, RowType
<1> HIDE DEF m
<1>3. o \in RowType
  BY <1>1 DEF RowType
<1>4. o.layer = n.layer /\ o.net = n.net /\ o.head = n.head /\ o.client = client
  BY <1>1, <1>2 DEF RowType
<1> HIDE DEF o
<1>5. Alike(m, n) /\ Alike(o, n)
  BY <1>1, <1>2, <1>3, <1>4 DEF Alike, Good
<1> QED
  BY <1>5 DEF m, o

\* A claim given back.
LEMMA UnclaimedGood ==
  ASSUME NEW n \in Good
  PROVE  Alike(Unclaimed(n), n)
<1> n \in RowType
  BY DEF Good
<1>1. ASSUME NEW a \in Nat
      PROVE  Alike([n EXCEPT !.inFlight = FALSE, !.refresh = FALSE, !.attempts = a], n)
  <2> DEFINE m == [n EXCEPT !.inFlight = FALSE, !.refresh = FALSE, !.attempts = a]
  <2>1. m \in RowType
    BY DEF RowType
  <2>2. /\ m.layer = n.layer /\ m.net = n.net /\ m.head = n.head
        /\ m.done = n.done /\ m.client = n.client
    BY DEF RowType
  <2> QED
    BY <2>1, <2>2, AlikeIf
<1>2. (IF n.refresh \/ n.attempts = 0 THEN 0 ELSE n.attempts - 1) \in Nat
  <2>1. n.attempts \in Nat
    BY DEF RowType
  <2>2. n.attempts # 0 => n.attempts - 1 \in Nat
    BY <2>1
  <2> QED
    BY <2>2
<1>3. Alike(n, n)
  BY DEF Alike
<1> QED
  BY <1>1, <1>2, <1>3 DEF Unclaimed

\* A probe that failed.
LEMMA FailedGood ==
  ASSUME NEW n \in Good
  PROVE  Alike(Failed(n), n)
<1> n \in RowType
  BY DEF Good
<1>1. ASSUME NEW w \in BOOLEAN, NEW a \in Nat
      PROVE  Alike([n EXCEPT !.inFlight = FALSE, !.refresh = FALSE, !.waiting = w, !.attempts = a], n)
  <2> DEFINE m == [n EXCEPT !.inFlight = FALSE, !.refresh = FALSE, !.waiting = w, !.attempts = a]
  <2>1. m \in RowType
    BY DEF RowType
  <2>2. /\ m.layer = n.layer /\ m.net = n.net /\ m.head = n.head
        /\ m.done = n.done /\ m.client = n.client
    BY DEF RowType
  <2> QED
    BY <2>1, <2>2, AlikeIf
<1>2. Alike([n EXCEPT !.inFlight = FALSE, !.refresh = FALSE], n)
  <2> DEFINE m == [n EXCEPT !.inFlight = FALSE, !.refresh = FALSE]
  <2>1. m \in RowType
    BY DEF RowType
  <2>2. /\ m.layer = n.layer /\ m.net = n.net /\ m.head = n.head
        /\ m.done = n.done /\ m.client = n.client
    BY DEF RowType
  <2> QED
    BY <2>1, <2>2, AlikeIf
<1>3. (~n.refresh) \in BOOLEAN
  BY DEF RowType
<1>4. (IF n.refresh THEN 0 ELSE n.attempts) \in Nat
  <2>1. n.attempts \in Nat
    BY DEF RowType
  <2> QED
    BY <2>1
<1>5. Alike(n, n)
  BY DEF Alike
<1> QED
  BY <1>1, <1>2, <1>3, <1>4, <1>5 DEF Failed

\* A row that was written and read back.
LEMMA RestoredGood ==
  ASSUME NEW n \in Good
  PROVE  Alike(Restored(n), n)
<1> n \in RowType
  BY DEF Good
<1>1. ASSUME NEW q \in BOOLEAN, NEW a \in Nat
      PROVE  Alike([n EXCEPT !.inFlight = FALSE, !.refresh = FALSE, !.refreshDue = q, !.attempts = a], n)
  <2> DEFINE m == [n EXCEPT !.inFlight = FALSE, !.refresh = FALSE, !.refreshDue = q, !.attempts = a]
  <2>1. m \in RowType
    BY DEF RowType
  <2>2. /\ m.layer = n.layer /\ m.net = n.net /\ m.head = n.head
        /\ m.done = n.done /\ m.client = n.client
    BY DEF RowType
  <2> QED
    BY <2>1, <2>2, AlikeIf
<1>2. (n.refreshDue /\ n.done) \in BOOLEAN
  BY DEF RowType
<1>3. (IF n.inFlight /\ n.attempts > 0 THEN n.attempts - 1 ELSE n.attempts) \in Nat
  <2>1. n.attempts \in Nat
    BY DEF RowType
  <2>2. n.attempts > 0 => n.attempts - 1 \in Nat
    BY <2>1
  <2> QED
    BY <2>1, <2>2
<1>4. Alike(Written(n), n)
  BY <1>1, <1>2, <1>3 DEF Written
<1>5. ~(n.layer = "cl" /\ n.done /\ n.client \in ELClients)
  BY SetAssumption DEF Good, ClientsOf
<1> QED
  BY <1>4, <1>5 DEF Restored

\* What a claim, a retry that comes due, a discarded result, an unsigned sighting
\* and a known candidate change.
LEMMA EditedGood ==
  ASSUME NEW n \in Good
  PROVE  /\ Alike(n, n)
         /\ Alike([n EXCEPT !.attempts = @ + 1, !.inFlight = TRUE], n)
         /\ Alike([n EXCEPT !.waiting = FALSE], n)
         /\ Alike([n EXCEPT !.attempts = 0, !.inFlight = FALSE, !.refresh = FALSE, !.waiting = FALSE], n)
         /\ Alike([n EXCEPT !.enr = FALSE], n)
         /\ \A q, r \in BOOLEAN, ep \in Endpoints :
              /\ Alike([n EXCEPT !.refreshDue = q, !.ep = ep, !.refresh = r], n)
              /\ Alike([n EXCEPT !.refreshDue = q], n)
<1> n \in RowType
  BY DEF Good
<1>0. Alike(n, n)
  BY DEF Alike
<1>1. Alike([n EXCEPT !.attempts = @ + 1, !.inFlight = TRUE], n)
  <2>1. ASSUME NEW a \in Nat
        PROVE  [n EXCEPT !.attempts = a, !.inFlight = TRUE] \in RowType
    BY DEF RowType
  <2>2. n.attempts + 1 \in Nat
    <3>1. n.attempts \in Nat
      BY DEF RowType
    <3> QED
      BY <3>1
  <2> DEFINE m == [n EXCEPT !.attempts = @ + 1, !.inFlight = TRUE]
  <2>3. m \in RowType
    BY <2>1, <2>2
  <2>4. /\ m.layer = n.layer /\ m.net = n.net /\ m.head = n.head
        /\ m.done = n.done /\ m.client = n.client
    BY DEF RowType
  <2> QED
    BY <2>3, <2>4, AlikeIf
<1>2. Alike([n EXCEPT !.waiting = FALSE], n)
  <2> DEFINE m == [n EXCEPT !.waiting = FALSE]
  <2>1. m \in RowType
    BY DEF RowType
  <2>2. /\ m.layer = n.layer /\ m.net = n.net /\ m.head = n.head
        /\ m.done = n.done /\ m.client = n.client
    BY DEF RowType
  <2> QED
    BY <2>1, <2>2, AlikeIf
<1>3. Alike([n EXCEPT !.attempts = 0, !.inFlight = FALSE, !.refresh = FALSE, !.waiting = FALSE], n)
  <2> DEFINE m == [n EXCEPT !.attempts = 0, !.inFlight = FALSE, !.refresh = FALSE, !.waiting = FALSE]
  <2>1. m \in RowType
    BY DEF RowType
  <2>2. /\ m.layer = n.layer /\ m.net = n.net /\ m.head = n.head
        /\ m.done = n.done /\ m.client = n.client
    BY DEF RowType
  <2> QED
    BY <2>1, <2>2, AlikeIf
<1>4. Alike([n EXCEPT !.enr = FALSE], n)
  <2> DEFINE m == [n EXCEPT !.enr = FALSE]
  <2>1. m \in RowType
    BY DEF RowType
  <2>2. /\ m.layer = n.layer /\ m.net = n.net /\ m.head = n.head
        /\ m.done = n.done /\ m.client = n.client
    BY DEF RowType
  <2> QED
    BY <2>1, <2>2, AlikeIf
<1>5. ASSUME NEW q \in BOOLEAN, NEW r \in BOOLEAN, NEW ep \in Endpoints
      PROVE  Alike([n EXCEPT !.refreshDue = q, !.ep = ep, !.refresh = r], n)
  <2> DEFINE m == [n EXCEPT !.refreshDue = q, !.ep = ep, !.refresh = r]
  <2>1. m \in RowType
    BY DEF RowType
  <2>2. /\ m.layer = n.layer /\ m.net = n.net /\ m.head = n.head
        /\ m.done = n.done /\ m.client = n.client
    BY DEF RowType
  <2> QED
    BY <2>1, <2>2, AlikeIf
<1>6. ASSUME NEW q \in BOOLEAN
      PROVE  Alike([n EXCEPT !.refreshDue = q], n)
  <2> DEFINE m == [n EXCEPT !.refreshDue = q]
  <2>1. m \in RowType
    BY DEF RowType
  <2>2. /\ m.layer = n.layer /\ m.net = n.net /\ m.head = n.head
        /\ m.done = n.done /\ m.client = n.client
    BY DEF RowType
  <2> QED
    BY <2>1, <2>2, AlikeIf
<1> QED
  BY <1>0, <1>1, <1>2, <1>3, <1>4, <1>5, <1>6

\* What a caller forces on a record.
LEMMA ForcedIsRecord ==
  ASSUME NEW rec \in RecordType, NEW net \in Nets, NEW layer \in Layers \cup {""}
  PROVE  Forced(rec, [net |-> net, layer |-> layer]) \in RecordType
  BY SetAssumption DEF Forced, RecordType, Layers

-----------------------------------------------------------------------------
(* 2. The table *)

LEMMA PresentFinite ==
  ASSUME NEW rs
  PROVE  IsFiniteSet(Present(rs)) /\ Cardinality(Present(rs)) \in Nat
  BY SetAssumption, FS_Subset, FS_CardinalityType DEF Present

LEMMA OneMore ==
  ASSUME NEW S, IsFiniteSet(S), NEW x
  PROVE  IsFiniteSet(S \cup {x}) /\ Cardinality(S \cup {x}) <= Cardinality(S) + 1
<1>1. Cardinality(S) \in Nat
  BY FS_CardinalityType
<1>2. /\ IsFiniteSet(S \cup {x})
      /\ Cardinality(S \cup {x}) = IF x \in S THEN Cardinality(S) ELSE Cardinality(S) + 1
  BY FS_AddElement
<1> QED
  BY <1>1, <1>2

\* No row is added.
LEMMA CapacityKept ==
  ASSUME InCapacity, Present(rows') \subseteq Present(rows)
  PROVE  InCapacity'
<1>1. Cardinality(Present(rows')) <= Cardinality(Present(rows))
  BY PresentFinite, FS_Subset
<1> QED
  BY <1>1, PresentFinite, SetAssumption DEF InCapacity

\* A row does not change its layer or network.
LEMMA AlikeKeeps ==
  ASSUME SetInv, NEW id \in Ids, NEW n,
         rows[id] # None => Alike(n, rows[id]), rows[id] = None => n = None,
         rows' = [rows EXCEPT ![id] = n], UNCHANGED candidates
  PROVE  SetInv'
<1>1. n \in Good \cup {None} /\ (n = None <=> rows[id] = None)
  BY SetAssumption DEF Alike, Good
<1>2. \A u \in Ids : rows'[u] = IF u = id THEN n ELSE rows[u]
  BY DEF SetInv, RowsOK
<1>3. RowsOK'
  BY <1>1 DEF SetInv, RowsOK
<1>4. IsELCandidate(n) <=> IsELCandidate(rows[id])
  BY <1>1 DEF IsELCandidate, Alike
<1>5. {u \in Ids : IsELCandidate(rows'[u])} = {u \in Ids : IsELCandidate(rows[u])}
  BY <1>2, <1>4
<1>6. Present(rows') = Present(rows)
  BY <1>1, <1>2 DEF Present
<1>7. InCapacity'
  BY <1>6, CapacityKept DEF SetInv
<1> QED
  BY <1>3, <1>5, <1>7 DEF SetInv, CandidatesExact

\* The counter when rows go.
LEMMA CandidatesLeft ==
  ASSUME CandidatesExact, NEW S \in SUBSET Ids
  PROVE  LET C == {u \in Ids : IsELCandidate(rows[u])}
             D == {u \in S : IsELCandidate(rows[u])}
         IN  /\ IsFiniteSet(C \ D)
             /\ Cardinality(C \ D) = candidates - Cardinality(D)
             /\ candidates - Cardinality(D) \in Nat
<1> DEFINE C == {u \in Ids : IsELCandidate(rows[u])}
           D == {u \in S : IsELCandidate(rows[u])}
<1>1. IsFiniteSet(C) /\ C \cap D = D
  BY SetAssumption, FS_Subset
<1>2. IsFiniteSet(C \ D) /\ Cardinality(C \ D) = Cardinality(C) - Cardinality(C \cap D)
  BY <1>1, FS_Difference, FS_Subset
<1>3. Cardinality(C \ D) \in Nat
  BY <1>2, FS_CardinalityType
<1> QED
  BY <1>1, <1>2, <1>3 DEF CandidatesExact

\* Rows are deleted.
LEMMA DeletedKeeps ==
  ASSUME SetInv, NEW S \in SUBSET Ids, Deleted(S)
  PROVE  SetInv'
<1> DEFINE C == {u \in Ids : IsELCandidate(rows[u])}
           D == {u \in S : IsELCandidate(rows[u])}
<1>1. RowsOK'
  BY DEF SetInv, RowsOK, Deleted
<1>2. {u \in Ids : IsELCandidate(rows'[u])} = C \ D
  BY DEF Deleted, IsELCandidate
<1>3. CandidatesExact'
  BY <1>2, CandidatesLeft DEF SetInv, CandidatesExact, Deleted
<1>4. Present(rows') \subseteq Present(rows)
  BY DEF Present, Deleted
<1>5. InCapacity'
  BY <1>4, CapacityKept DEF SetInv
<1> QED
  BY <1>1, <1>3, <1>5 DEF SetInv

\* A row is replaced, added or dropped, and others are evicted for it.
LEMMA UpdateKeeps ==
  ASSUME SetInv, NEW id \in Ids, NEW n \in Good \cup {None}, NEW S \in SUBSET Present(rows),
         id \notin S, Update(id, n, S),
         rows[id] # None \/ S # {} \/ Cardinality(Present(rows)) < Max
  PROVE  SetInv'
<1> DEFINE C == {u \in Ids : IsELCandidate(rows[u])}
           D == {u \in S : IsELCandidate(rows[u])}
           B == C \ D
           New == {u \in Ids : IsELCandidate(rows'[u])}
<1>1. RowsOK'
  BY DEF SetInv, RowsOK, Update
<1>2. CandidatesExact'
  <2>1. /\ IsFiniteSet(B) /\ Cardinality(B) = candidates - Cardinality(D)
        /\ candidates - Cardinality(D) \in Nat
    BY CandidatesLeft DEF SetInv, Present
  <2>2. candidates' = Cardinality(B) + Tracked(IsELCandidate(rows[id]), IsELCandidate(n))
    BY <2>1 DEF Update
  <2>3. /\ id \in B <=> IsELCandidate(rows[id])
        /\ New = IF IsELCandidate(n) THEN B \cup {id} ELSE B \ {id}
    BY DEF Update, IsELCandidate, Present
  <2> HIDE DEF B, New
  <2>4. Cardinality(New) = Cardinality(B) + Tracked(IsELCandidate(rows[id]), IsELCandidate(n))
    <3>1. /\ Cardinality(B \cup {id}) = IF id \in B THEN Cardinality(B) ELSE Cardinality(B) + 1
          /\ Cardinality(B \ {id}) = IF id \in B THEN Cardinality(B) - 1 ELSE Cardinality(B)
          /\ Cardinality(B) \in Nat
      BY <2>1, FS_AddElement, FS_RemoveElement
    <3>2. CASE IsELCandidate(n)
      <4>1. Tracked(IsELCandidate(rows[id]), IsELCandidate(n)) = IF id \in B THEN 0 ELSE 1
        BY <2>3, <3>2, Zenon DEF Tracked
      <4>2. New = B \cup {id}
        BY <2>3, <3>2
      <4> QED
        BY <3>1, <4>1, <4>2
    <3>3. CASE ~IsELCandidate(n)
      <4>1. Tracked(IsELCandidate(rows[id]), IsELCandidate(n)) = IF id \in B THEN -1 ELSE 0
        BY <2>3, <3>3, Zenon DEF Tracked
      <4>2. New = B \ {id}
        BY <2>3, <3>3
      <4> QED
        BY <3>1, <4>1, <4>2
    <3> QED
      BY <3>2, <3>3
  <2> QED
    BY <2>2, <2>4 DEF CandidatesExact, New
<1>3. InCapacity'
  <2>1. CASE rows[id] # None
    <3>1. Present(rows') \subseteq Present(rows)
      BY <2>1 DEF Present, Update
    <3> QED
      BY <3>1, CapacityKept DEF SetInv
  <2>2. CASE Cardinality(Present(rows)) < Max
    <3>1. Present(rows') \subseteq Present(rows) \cup {id}
      BY DEF Present, Update
    <3>2. IsFiniteSet(Present(rows) \cup {id}) /\ Cardinality(Present(rows) \cup {id}) <= Cardinality(Present(rows)) + 1
      BY PresentFinite, OneMore
    <3>3. Cardinality(Present(rows')) <= Cardinality(Present(rows) \cup {id})
      BY <3>1, <3>2, FS_Subset
    <3> QED
      <4>1. /\ Cardinality(Present(rows)) \in Nat /\ Cardinality(Present(rows')) \in Nat
            /\ Cardinality(Present(rows) \cup {id}) \in Nat /\ Max \in Nat
        BY <3>2, PresentFinite, FS_CardinalityType, SetAssumption
      <4> QED
        BY <2>2, <3>2, <3>3, <4>1 DEF InCapacity
  <2>3. CASE S # {}
    <3>1. PICK v \in S : TRUE
      BY <2>3
    <3> DEFINE Rest == Present(rows) \ {v}
    <3>2. Present(rows') \subseteq Rest \cup {id}
      BY DEF Present, Update
    <3>3. IsFiniteSet(Rest) /\ Cardinality(Rest) = Cardinality(Present(rows)) - 1
      BY PresentFinite, FS_RemoveElement
    <3> HIDE DEF Rest
    <3>4. IsFiniteSet(Rest \cup {id}) /\ Cardinality(Rest \cup {id}) <= Cardinality(Rest) + 1
      BY <3>3, OneMore
    <3>5. Cardinality(Present(rows')) <= Cardinality(Rest \cup {id})
      BY <3>2, <3>4, FS_Subset
    <3> QED
      <4>1. /\ Cardinality(Present(rows)) \in Nat /\ Cardinality(Present(rows)) <= Max
            /\ Cardinality(Present(rows')) \in Nat /\ Cardinality(Rest \cup {id}) \in Nat
            /\ Max \in Nat
        BY <3>4, PresentFinite, FS_CardinalityType, SetAssumption DEF SetInv, InCapacity
      <4> QED
        BY <3>3, <3>4, <3>5, <4>1 DEF InCapacity
  <2> QED
    BY <2>1, <2>2, <2>3
<1> QED
  BY <1>1, <1>2, <1>3 DEF SetInv

-----------------------------------------------------------------------------
(* 3. Operations *)

\* The records that callers pass, forced or not.
LEMMA ObservationKeeps ==
  ASSUME SetInv, NEW id \in Ids, NEW e \in RecordType, NEW fallback \in BOOLEAN,
         NEW pin \in BOOLEAN, Observation(id, e, fallback, pin)
  PROVE  SetInv'
<1>1. CASE ObserveKnown(id, e, fallback, pin)
  <2>1. PICK n \in Touched(rows[id], fallback, pin) \ {None}, expired \in MayExpire(rows[id]) :
          Update(id, TakeOver(Refreshed(n, e, expired), e), {})
    BY <1>1 DEF ObserveKnown
  <2>2. rows[id] # None /\ rows[id] \in Good
    BY <1>1 DEF ObserveKnown, SetInv, RowsOK
  <2>3. Alike(n, rows[id]) /\ expired \in BOOLEAN
    BY <2>1, <2>2, TouchedGood DEF MayExpire
  <2>4. TakeOver(Refreshed(n, e, expired), e) \in Good
    BY <2>3, RefreshedGood, TakeOverGood DEF Alike
  <2> QED
    BY <2>1, <2>2, <2>4, UpdateKeeps
<1>2. CASE ObserveNew(id, e, fallback, pin)
  <2> DEFINE class == IF pin THEN 0 ELSE IF fallback THEN 3 ELSE IF e.net # None THEN 1 ELSE 2
  <2>1. PICK S \in RoomFor(class) : Update(id, TakeOver(NewRow(e, fallback, pin), e), S)
    BY <1>2 DEF ObserveNew
  <2>2. TakeOver(NewRow(e, fallback, pin), e) \in Good
    BY NewRowGood, TakeOverGood
  <2>3. S \subseteq Present(rows) /\ (S # {} \/ Cardinality(Present(rows)) < Max)
    BY <2>1 DEF RoomFor, Victims
  <2>4. id \notin Present(rows)
    BY <1>2 DEF ObserveNew, Present
  <2> QED
    BY <2>1, <2>2, <2>3, <2>4, UpdateKeeps
<1>3. CASE ObserveStale(id, e, fallback, pin)
  <2>1. PICK n \in Touched(rows[id], fallback, pin) : Update(id, n, {})
    BY <1>3 DEF ObserveStale
  <2>2. rows[id] # None /\ rows[id] \in Good
    BY <1>3 DEF ObserveStale, SetInv, RowsOK
  <2>3. n \in Good \cup {None}
    BY <2>1, <2>2, TouchedGood DEF Alike
  <2> QED
    BY <2>1, <2>2, <2>3, UpdateKeeps
<1>4. CASE ObserveRefused(id, e, fallback, pin)
  BY <1>4 DEF ObserveRefused, setVars, SetInv, RowsOK, CandidatesExact, InCapacity
<1> QED
  BY <1>1, <1>2, <1>3, <1>4 DEF Observation, ObserveApplied

LEMMA SightingKeeps ==
  ASSUME SetInv, NEW id \in Ids, NEW rec \in Records, Sighting(id, rec)
  PROVE  SetInv'
<1>1. rec \in RecordType
  BY SetAssumption
<1>2. CASE \E fallback \in BOOLEAN : Observation(id, rec, fallback, FALSE)
  BY <1>1, <1>2, ObservationKeeps
<1>3. ASSUME NEW net \in Nets, NEW layer \in Layers \cup {""}, NEW fallback \in BOOLEAN, NEW pin \in BOOLEAN,
             Observation(id, Forced(rec, [net |-> net, layer |-> layer]), fallback, pin)
      PROVE  SetInv'
  BY <1>1, <1>3, ForcedIsRecord, ObservationKeeps
<1> QED
  BY <1>2, <1>3 DEF Sighting

\* ObserveCandidateEL.
LEMMA CandidateKeeps ==
  ASSUME SetInv, NEW id \in Ids, NEW rec \in Records,
         ObserveCandidateKnown(id, rec) \/ ObserveCandidateNew(id, rec)
  PROVE  SetInv'
<1>1. rec \in RecordType /\ rows[id] \in Good \cup {None}
  BY SetAssumption DEF SetInv, RowsOK
<1>2. CASE ObserveCandidateKnown(id, rec)
  <2> DEFINE n == rows[id]
  <2>1. n \in Good /\ n # None /\ UNCHANGED candidates
    BY <1>1, <1>2 DEF ObserveCandidateKnown
  <2>2. PICK expired \in MayExpire(n) :
          rows' = [rows EXCEPT ![id] =
            IF IsELCandidate(n) /\ n.seq = 0 /\ ~n.enr
              THEN [n EXCEPT !.refreshDue = @ \/ expired, !.ep = rec.ep,
                             !.refresh = @ \/ (RecordChanged(n, rec) /\ n.inFlight)]
              ELSE [n EXCEPT !.refreshDue = @ \/ expired]]
    BY <1>2 DEF ObserveCandidateKnown
  <2>3. /\ (n.refreshDue \/ expired) \in BOOLEAN /\ rec.ep \in Endpoints
        /\ (n.refresh \/ (RecordChanged(n, rec) /\ n.inFlight)) \in BOOLEAN
    BY <1>1 DEF RecordType
  <2> HIDE DEF n
  <2>4. /\ Alike([n EXCEPT !.refreshDue = @ \/ expired, !.ep = rec.ep,
                           !.refresh = @ \/ (RecordChanged(n, rec) /\ n.inFlight)], n)
        /\ Alike([n EXCEPT !.refreshDue = @ \/ expired], n)
    BY <2>1, <2>3, EditedGood
  <2>5. PICK m : rows' = [rows EXCEPT ![id] = m] /\ Alike(m, n)
    BY <2>2, <2>4
  <2> QED
    BY <2>1, <2>5, AlikeKeeps DEF n
<1>3. CASE ObserveCandidateNew(id, rec)
  <2>1. [NewRow(rec, FALSE, FALSE) EXCEPT !.layer = "el", !.enr = FALSE] \in Good
    BY <1>1, NewRowGood
  <2> QED
    BY <1>3, <2>1, UpdateKeeps DEF ObserveCandidateNew
<1> QED
  BY <1>2, <1>3

\* The conversion of a row without a layer.
LEMMA ConversionKeeps ==
  ASSUME SetInv, NEW id \in Ids, SetExecutionCandidateLayer(id)
  PROVE  SetInv'
<1> DEFINE n == rows[id]
           m == [n EXCEPT !.layer = "el"]
<1>0. rows[id] # None
  BY DEF SetExecutionCandidateLayer, Convertible
<1>1. n \in Good /\ n \in RowType /\ n.layer = "" /\ Update(id, m, {})
  BY DEF SetExecutionCandidateLayer, Convertible, SetInv, RowsOK, Good
<1> HIDE DEF n
<1>2. m \in RowType
  BY <1>1 DEF RowType, Layers
<1>3. m.head = n.head /\ m.done = n.done
  BY <1>1 DEF RowType
<1>4. ~n.done
  BY <1>1 DEF Good, Layers
<1>5. n.head = None
  <2> SUFFICES ASSUME n.head # None PROVE FALSE
    OBVIOUS
  <2>1. n.head.layer = ""
    <3>1. n.head = [layer |-> n.layer, net |-> n.net]
      BY <1>1 DEF Good
    <3>2. n.layer = ""
      BY <1>1
    <3>3. [layer |-> n.layer, net |-> n.net].layer = n.layer
      OBVIOUS
    <3> QED
      BY <3>1, <3>2, <3>3, Zenon
  <2>2. n.head \in [layer: Layers, net: Nets]
    BY <1>1 DEF RowType
  <2>3. n.head.layer \in Layers
    BY <2>2
  <2> QED
    BY <2>1, <2>3 DEF Layers
<1>6. m \in Good
  BY <1>2, <1>3, <1>4, <1>5 DEF Good
<1> HIDE DEF m
<1> QED
  BY <1>0, <1>1, <1>6, UpdateKeeps

\* Claims, and what failed probes leave.
LEMMA ClaimKeeps ==
  ASSUME SetInv, NEW id \in Ids, ClaimStep(id)
  PROVE  SetInv'
<1> DEFINE n == rows[id]
<1>1. n \in Good \cup {None}
  BY DEF SetInv, RowsOK
<1>2. CASE ClaimFingerprint(id)
  <2>1. n # None /\ UNCHANGED candidates
    BY <1>2 DEF ClaimFingerprint, FingerprintDue
  <2>2. rows' = [rows EXCEPT ![id] = [n EXCEPT !.attempts = @ + 1, !.inFlight = TRUE]]
    BY <1>2 DEF ClaimFingerprint, SetInv, RowsOK
  <2> QED
    BY <1>1, <2>1, <2>2, EditedGood, AlikeKeeps
<1>3. CASE UnclaimFingerprint(id)
  <2>1. rows' = [rows EXCEPT ![id] = Unclaimed(n)] /\ UNCHANGED candidates
    BY <1>3 DEF UnclaimFingerprint
  <2>2. n = None => Unclaimed(n) = None
    BY DEF Unclaimed
  <2> QED
    BY <1>1, <2>1, <2>2, UnclaimedGood, AlikeKeeps
<1>4. CASE FingerprintFailed(id)
  <2>1. rows' = [rows EXCEPT ![id] = Failed(n)] /\ UNCHANGED candidates
    BY <1>4 DEF FingerprintFailed
  <2>2. n = None => Failed(n) = None
    BY DEF Failed
  <2> QED
    BY <1>1, <2>1, <2>2, FailedGood, AlikeKeeps
<1>5. CASE RetryDue(id)
  <2>1. n # None /\ UNCHANGED candidates
    BY <1>5 DEF RetryDue
  <2>2. rows' = [rows EXCEPT ![id] = [n EXCEPT !.waiting = FALSE]]
    BY <1>5 DEF RetryDue, SetInv, RowsOK
  <2> QED
    BY <1>1, <2>1, <2>2, EditedGood, AlikeKeeps
<1> QED
  BY <1>2, <1>3, <1>4, <1>5 DEF ClaimStep

\* Results of probes, Status and head.
LEMMA ResultKeeps ==
  ASSUME SetInv, NEW id \in Ids, NEW layer \in Layers, ResultStep(id, layer)
  PROVE  SetInv'
<1> DEFINE n == rows[id]
<1>1. n \in Good \cup {None}
  BY DEF SetInv, RowsOK
<1>2. n # None => Alike(n, n)
  BY <1>1 DEF Alike
<1>3. ASSUME NEW client \in ClientsOf(layer), SetFingerprint(id, layer, client)
      PROVE  SetInv'
  <2> DEFINE m == IF n # None /\ n.layer = layer THEN Identified(n, client, None) ELSE n
  <2>1. rows' = [rows EXCEPT ![id] = m] /\ UNCHANGED candidates
    BY <1>3 DEF SetFingerprint
  <2>2. n # None /\ n.layer = layer => Alike(Identified(n, client, None), n)
    BY <1>1, IdentifiedGood
  <2>3. (n # None => Alike(m, n)) /\ (n = None => m = None)
    BY <1>2, <2>2
  <2> QED
    BY <2>1, <2>3, AlikeKeeps
<1>4. ASSUME NEW client \in ClientsOf(layer), NEW proof \in Endpoints \cup {None},
             SetClaimedFingerprint(id, layer, client, proof)
      PROVE  SetInv'
  <2> DEFINE m == [Identified(n, client, proof) EXCEPT !.inFlight = FALSE]
  <2>1. /\ n # None /\ n.layer = layer
        /\ rows' = [rows EXCEPT ![id] = m] /\ UNCHANGED candidates
    BY <1>4 DEF SetClaimedFingerprint, Discarded
  <2>2. Alike(m, n)
    BY <1>1, <2>1, IdentifiedGood
  <2> HIDE DEF m
  <2> QED
    BY <2>1, <2>2, AlikeKeeps
<1>5. ASSUME NEW client \in ClientsOf("el"), SetCandidateClient(id, client)
      PROVE  SetInv'
  <2> DEFINE o == [n EXCEPT !.client = client]
             m == IF IsELCandidate(n) THEN o ELSE n
  <2>1. rows' = [rows EXCEPT ![id] = m] /\ UNCHANGED candidates
    BY <1>5 DEF SetCandidateClient
  <2>2. IsELCandidate(n) => n # None /\ n.layer = "el"
    BY DEF IsELCandidate
  <2>3. ASSUME n # None, n.layer = "el"
        PROVE  Alike(o, n)
    <3>1. n \in RowType /\ client \in Clients
      BY <1>1, <2>3 DEF Good, ClientsOf, Clients
    <3>2. o \in RowType
      BY <3>1 DEF RowType
    <3>3. o.layer = n.layer /\ o.net = n.net /\ o.head = n.head /\ o.client = client
      BY <3>1 DEF RowType
    <3> HIDE DEF o
    <3> QED
      BY <1>1, <2>3, <3>2, <3>3 DEF Alike, Good, Layers
  <2>4. (n # None => Alike(m, n)) /\ (n = None => m = None)
    BY <1>2, <2>2, <2>3
  <2> QED
    BY <2>1, <2>4, AlikeKeeps
<1>6. CASE DiscardClaimedFingerprint(id, layer)
  <2> DEFINE o == [n EXCEPT !.attempts = 0, !.inFlight = FALSE, !.refresh = FALSE, !.waiting = FALSE]
             m == IF n = None THEN n ELSE o
  <2>1. rows' = [rows EXCEPT ![id] = m] /\ UNCHANGED candidates
    BY <1>6 DEF DiscardClaimedFingerprint
  <2>2. n # None => Alike(o, n)
    BY <1>1, EditedGood
  <2> HIDE DEF o
  <2> QED
    BY <2>1, <2>2, AlikeKeeps
<1>7. ASSUME NEW net \in Nets, Stamp(id, layer, net)
      PROVE  SetInv'
  <2>1. CASE UNCHANGED rows
    BY <1>7, <2>1 DEF Stamp, SetInv, RowsOK, CandidatesExact, InCapacity
  <2>2. CASE ~UNCHANGED rows
    <3> DEFINE o == [n EXCEPT !.enr = FALSE]
               m == IF (n # None /\ n.layer = layer /\ n.net = net) /\ n.seq = 0 THEN o ELSE n
    <3>1. rows' = [rows EXCEPT ![id] = m] /\ UNCHANGED candidates
      BY <1>7, <2>2 DEF Stamp
    <3>2. n # None => Alike(o, n)
      BY <1>1, EditedGood
    <3> HIDE DEF o
    <3>3. (n # None => Alike(m, n)) /\ (n = None => m = None)
      BY <1>2, <3>2
    <3> QED
      BY <3>1, <3>3, AlikeKeeps
  <2> QED
    BY <2>1, <2>2
<1>8. ASSUME NEW net \in Nets, SetStatus(id, layer, net)
      PROVE  SetInv'
  <2>0. n # None /\ n \in Good /\ n \in RowType
    BY <1>1, <1>8 DEF SetStatus, Good
  <2>a. PICK low \in {n.low, n.low /\ n.net # net} :
          Update(id, [n EXCEPT !.net = net, !.low = low, !.head = IF n.net = net THEN n.head ELSE None], {})
    BY <1>8 DEF SetStatus
  <2>b. low \in BOOLEAN
    BY <2>0, <2>a, Zenon DEF RowType
  <2> DEFINE head == IF n.net = net THEN n.head ELSE None
             m == [n EXCEPT !.net = net, !.low = low, !.head = head]
  <2>1. n # None /\ n \in Good /\ n \in RowType /\ Update(id, m, {})
    BY <2>0, <2>a
  <2>2. /\ head \in [layer: Layers, net: Nets] \cup {None}
        /\ head # None => head = [layer |-> n.layer, net |-> net]
    BY <2>1 DEF Good, RowType
  <2> HIDE DEF head
  <2>3. m \in RowType
    BY <2>b, <2>1, <2>2 DEF RowType
  <2>4. m.head = head /\ m.net = net /\ m.layer = n.layer /\ m.done = n.done /\ m.client = n.client
    BY <2>1 DEF RowType
  <2> HIDE DEF m
  <2>5. m \in Good
    BY <2>1, <2>2, <2>3, <2>4 DEF Good
  <2> QED
    BY <2>1, <2>5, UpdateKeeps
<1>9. ASSUME NEW net \in Nets, NEW known \in BOOLEAN, SetHead(id, layer, net, known)
      PROVE  SetInv'
  <2> DEFINE head == IF known THEN [layer |-> layer, net |-> net] ELSE None
             o == [n EXCEPT !.head = head]
             m == IF n # None /\ n.layer = layer /\ n.net = net THEN o ELSE n
  <2>1. rows' = [rows EXCEPT ![id] = m] /\ UNCHANGED candidates
    BY <1>9 DEF SetHead
  <2>2. ASSUME n # None, n.layer = layer, n.net = net
        PROVE  Alike(o, n)
    <3>1. n \in Good /\ n \in RowType
      BY <1>1, <2>2 DEF Good
    <3>2. /\ head \in [layer: Layers, net: Nets] \cup {None}
          /\ head # None => head = [layer |-> n.layer, net |-> n.net]
      BY <2>2
    <3> HIDE DEF head
    <3>3. o \in RowType
      BY <3>1, <3>2 DEF RowType
    <3>4. o.head = head /\ o.net = n.net /\ o.layer = n.layer /\ o.done = n.done /\ o.client = n.client
      BY <3>1 DEF RowType
    <3> HIDE DEF o
    <3> QED
      BY <3>1, <3>2, <3>3, <3>4 DEF Alike, Good
  <2>3. (n # None => Alike(m, n)) /\ (n = None => m = None)
    BY <1>2, <2>2
  <2> QED
    BY <2>1, <2>3, AlikeKeeps
<1> QED
  BY <1>3, <1>4, <1>5, <1>6, <1>7, <1>8, <1>9 DEF ResultStep

\* Penalties, pruning and a restart from the last publish.
LEMMA RemovalKeeps ==
  ASSUME SetInv, \/ \E id \in Ids : Penalize(id)
                 \/ \E S \in SUBSET Ids : PruneStale(S) \/ Restart(S)
  PROVE  SetInv'
<1>1. ASSUME NEW id \in Ids, Penalize(id)
      PROVE  SetInv'
  <2>1. PICK n \in Touched(rows[id], TRUE, FALSE) : Update(id, n, {})
    BY <1>1 DEF Penalize
  <2>2. rows[id] # None /\ rows[id] \in Good
    BY <1>1 DEF Penalize, SetInv, RowsOK
  <2>3. n \in Good \cup {None}
    BY <2>1, <2>2, TouchedGood DEF Alike
  <2> QED
    BY <2>1, <2>2, <2>3, UpdateKeeps
<1>2. ASSUME NEW S \in SUBSET Ids, PruneStale(S)
      PROVE  SetInv'
  BY <1>2, DeletedKeeps DEF PruneStale
<1>3. ASSUME NEW S \in SUBSET Ids, Restart(S)
      PROVE  SetInv'
  <2>1. ASSUME NEW id \in S
        PROVE  rows[id] # None /\ Alike(Restored(rows[id]), rows[id]) /\ rows[id].net # None
    <3>1. rows[id] \in Good /\ rows[id] # None /\ rows[id].net # None
      BY <1>3 DEF Restart, SnapshotEligible, SetInv, RowsOK
    <3> QED
      BY <3>1, RestoredGood
  <2>2. rows' = [id \in Ids |-> IF id \in S THEN Restored(rows[id]) ELSE None] /\ candidates' = 0
    BY <1>3 DEF Restart
  <2>3. RowsOK'
    BY <2>1, <2>2 DEF RowsOK, Alike
  <2>4. {id \in Ids : IsELCandidate(rows'[id])} = {}
    BY <2>1, <2>2 DEF IsELCandidate, Alike
  <2>5. Present(rows') \subseteq Present(rows)
    BY <2>1, <2>2 DEF Present
  <2>6. InCapacity'
    BY <2>5, CapacityKept DEF SetInv
  <2> QED
    BY <2>2, <2>3, <2>4, <2>6, FS_EmptySet DEF SetInv, CandidatesExact
<1> QED
  BY <1>1, <1>2, <1>3

-----------------------------------------------------------------------------
(* 4. What the table keeps *)

LEMMA SetInvInit == SetInit => SetInv
<1> SUFFICES ASSUME SetInit PROVE SetInv
  OBVIOUS
<1>1. Present(rows) = {} /\ {id \in Ids : IsELCandidate(rows[id])} = {}
  BY DEF SetInit, Present, IsELCandidate
<1> QED
  BY <1>1, FS_EmptySet, SetAssumption DEF SetInit, SetInv, RowsOK, CandidatesExact, InCapacity

LEMMA SetInvStep == SetInv /\ [SetNext]_setVars => SetInv'
<1> SUFFICES ASSUME SetInv, [SetNext]_setVars PROVE SetInv'
  OBVIOUS
<1>1. CASE UNCHANGED setVars
  BY <1>1 DEF setVars, SetInv, RowsOK, CandidatesExact, InCapacity
<1>2. CASE SetNext
  <2>1. ASSUME NEW id \in Ids, NEW rec \in Records,
               \/ Sighting(id, rec) \/ ObserveCandidateKnown(id, rec) \/ ObserveCandidateNew(id, rec)
        PROVE  SetInv'
    BY <2>1, SightingKeeps, CandidateKeeps
  <2>2. ASSUME NEW id \in Ids, SetExecutionCandidateLayer(id)
        PROVE  SetInv'
    BY <2>2, ConversionKeeps
  <2> QED
    BY <1>2, <2>1, <2>2, ClaimKeeps, ResultKeeps, RemovalKeeps DEF SetNext
<1> QED
  BY <1>1, <1>2

LEMMA SetInvAlways == SetSpec => []SetInv
  BY SetInvInit, SetInvStep, PTL DEF SetSpec

\* Rows keep their types, and the table never outgrows its capacity, although a
\* full table takes rows in by dropping others.
THEOREM TypeCorrect == SetSpec => []SetTypeOK
<1>1. SetInv => SetTypeOK
  <2>1. Cardinality({u \in Ids : IsELCandidate(rows[u])}) \in Nat
    BY SetAssumption, FS_Subset, FS_CardinalityType
  <2>2. Good \subseteq RowType
    BY DEF Good
  <2> QED
    BY <2>1, <2>2 DEF SetInv, RowsOK, InCapacity, CandidatesExact, SetTypeOK
<1> QED
  BY <1>1, SetInvAlways, PTL

\* The counter on which the cap of retained candidates rests never drifts, whoever
\* calls the table in whatever order, and however many rows are evicted at once.
THEOREM CandidatesCounted == SetSpec => []CandidatesExact
<1>1. SetInv => CandidatesExact
  BY DEF SetInv
<1> QED
  BY <1>1, SetInvAlways, PTL

\* A head stays with the network and the layer it was reported for.
THEOREM HeadsMatch == SetSpec => []HeadMatches
<1>1. SetInv => HeadMatches
  BY DEF SetInv, RowsOK, HeadMatches, Present, Good
<1> QED
  BY <1>1, SetInvAlways, PTL

\* A verified identity is always of the layer of its row.
THEOREM IdentitiesMatchLayer == SetSpec => []IdentityOfLayer
<1>1. SetInv => IdentityOfLayer
  BY DEF SetInv, RowsOK, IdentityOfLayer, Present, Good
<1> QED
  BY <1>1, SetInvAlways, PTL

-----------------------------------------------------------------------------
(* The crawler *)

\* What a slot has in hand at its stage.
Flows ==
  {f \in FlowType :
     /\ f.stage \in {"layerless", "found", "scanned", "claimed", "queued", "authenticate"} =>
          f.rec \in Records
     /\ f.stage \in {"claimed", "queued", "requested", "demanded", "answer", "answerStale",
                     "authenticate", "visitStamp", "visitHead", "identify", "greet", "status", "head"} =>
          f.layer \in Layers
     /\ f.stage \in {"stamp", "complete", "authenticate", "visitStamp", "visitHead", "status", "head"} =>
          f.net \in Nets}

FlowsOK == flow \in [Slots -> Flows \cup {None}]

\* A candidate nobody has classified, and whose record is not known.
Retained(n) == n.net = None /\ ~n.enr

\* A fresh identity is of the endpoint of the row; a candidate has none.
Proven(n) ==
  /\ Fresh(n) => n.proof = n.ep
  /\ n.proof # None => ~Retained(n)
  /\ Retained(n) => n.layer = "el"

RowsProven == \A id \in Ids : rows[id] # None => Proven(rows[id])

\* Whether the slot may go on to complete its claim.
MayComplete(f) ==
  \/ f.stage \in {"stamp", "complete", "demanded"}
  \/ f.stage \in {"claimed", "queued"} /\ ~(f.layer = "el" /\ f.net = None)

\* The row a slot has claimed: it is in flight, and still where it was unless it
\* is marked for another probe.
ClaimOf(f, n) ==
  /\ n # None /\ n.inFlight
  /\ ~n.refresh => n.ep = f.held
  /\ MayComplete(f) => ~Retained(n)

Holds(s) == flow[s] # None /\ flow[s].stage \in Holding

Owners ==
  /\ \A s \in Slots : Holds(s) => ClaimOf(flow[s], rows[flow[s].id])
  /\ \A s, t \in Slots : Holds(s) /\ Holds(t) /\ flow[s].id = flow[t].id => s = t

\* A row in flight is some slot's claim.
Owned ==
  \A id \in Ids : rows[id] # None /\ rows[id].inFlight =>
    \E s \in Slots : Holds(s) /\ flow[s].id = id

\* A record a user has submitted stays in the table.
Requested ==
  \A s \in Slots : At(s, "requested") =>
    rows[flow[s].id] # None /\ ~Retained(rows[flow[s].id])

\* What an operation that begins or ends no claim makes of a row n.
Calm(n, m) ==
  /\ m.inFlight = n.inFlight
  /\ m.inFlight /\ ~m.refresh => ~n.refresh /\ m.ep = n.ep
  /\ ~Retained(n) => ~Retained(m)
  /\ Proven(n) => Proven(m)

\* No claim begins or ends.
Gentle ==
  \A id \in Ids : rows'[id] # None =>
    IF rows[id] # None THEN Calm(rows[id], rows'[id])
    ELSE ~rows'[id].inFlight /\ Proven(rows'[id])

\* No row is removed.
Kept == \A id \in Ids : rows[id] # None => rows'[id] # None

\* The table has room for every node there is, and nothing is ever dropped from it.
NoRemovals == ~Removals /\ Cardinality(Ids) <= Max

Quiet == Gentle /\ (NoRemovals => Kept)

\* The slot goes on, or stays: what it has claimed it keeps.
Goes(s) ==
  /\ Holds(s)' <=> Holds(s)
  /\ Holds(s) =>
       /\ flow'[s].id = flow[s].id /\ flow'[s].held = flow[s].held
       /\ MayComplete(flow'[s]) =>
            MayComplete(flow[s]) \/ (rows'[flow[s].id] # None /\ ~Retained(rows'[flow[s].id]))
  /\ At(s, "requested")' =>
       \/ At(s, "requested") /\ flow'[s].id = flow[s].id
       \/ rows'[flow'[s].id] # None /\ ~Retained(rows'[flow'[s].id])

\* The slot claims the row of its id.
Claiming(s) ==
  /\ flow[s] # None /\ ~Holds(s) /\ ClaimFingerprint(flow[s].id)
  /\ \A t \in Slots \ {s} : flow'[t] = flow[t]
  /\ Holds(s)' /\ flow'[s].id = flow[s].id /\ flow'[s].held = rows[flow[s].id].ep
  /\ MayComplete(flow'[s]) =>
       At(s, "requested") \/ ~(rows[flow[s].id].layer = "el" /\ rows[flow[s].id].net = None)

\* What the end of the claim of f makes of the row n.
Ended(f, n, m) ==
  /\ m # None /\ ~m.inFlight
  /\ ~Retained(n) => ~Retained(m)
  /\ Proven(n) /\ ClaimOf(f, n) => Proven(m)

\* The slot ends its claim.
Ending(s) ==
  /\ Holds(s) /\ ~Holds(s)' /\ ~At(s, "requested")'
  /\ \A t \in Slots \ {s} : flow'[t] = flow[t]
  /\ \A id \in Ids \ {flow[s].id} : rows'[id] = rows[id]
  /\ IF rows[flow[s].id] = None THEN rows'[flow[s].id] = None
     ELSE Ended(flow[s], rows[flow[s].id], rows'[flow[s].id])

\* The process starts anew.
Restarting ==
  /\ \A s \in Slots : flow'[s] = None
  /\ \A id \in Ids : rows'[id] # None =>
       rows[id] # None /\ ~rows'[id].inFlight /\ (Proven(rows[id]) => Proven(rows'[id]))

\* Every step of the crawler is one of these (section 8).
Kind ==
  \/ Quiet /\ \A s \in Slots : Goes(s)
  \/ \E s \in Slots : Claiming(s) \/ Ending(s)
  \/ Restarting

FpInv == SetInv /\ FlowsOK
ClaimInv == NoRemovals /\ FpInv /\ RowsProven /\ Owners /\ Owned /\ Requested

-----------------------------------------------------------------------------
(* 5. Steps of the crawler are steps of the node set *)

LEMMA BecomesOK ==
  ASSUME FlowsOK, NEW s \in Slots, NEW f \in Flows \cup {None}, Becomes(s, f)
  PROVE  FlowsOK'
  BY DEF FlowsOK, Becomes

\* What a slot at work has in hand.
LEMMA InHand ==
  ASSUME FlowsOK, NEW s \in Slots, flow[s] # None
  PROVE  /\ flow[s] \in Flows /\ flow[s] \in FlowType /\ flow[s].id \in Ids
         /\ flow[s].layer \in Layers \cup {""} /\ flow[s].net \in Nets \cup {None}
         /\ flow[s].held \in Endpoints \cup {None}
  BY DEF FlowsOK, Flows, FlowType

\* The operations of the node set that the crawler calls.
LEMMA SetSteps ==
  ASSUME NEW id \in Ids
  PROVE  /\ \A rec \in Records, fallback \in BOOLEAN : Observation(id, rec, fallback, FALSE) => SetNext
         /\ \A rec \in Records, net \in Nets :
              /\ Observation(id, Forced(rec, [net |-> net, layer |-> ""]), FALSE, TRUE) => SetNext
              /\ \A layer \in Layers :
                   Observation(id, Forced(rec, [net |-> net, layer |-> layer]), FALSE, FALSE) => SetNext
         /\ ClaimStep(id) \/ SetExecutionCandidateLayer(id) \/ Penalize(id) => SetNext
         /\ \A layer \in Layers : ResultStep(id, layer) => SetNext
  BY DEF SetNext, Sighting

\* New flows, and flows that go on.
LEMMA NewFlows ==
  ASSUME NEW id \in Ids
  PROVE  /\ \A rec \in Records, stage \in {"layerless", "found", "scanned"} :
              [Flow(stage, id) EXCEPT !.rec = rec] \in Flows
         /\ \A rec \in Records, layer \in Layers, net \in Nets :
              [Flow("authenticate", id) EXCEPT !.rec = rec, !.layer = layer, !.net = net] \in Flows
         /\ \A layer \in Layers, net \in Nets \cup {None}, stage \in {"hello", "greet"} :
              [Flow(stage, id) EXCEPT !.layer = layer, !.net = net] \in Flows
         /\ \A layer \in Layers, net \in Nets, stage \in {"status", "head"} :
              [Flow(stage, id) EXCEPT !.layer = layer, !.net = net] \in Flows
         /\ \A rec \in Requests, stage \in {"requested", "answerStale"} :
              [Flow(stage, id) EXCEPT !.rec = rec, !.layer = rec.layer] \in Flows
  <1>1. \A rec \in Records, stage \in {"layerless", "found", "scanned"} :
          [Flow(stage, id) EXCEPT !.rec = rec] \in Flows
    BY ZenonT(60) DEF Flow, Flows, FlowType, Stages
  <1>2. \A rec \in Records, layer \in Layers, net \in Nets :
          [Flow("authenticate", id) EXCEPT !.rec = rec, !.layer = layer, !.net = net] \in Flows
    BY DEF Flow, Flows, FlowType, Stages
  <1>3. \A layer \in Layers, net \in Nets \cup {None}, stage \in {"hello", "greet"} :
          [Flow(stage, id) EXCEPT !.layer = layer, !.net = net] \in Flows
    BY ZenonT(60) DEF Flow, Flows, FlowType, Stages
  <1>4. \A layer \in Layers, net \in Nets, stage \in {"status", "head"} :
          [Flow(stage, id) EXCEPT !.layer = layer, !.net = net] \in Flows
    BY ZenonT(60) DEF Flow, Flows, FlowType, Stages
  <1>5. ASSUME NEW rec \in Requests, NEW stage \in {"requested", "answerStale"}
        PROVE  [Flow(stage, id) EXCEPT !.rec = rec, !.layer = rec.layer] \in Flows
    <2>1. rec \in Records /\ rec.layer \in Layers
      BY FlowAssumption
    <2>2. QED
      BY <2>1 DEF Flow, Flows, FlowType, Stages
  <1>6. QED
    BY <1>1, <1>2, <1>3, <1>4, <1>5

LEMMA NextFlows ==
  ASSUME NEW f \in Flows
  PROVE  /\ f.stage = "layerless" => [f EXCEPT !.stage = "found"] \in Flows
         /\ f.stage \in {"found", "scanned"} => \A layer \in Layers, net \in Nets \cup {None},
              held \in Endpoints :
              [f EXCEPT !.stage = "claimed", !.layer = layer, !.net = net, !.held = held] \in Flows
         /\ f.stage = "claimed" => [f EXCEPT !.stage = "queued"] \in Flows
         /\ f.stage = "queued" => \A net \in Nets : [f EXCEPT !.stage = "stamp", !.net = net] \in Flows
         /\ f.stage = "queued" => \A to \in {"release", "failing"} : [f EXCEPT !.stage = to] \in Flows
         /\ f.stage = "stamp" => [f EXCEPT !.stage = "complete"] \in Flows
         /\ f.stage = "status" => [f EXCEPT !.stage = "head"] \in Flows
         /\ f.stage = "authenticate" => \A to \in {"visitStamp", "identify"} :
              [f EXCEPT !.stage = to, !.rec = None] \in Flows
         /\ f.stage = "visitStamp" => [f EXCEPT !.stage = "visitHead"] \in Flows
         /\ f.stage = "visitHead" => [f EXCEPT !.stage = "identify"] \in Flows
         /\ f.stage = "greet" /\ f.net # None => [f EXCEPT !.stage = "status"] \in Flows
         /\ f.stage = "requested" => \A held \in Endpoints :
              [f EXCEPT !.stage = "demanded", !.held = held] \in Flows
         /\ f.stage = "requested" => [f EXCEPT !.stage = "answer"] \in Flows
  <1>1. f.stage = "layerless" => [f EXCEPT !.stage = "found"] \in Flows
    BY DEF Flows, FlowType, Stages
  <1>2. f.stage \in {"found", "scanned"} => \A layer \in Layers, net \in Nets \cup {None}, held \in Endpoints :
          [f EXCEPT !.stage = "claimed", !.layer = layer, !.net = net, !.held = held] \in Flows
    BY DEF Flows, FlowType, Stages
  <1>3. f.stage = "claimed" => [f EXCEPT !.stage = "queued"] \in Flows
    BY DEF Flows, FlowType, Stages
  <1>4. f.stage = "queued" => \A net \in Nets : [f EXCEPT !.stage = "stamp", !.net = net] \in Flows
    BY DEF Flows, FlowType, Stages
  <1>5. f.stage = "queued" => \A to \in {"release", "failing"} : [f EXCEPT !.stage = to] \in Flows
    BY DEF Flows, FlowType, Stages
  <1>6. f.stage = "stamp" => [f EXCEPT !.stage = "complete"] \in Flows
    BY DEF Flows, FlowType, Stages
  <1>7. f.stage = "status" => [f EXCEPT !.stage = "head"] \in Flows
    BY DEF Flows, FlowType, Stages
  <1>8. f.stage = "authenticate" => \A to \in {"visitStamp", "identify"} :
          [f EXCEPT !.stage = to, !.rec = None] \in Flows
    BY DEF Flows, FlowType, Stages
  <1>9. f.stage = "visitStamp" => [f EXCEPT !.stage = "visitHead"] \in Flows
    BY DEF Flows, FlowType, Stages
  <1>10. f.stage = "visitHead" => [f EXCEPT !.stage = "identify"] \in Flows
    BY DEF Flows, FlowType, Stages
  <1>11. f.stage = "greet" /\ f.net # None => [f EXCEPT !.stage = "status"] \in Flows
    BY DEF Flows, FlowType, Stages
  <1>12. f.stage = "requested" => \A held \in Endpoints :
          [f EXCEPT !.stage = "demanded", !.held = held] \in Flows
    BY DEF Flows, FlowType, Stages
  <1>13. f.stage = "requested" => [f EXCEPT !.stage = "answer"] \in Flows
    BY DEF Flows, FlowType, Stages
  <1>14. QED
    BY <1>1, <1>2, <1>3, <1>4, <1>5, <1>6, <1>7, <1>8, <1>9, <1>10, <1>11, <1>12, <1>13

\* A slot begins something.
LEMMA BeginIsSet ==
  ASSUME FpInv, NEW s \in Slots, Begin(s)
  PROVE  FlowsOK' /\ [SetNext]_setVars
  <1>1. FlowsOK
    BY DEF FpInv
  <1>2. ASSUME NEW id \in Ids, NEW rec \in Records, NEW fallback \in BOOLEAN, Resolve(s, id, rec, fallback)
        PROVE  FlowsOK' /\ [SetNext]_setVars
    <2>1. Observation(id, rec, fallback, FALSE)
      BY <1>2 DEF Resolve, Observation
    <2>2. /\ [Flow("layerless", id) EXCEPT !.rec = rec] \in Flows
          /\ [Flow("found", id) EXCEPT !.rec = rec] \in Flows
      BY NewFlows
    <2>3. \E f \in Flows \cup {None} : Becomes(s, f)
      BY <1>2, <2>2 DEF Resolve, Ends
    <2>4. QED
      BY <1>1, <2>1, <2>3, SetSteps, BecomesOK
  <1>3. ASSUME NEW id \in Ids, NEW rec \in Records, Scan(s, id, rec)
        PROVE  FlowsOK' /\ [SetNext]_setVars
    <2>1. [Flow("scanned", id) EXCEPT !.rec = rec] \in Flows
      BY NewFlows
    <2>2. QED
      BY <1>1, <1>3, <2>1, BecomesOK DEF Scan
  <1>4. ASSUME NEW id \in Ids, NEW rec \in Records, ObserveSeed(s, id, rec)
        PROVE  FlowsOK' /\ [SetNext]_setVars
    <2>1. Observation(id, Forced(rec, [net |-> Devnet, layer |-> ""]), FALSE, TRUE)
      BY <1>4 DEF ObserveSeed, Observation
    <2>2. [Flow("scanned", id) EXCEPT !.rec = rec] \in Flows
      BY NewFlows
    <2>3. \E f \in Flows \cup {None} : Becomes(s, f)
      BY <1>4, <2>2 DEF ObserveSeed, Ends
    <2>4. QED
      BY <1>1, <2>1, <2>3, SetSteps, BecomesOK, FlowAssumption
  <1>5. ASSUME NEW id \in Ids, NEW rec \in Records, Request(s, id, rec)
        PROVE  FlowsOK' /\ [SetNext]_setVars
    <2>1. Observation(id, rec, FALSE, FALSE)
      BY <1>5 DEF Request, Observation
    <2>2. /\ [Flow("requested", id) EXCEPT !.rec = rec, !.layer = rec.layer] \in Flows
          /\ [Flow("answerStale", id) EXCEPT !.rec = rec, !.layer = rec.layer] \in Flows
      BY <1>5, NewFlows DEF Request
    <2>3. \E f \in Flows \cup {None} : Becomes(s, f)
      BY <1>5, <2>2 DEF Request, Ends
    <2>4. QED
      BY <1>1, <2>1, <2>3, SetSteps, BecomesOK
  <1>6. ASSUME NEW id \in Ids, NEW rec \in Records, NEW net \in Nets, NEW layer \in Layers,
               Visit(s, id, rec, layer, net)
        PROVE  FlowsOK' /\ [SetNext]_setVars
    <2>1. [Flow("authenticate", id) EXCEPT !.rec = rec, !.layer = layer, !.net = net] \in Flows
      BY NewFlows
    <2>2. QED
      BY <1>1, <1>6, <2>1, BecomesOK DEF Visit
  <1>7. ASSUME NEW id \in Ids, NEW layer \in Layers, NEW net \in Nets \cup {None},
               Inbound(s, id, layer, net)
        PROVE  FlowsOK' /\ [SetNext]_setVars
    <2>1. /\ [Flow("hello", id) EXCEPT !.layer = layer, !.net = net] \in Flows
          /\ [Flow("greet", id) EXCEPT !.layer = layer, !.net = net] \in Flows
      BY NewFlows
    <2>2. \E f \in Flows \cup {None} : Becomes(s, f)
      BY <1>7, <2>1 DEF Inbound
    <2>3. QED
      BY <1>1, <1>7, <2>2, BecomesOK DEF Inbound
  <1>8. QED
    BY <1>2, <1>3, <1>4, <1>5, <1>6, <1>7 DEF Begin

\* What a slot at a stage has in hand.
LEMMA AtStage ==
  ASSUME FlowsOK, NEW s \in Slots, flow[s] # None
  PROVE  /\ At(s, "queued") \/ At(s, "authenticate") \/ At(s, "found") \/ At(s, "scanned") =>
              flow[s].rec \in Records
         /\ \A stage \in {"claimed", "queued", "requested", "demanded", "answer", "answerStale",
                          "authenticate", "visitStamp", "visitHead", "identify", "greet", "status", "head"} :
              At(s, stage) => flow[s].layer \in Layers
         /\ \A stage \in {"stamp", "complete", "authenticate", "visitStamp", "visitHead", "status", "head"} :
              At(s, stage) => flow[s].net \in Nets
  BY InHand DEF Flows, At

\* A slot that has found work claims it, or gives the claim back.
LEMMA ClaimingIsSet ==
  ASSUME FpInv, NEW s \in Slots,
         Convert(s) \/ Claim(s) \/ Defer(s) \/ Enqueue(s) \/ Cancel(s) \/ Release(s) \/ Demand(s)
  PROVE  FlowsOK' /\ [SetNext]_setVars
  <1> DEFINE f == flow[s]  id == flow[s].id
  <1>0. FlowsOK /\ RowsOK
    BY DEF FpInv, SetInv
  <1>1. f # None
    BY DEF Convert, Claim, Defer, Enqueue, Cancel, Release, Demand, At
  <1>2. f \in Flows /\ id \in Ids
    BY <1>0, <1>1, InHand
  <1>3. ASSUME ClaimFingerprint(id)
        PROVE  rows[id].layer \in Layers /\ rows[id].net \in Nets \cup {None} /\ rows[id].ep \in Endpoints
    BY <1>0, <1>2, <1>3 DEF ClaimFingerprint, FingerprintDue, RowsOK, Good, RowType
  <1>4. CASE Convert(s)
    <2>1. [f EXCEPT !.stage = "found"] \in Flows
      BY <1>2, <1>4, NextFlows DEF Convert, At
    <2>2. \E g \in Flows \cup {None} : Becomes(s, g)
      BY <1>4, <2>1 DEF Convert
    <2>3. SetExecutionCandidateLayer(id) \/ UNCHANGED setVars
      BY <1>4 DEF Convert
    <2>4. QED
      BY <1>0, <1>2, <2>2, <2>3, BecomesOK, SetSteps
  <1>5. CASE Claim(s)
    <2>1. ClaimFingerprint(id) =>
            [f EXCEPT !.stage = "claimed", !.layer = rows[id].layer, !.net = rows[id].net,
                      !.held = rows[id].ep] \in Flows
      BY <1>2, <1>3, <1>5, NextFlows DEF Claim, At
    <2>2. \E g \in Flows \cup {None} : Becomes(s, g)
      BY <1>5, <2>1 DEF Claim, Ends
    <2>3. ClaimStep(id) \/ UNCHANGED setVars
      BY <1>5 DEF Claim, ClaimStep
    <2>4. QED
      BY <1>0, <1>2, <2>2, <2>3, BecomesOK, SetSteps
  <1>6. CASE Defer(s) \/ Cancel(s) \/ Release(s)
    <2>1. ClaimStep(id) /\ Becomes(s, None)
      BY <1>6 DEF Defer, Cancel, Release, ClaimStep, Ends
    <2>2. QED
      BY <1>0, <1>2, <2>1, BecomesOK, SetSteps
  <1>7. CASE Enqueue(s)
    <2>1. [f EXCEPT !.stage = "queued"] \in Flows
      BY <1>2, <1>7, NextFlows DEF Enqueue, At
    <2>2. QED
      BY <1>0, <1>7, <2>1, BecomesOK DEF Enqueue
  <1>8. CASE Demand(s)
    <2>1. [f EXCEPT !.stage = "answer"] \in Flows
      BY <1>2, <1>8, NextFlows DEF Demand, At
    <2>2. ClaimFingerprint(id) => [f EXCEPT !.stage = "demanded", !.held = rows[id].ep] \in Flows
      BY <1>2, <1>3, <1>8, NextFlows DEF Demand, At
    <2>3. \E g \in Flows \cup {None} : Becomes(s, g)
      BY <1>8, <2>1, <2>2 DEF Demand
    <2>4. ClaimStep(id) \/ UNCHANGED setVars
      BY <1>8 DEF Demand, ClaimStep
    <2>5. QED
      BY <1>0, <1>2, <2>3, <2>4, BecomesOK, SetSteps
  <1>9. QED
    BY <1>4, <1>5, <1>6, <1>7, <1>8

\* A slot applies what a probe brought.
LEMMA ResultIsSet ==
  ASSUME FpInv, NEW s \in Slots, NEW client \in Clients, NEW net \in Nets \cup {None},
         \/ ProbeIdentified(s, client, net) \/ Demanded(s, client, net) \/ AnswerUnclaimed(s, client, net)
         \/ VisitIdentified(s, client) \/ Greet(s, client)
         \/ client \in ELClients /\ (CandidateIdentified(s, client) \/ CandidateHello(s, client)
                                       \/ Hello(s, client))
  PROVE  FlowsOK' /\ [SetNext]_setVars
  <1> DEFINE f == flow[s]  id == flow[s].id
  <1>0. FlowsOK
    BY DEF FpInv
  <1>1. f # None
    BY DEF ProbeIdentified, Demanded, AnswerUnclaimed, VisitIdentified, Greet, CandidateIdentified,
           CandidateHello, Hello, At
  <1>2. /\ f \in Flows /\ id \in Ids /\ f.held \in Endpoints \cup {None}
        /\ f.net \in Nets \cup {None} /\ "el" \in Layers /\ "cl" \in Layers
    BY <1>0, <1>1, InHand DEF Layers
  <1>3. ASSUME NEW layer \in Layers, net # None
        PROVE  /\ [Flow("status", id) EXCEPT !.layer = layer, !.net = net] \in Flows
               /\ [Flow("head", id) EXCEPT !.layer = layer, !.net = net] \in Flows
    BY <1>2, <1>3, NewFlows
  <1>4. ASSUME NEW layer \in Layers, client \in ClientsOf(layer),
               \/ SetFingerprint(id, layer, client) \/ SetClaimedFingerprint(id, layer, client, f.held)
               \/ DiscardClaimedFingerprint(id, layer)
               \/ layer = "el" /\ SetCandidateClient(id, client)
        PROVE  SetNext
    BY <1>2, <1>4, SetSteps DEF ResultStep
  <1>5. CASE ProbeIdentified(s, client, net)
    <2>1. f.layer \in Layers
      BY <1>0, <1>1, <1>5, AtStage DEF ProbeIdentified
    <2>2. \E g \in Flows \cup {None} : Becomes(s, g)
      BY <1>3, <1>5, <2>1 DEF ProbeIdentified, Ends
    <2>3. SetNext
      BY <1>4, <1>5, <2>1 DEF ProbeIdentified
    <2>4. QED
      BY <1>0, <2>2, <2>3, BecomesOK
  <1>6. CASE Demanded(s, client, net)
    <2>1. f.layer \in Layers
      BY <1>0, <1>1, <1>6, AtStage DEF Demanded
    <2>2. \E g \in Flows \cup {None} : Becomes(s, g)
      BY <1>2, <1>3, <1>6, <2>1 DEF Demanded, Ends, Answered
    <2>3. SetNext
      BY <1>4, <1>6, <2>1 DEF Demanded
    <2>4. QED
      BY <1>0, <2>2, <2>3, BecomesOK
  <1>7. CASE AnswerUnclaimed(s, client, net)
    <2>1. f.layer \in Layers
      BY <1>0, <1>1, <1>7, AtStage DEF AnswerUnclaimed
    <2>2. \E g \in Flows \cup {None} : Becomes(s, g)
      BY <1>2, <1>3, <1>7, <2>1 DEF AnswerUnclaimed, Answered
    <2>3. SetNext
      BY <1>4, <1>7, <2>1 DEF AnswerUnclaimed
    <2>4. QED
      BY <1>0, <2>2, <2>3, BecomesOK
  <1>8. CASE VisitIdentified(s, client)
    <2>1. f.layer \in Layers
      BY <1>0, <1>1, <1>8, AtStage DEF VisitIdentified
    <2>2. SetNext /\ Becomes(s, None)
      BY <1>4, <1>8, <2>1 DEF VisitIdentified, Ends
    <2>3. QED
      BY <1>0, <2>2, BecomesOK
  <1>9. CASE Greet(s, client)
    <2>1. f.layer \in Layers
      BY <1>0, <1>1, <1>9, AtStage DEF Greet
    <2>2. f.net # None => [f EXCEPT !.stage = "status"] \in Flows
      BY <1>2, <1>9, NextFlows DEF Greet, At
    <2>3. \E g \in Flows \cup {None} : Becomes(s, g)
      BY <1>9, <2>2 DEF Greet
    <2>4. SetNext
      BY <1>4, <1>9, <2>1 DEF Greet
    <2>5. QED
      BY <1>0, <2>3, <2>4, BecomesOK
  <1>10. CASE client \in ELClients /\ CandidateIdentified(s, client)
    <2>1. f.net \in Nets
      BY <1>0, <1>1, <1>10, AtStage DEF CandidateIdentified
    <2>2. [Flow("head", id) EXCEPT !.layer = "el", !.net = f.net] \in Flows
      BY <1>2, <2>1, NewFlows
    <2>3. \E g \in Flows \cup {None} : Becomes(s, g)
      BY <1>10, <2>2 DEF CandidateIdentified, Ends
    <2>4. SetNext
      BY <1>2, <1>4, <1>10 DEF CandidateIdentified, ClientsOf
    <2>5. QED
      BY <1>0, <2>3, <2>4, BecomesOK
  <1>11. CASE client \in ELClients /\ CandidateHello(s, client)
    <2>1. [f EXCEPT !.stage = "failing"] \in Flows
      BY <1>2, <1>11, NextFlows DEF CandidateHello, At
    <2>2. Becomes(s, [f EXCEPT !.stage = "failing"])
      BY <1>11 DEF CandidateHello
    <2>3. SetNext
      BY <1>2, <1>4, <1>11 DEF CandidateHello, ClientsOf
    <2>4. QED
      BY <1>0, <2>1, <2>2, <2>3, BecomesOK
  <1>12. CASE client \in ELClients /\ Hello(s, client)
    <2>1. SetNext /\ Becomes(s, None)
      BY <1>2, <1>4, <1>12 DEF Hello, ClientsOf, Ends
    <2>2. QED
      BY <1>0, <2>1, BecomesOK
  <1>13. QED
    BY <1>5, <1>6, <1>7, <1>8, <1>9, <1>10, <1>11, <1>12

\* A slot goes on.
LEMMA ContinueIsSet ==
  ASSUME FpInv, NEW s \in Slots, Continue(s)
  PROVE  FlowsOK' /\ [SetNext]_setVars
  <1> DEFINE f == flow[s]  id == flow[s].id
  <1>0. FlowsOK
    BY DEF FpInv
  <1>1. ASSUME f # None
        PROVE  f \in Flows /\ id \in Ids /\ "el" \in Layers
    BY <1>0, <1>1, InHand DEF Layers
  <1>2. ASSUME f # None, NEW layer \in Layers, NEW net \in Nets,
               \/ Stamp(id, layer, net) \/ SetStatus(id, layer, net)
               \/ \E known \in BOOLEAN : SetHead(id, layer, net, known)
        PROVE  SetNext
    BY <1>1, <1>2, SetSteps DEF ResultStep
  <1>3. CASE ProbeFailed(s) \/ CandidateFailed(s) \/ DemandFailed(s)
    <2>1. f # None /\ ClaimStep(id) /\ Becomes(s, None)
      BY <1>3 DEF ProbeFailed, CandidateFailed, DemandFailed, ClaimStep, At, Ends
    <2>2. QED
      BY <1>0, <1>1, <2>1, BecomesOK, SetSteps
  <1>4. CASE StampMembership(s)
    <2>1. f # None
      BY <1>4 DEF StampMembership, At
    <2>2. f.net \in Nets
      BY <1>0, <1>4, <2>1, AtStage DEF StampMembership
    <2>3. [f EXCEPT !.stage = "complete"] \in Flows
      BY <1>1, <1>4, <2>1, NextFlows DEF StampMembership, At
    <2>4. SetNext
      BY <1>1, <1>2, <1>4, <2>1, <2>2 DEF StampMembership
    <2>5. Becomes(s, [f EXCEPT !.stage = "complete"])
      BY <1>4 DEF StampMembership
    <2>6. QED
      BY <1>0, <2>3, <2>4, <2>5, BecomesOK
  <1>5. CASE ApplyStatus(s)
    <2>1. f # None
      BY <1>5 DEF ApplyStatus, At
    <2>2. f.net \in Nets /\ f.layer \in Layers
      BY <1>0, <1>5, <2>1, AtStage DEF ApplyStatus
    <2>3. [f EXCEPT !.stage = "head"] \in Flows
      BY <1>1, <1>5, <2>1, NextFlows DEF ApplyStatus, At
    <2>4. \E g \in Flows \cup {None} : Becomes(s, g)
      BY <1>5, <2>3 DEF ApplyStatus, Ends
    <2>5. SetNext \/ UNCHANGED setVars
      BY <1>2, <1>5, <2>1, <2>2 DEF ApplyStatus
    <2>6. QED
      BY <1>0, <2>4, <2>5, BecomesOK
  <1>6. CASE Authenticate(s)
    <2>1. f # None
      BY <1>6 DEF Authenticate, At
    <2>2. f.net \in Nets /\ f.layer \in Layers /\ f.rec \in Records
      BY <1>0, <1>6, <2>1, AtStage DEF Authenticate
    <2>3. /\ [f EXCEPT !.stage = "visitStamp", !.rec = None] \in Flows
          /\ [f EXCEPT !.stage = "identify", !.rec = None] \in Flows
      BY <1>1, <1>6, <2>1, NextFlows DEF Authenticate, At
    <2>4. \E g \in Flows \cup {None} : Becomes(s, g)
      BY <1>6, <2>3 DEF Authenticate, Ends
    <2>5. Observation(id, Forced(f.rec, [net |-> f.net, layer |-> f.layer]), FALSE, FALSE)
      BY <1>6 DEF Authenticate, Observation
    <2>6. QED
      BY <1>0, <1>1, <2>1, <2>2, <2>4, <2>5, BecomesOK, SetSteps
  <1>7. CASE VisitStamp(s)
    <2>1. f # None
      BY <1>7 DEF VisitStamp, At
    <2>2. f.net \in Nets /\ f.layer \in Layers
      BY <1>0, <1>7, <2>1, AtStage DEF VisitStamp
    <2>3. [f EXCEPT !.stage = "visitHead"] \in Flows
      BY <1>1, <1>7, <2>1, NextFlows DEF VisitStamp, At
    <2>4. SetNext /\ Becomes(s, [f EXCEPT !.stage = "visitHead"])
      BY <1>2, <1>7, <2>1, <2>2 DEF VisitStamp
    <2>5. QED
      BY <1>0, <2>3, <2>4, BecomesOK
  <1>8. CASE Unanswered(s)
    BY <1>0, <1>8, BecomesOK DEF Unanswered, Ends
  <1>9. ASSUME NEW net \in Nets, CandidateStatus(s, net)
        PROVE  FlowsOK' /\ [SetNext]_setVars
    <2>1. f # None
      BY <1>9 DEF CandidateStatus, At
    <2>2. f.rec \in Records
      BY <1>0, <1>9, <2>1, AtStage DEF CandidateStatus
    <2>3. /\ [f EXCEPT !.stage = "stamp", !.net = net] \in Flows
          /\ [f EXCEPT !.stage = "release"] \in Flows
      BY <1>1, <1>9, <2>1, NextFlows DEF CandidateStatus, At
    <2>4. \E g \in Flows \cup {None} : Becomes(s, g)
      BY <1>9, <2>3 DEF CandidateStatus
    <2>5. Observation(id, Forced(f.rec, [net |-> net, layer |-> "el"]), FALSE, FALSE)
      BY <1>9 DEF CandidateStatus, Observation
    <2>6. QED
      BY <1>0, <1>1, <2>1, <2>2, <2>4, <2>5, BecomesOK, SetSteps
  <1>10. ASSUME NEW known \in BOOLEAN, ApplyHead(s, known)
         PROVE  FlowsOK' /\ [SetNext]_setVars
    <2>1. f # None
      BY <1>10 DEF ApplyHead, At
    <2>2. f.net \in Nets /\ f.layer \in Layers
      BY <1>0, <1>10, <2>1, AtStage DEF ApplyHead
    <2>3. SetNext /\ Becomes(s, None)
      BY <1>2, <1>10, <2>1, <2>2 DEF ApplyHead, Ends
    <2>4. QED
      BY <1>0, <2>3, BecomesOK
  <1>11. ASSUME NEW known \in BOOLEAN, VisitHead(s, known)
         PROVE  FlowsOK' /\ [SetNext]_setVars
    <2>1. f # None
      BY <1>11 DEF VisitHead, At
    <2>2. f.net \in Nets /\ f.layer \in Layers
      BY <1>0, <1>11, <2>1, AtStage DEF VisitHead
    <2>3. [f EXCEPT !.stage = "identify"] \in Flows
      BY <1>1, <1>11, <2>1, NextFlows DEF VisitHead, At
    <2>4. SetNext /\ Becomes(s, [f EXCEPT !.stage = "identify"])
      BY <1>2, <1>11, <2>1, <2>2 DEF VisitHead
    <2>5. QED
      BY <1>0, <2>3, <2>4, BecomesOK
  <1>12. CASE \E client \in Clients :
                \/ \E net \in Nets \cup {None} :
                     ProbeIdentified(s, client, net) \/ Demanded(s, client, net)
                       \/ AnswerUnclaimed(s, client, net)
                \/ VisitIdentified(s, client) \/ Greet(s, client)
    BY <1>12, ResultIsSet
  <1>13. CASE \E client \in ELClients :
                CandidateIdentified(s, client) \/ CandidateHello(s, client) \/ Hello(s, client)
    BY <1>13, ResultIsSet DEF Clients
  <1>14. CASE \/ Convert(s) \/ Claim(s) \/ Defer(s) \/ Enqueue(s) \/ Cancel(s) \/ Release(s) \/ Demand(s)
    BY <1>14, ClaimingIsSet
  <1>15. QED
    BY <1>3, <1>4, <1>5, <1>6, <1>7, <1>8, <1>9, <1>10, <1>11, <1>12, <1>13, <1>14 DEF Continue

LEMMA StepIsSet ==
  ASSUME FpInv, [FpNext]_fpVars
  PROVE  FlowsOK' /\ [SetNext]_setVars
  <1>0. FlowsOK
    BY DEF FpInv
  <1>1. CASE UNCHANGED fpVars
    BY <1>0, <1>1 DEF fpVars, setVars, FlowsOK
  <1>2. CASE \E s \in Slots : Begin(s) \/ Continue(s)
    BY <1>2, BeginIsSet, ContinueIsSet
  <1>3. CASE Environment
    <2>1. ASSUME NEW id \in Ids, NEW rec \in Records, RetainCandidate(id, rec)
          PROVE  FlowsOK' /\ [SetNext]_setVars
      BY <1>0, <2>1 DEF RetainCandidate, FlowsOK, SetNext
    <2>2. ASSUME NEW id \in Ids, RetryComes(id) \/ PenalizeUnresolved(id)
          PROVE  FlowsOK' /\ [SetNext]_setVars
      BY <1>0, <2>2, SetSteps DEF RetryComes, PenalizeUnresolved, ClaimStep, FlowsOK
    <2>3. ASSUME NEW S \in SUBSET Ids, PrunePublished(S)
          PROVE  FlowsOK' /\ [SetNext]_setVars
      BY <1>0, <2>3 DEF PrunePublished, FlowsOK, SetNext
    <2>4. ASSUME NEW S \in SUBSET Ids, RestartProcess(S)
          PROVE  FlowsOK' /\ [SetNext]_setVars
      BY <1>0, <2>4 DEF RestartProcess, FlowsOK, SetNext
    <2>5. CASE Stop \/ Close
      BY <1>0, <2>5 DEF Stop, Close, FlowsOK, setVars
    <2>6. QED
      BY <1>3, <2>1, <2>2, <2>3, <2>4, <2>5 DEF Environment
  <1>4. QED
    BY <1>1, <1>2, <1>3 DEF FpNext

LEMMA FpInvInit == FpInit => FpInv
  BY SetInvInit DEF FpInit, FpInv, FlowsOK

LEMMA FpInvStep == FpInv /\ [FpNext]_fpVars => FpInv' /\ [SetNext]_setVars
  BY StepIsSet, SetInvStep DEF FpInv

LEMMA FpInvAlways == FpSpec => []FpInv
  BY FpInvInit, FpInvStep, PTL DEF FpSpec

\* Whatever the crawler's goroutines do to the table of nodes, in whatever order, is
\* done by the table's own operations: the crawler implements the table that any
\* caller may use.
THEOREM FlowImplementsSet == FpSpec => SetSpec
  <1>1. FpInit => SetInit
    BY DEF FpInit
  <1>2. QED
    BY <1>1, FpInvAlways, FpInvStep, PTL DEF FpSpec, SetSpec

\* So the counter of candidates, the heads and the identities are right in the crawler,
\* with results applied in several steps and connections and requests between them.
THEOREM CrawlerKeepsTable == FpSpec => [](CandidatesExact /\ HeadMatches /\ IdentityOfLayer)
  BY FlowImplementsSet, CandidatesCounted, HeadsMatch, IdentitiesMatchLayer, PTL

-----------------------------------------------------------------------------
(* 6. Rows *)

\* A row that keeps what Calm is about.
LEMMA SameCalm ==
  ASSUME NEW n, NEW m, m.inFlight = n.inFlight, m.refresh = n.refresh, m.ep = n.ep,
         m.net = n.net, m.enr = n.enr, m.layer = n.layer, m.done = n.done,
         m.refreshDue = n.refreshDue, m.proof = n.proof, n # None, m # None
  PROVE  Calm(n, m)
  BY DEF Calm, Retained, Proven, Fresh

LEMMA NotNone == \A n \in RowType : n # None
  BY SetAssumption

\* A sighting changes the score of a row, or drops it.
LEMMA TouchedCalm ==
  ASSUME NEW n \in RowType, NEW fallback \in BOOLEAN, NEW pin \in BOOLEAN, NEW m \in Touched(n, fallback, pin)
  PROVE  /\ ~fallback => m # None
         /\ m # None => m \in RowType /\ Calm(n, m)
  <1> DEFINE Scored(low, pinned) == [n EXCEPT !.low = low, !.pinned = pinned]
  <1>1. n.low \in BOOLEAN /\ n.pinned \in BOOLEAN
    BY DEF RowType
  <1>2. ASSUME NEW low \in BOOLEAN, NEW pinned \in BOOLEAN
        PROVE  LET k == Scored(low, pinned)
               IN k \in RowType /\ Calm(n, k)
    <2>1. Scored(low, pinned) \in RowType
      BY DEF RowType
    <2>2. LET k == Scored(low, pinned)
          IN /\ k.inFlight = n.inFlight /\ k.refresh = n.refresh /\ k.ep = n.ep
             /\ k.net = n.net /\ k.enr = n.enr /\ k.layer = n.layer /\ k.done = n.done
             /\ k.refreshDue = n.refreshDue /\ k.proof = n.proof
      BY DEF RowType
    <2>3. QED
      BY <2>1, <2>2, SameCalm, NotNone
  <1>3. ASSUME NEW low \in BOOLEAN
        PROVE  /\ [n EXCEPT !.low = low] = Scored(low, n.pinned)
               /\ [[n EXCEPT !.low = low] EXCEPT !.low = FALSE, !.pinned = TRUE] = Scored(FALSE, TRUE)
               /\ n = Scored(n.low, n.pinned)
    BY DEF RowType
  <1>4. \/ \E low \in BOOLEAN : m = [n EXCEPT !.low = low]
        \/ \E low \in BOOLEAN : m = [[n EXCEPT !.low = low] EXCEPT !.low = FALSE, !.pinned = TRUE]
        \/ m = n \/ m = Scored(FALSE, TRUE)
        \/ m = None /\ fallback
    BY DEF Touched
  <1> HIDE DEF Scored
  <1>5. (m = None /\ fallback) \/ (m \in RowType /\ Calm(n, m))
    BY <1>1, <1>2, <1>3, <1>4, ZenonT(60)
  <1>6. QED
    BY <1>5, NotNone

\* A changed record marks a row that is in flight, and makes an identity due.
LEMMA RefreshedFields ==
  ASSUME NEW n \in RowType, NEW e \in RecordType, NEW expired \in BOOLEAN
  PROVE  LET r == Refreshed(n, e, expired)
         IN /\ r \in RowType
            /\ r.inFlight = n.inFlight /\ r.ep = n.ep /\ r.done = n.done /\ r.proof = n.proof
            /\ r.net = n.net /\ r.layer = n.layer
            /\ n.refresh => r.refresh
            /\ n.inFlight /\ ~r.refresh => e.ep = n.ep
            /\ n.done /\ ~r.refreshDue => ~n.refreshDue /\ e.ep = n.ep
  <1> DEFINE r == Refreshed(n, e, expired)
  <1>1. CASE ~(RecordChanged(n, e) \/ expired)
    <2>1. r = n /\ e.ep = n.ep
      BY <1>1 DEF Refreshed, RecordChanged
    <2>2. QED
      BY <2>1
  <1>2. CASE RecordChanged(n, e) \/ expired
    <2> DEFINE Edit(q, c, x, a, w) ==
          [n EXCEPT !.refreshDue = q, !.client = c, !.refresh = x, !.attempts = a, !.waiting = w]
    <2>1. ASSUME NEW q \in BOOLEAN, NEW c \in Clients \cup {None}, NEW x \in BOOLEAN,
                 NEW a \in Nat, NEW w \in BOOLEAN
          PROVE  /\ Edit(q, c, x, a, w) \in RowType
                 /\ Edit(q, c, x, a, w).refreshDue = q /\ Edit(q, c, x, a, w).refresh = x
                 /\ Edit(q, c, x, a, w).inFlight = n.inFlight /\ Edit(q, c, x, a, w).ep = n.ep
                 /\ Edit(q, c, x, a, w).done = n.done /\ Edit(q, c, x, a, w).proof = n.proof
                 /\ Edit(q, c, x, a, w).net = n.net /\ Edit(q, c, x, a, w).layer = n.layer
      <3>1. Edit(q, c, x, a, w) \in RowType
        BY DEF RowType
      <3>2. /\ Edit(q, c, x, a, w).inFlight = n.inFlight /\ Edit(q, c, x, a, w).ep = n.ep
            /\ Edit(q, c, x, a, w).done = n.done /\ Edit(q, c, x, a, w).proof = n.proof
            /\ Edit(q, c, x, a, w).net = n.net /\ Edit(q, c, x, a, w).layer = n.layer
        BY DEF RowType
      <3>3. Edit(q, c, x, a, w).refreshDue = q /\ Edit(q, c, x, a, w).refresh = x
        BY DEF RowType
      <3>4. QED
        BY <3>1, <3>2, <3>3
    <2> DEFINE due == n.refreshDue \/ n.done
               client == IF n.done THEN n.client ELSE None
               mark == n.refresh \/ (RecordChanged(n, e) /\ n.inFlight)
               attempts == IF n.inFlight THEN n.attempts ELSE 0
               waiting == n.waiting /\ n.inFlight
    <2>2. due \in BOOLEAN /\ mark \in BOOLEAN /\ waiting \in BOOLEAN
      BY DEF RowType
    <2>3. client \in Clients \cup {None} /\ attempts \in Nat
      BY DEF RowType
    <2>4. r = Edit(due, client, mark, attempts, waiting)
      BY <1>2 DEF Refreshed
    <2>5. /\ due = FALSE => ~n.refreshDue /\ ~n.done
          /\ n.refresh => mark
          /\ n.inFlight /\ ~mark => e.ep = n.ep
      BY DEF RecordChanged
    <2> HIDE DEF Edit, r, due, client, mark, attempts, waiting
    <2>6. /\ r \in RowType /\ r.refreshDue = due /\ r.refresh = mark
          /\ r.inFlight = n.inFlight /\ r.ep = n.ep /\ r.done = n.done
          /\ r.proof = n.proof /\ r.net = n.net /\ r.layer = n.layer
      BY <2>1, <2>2, <2>3, <2>4
    <2>7. QED
      BY <2>2, <2>5, <2>6 DEF r
  <1>3. QED
    BY <1>1, <1>2

\* The row that takes over a record: what was claimed of it stays claimed.
LEMMA TakeOverFields ==
  ASSUME NEW n \in RowType, NEW e \in RecordType
  PROVE  LET o == TakeOver(n, e)
         IN /\ o \in RowType
            /\ o.inFlight = n.inFlight /\ o.ep = e.ep /\ o.enr
            /\ n.refresh => o.refresh
            /\ o.done => n.done /\ o.refreshDue = n.refreshDue /\ o.proof = n.proof
            /\ o.proof \in {n.proof, None}
  <1> DEFINE layered == e.layer # "unknown" /\ e.layer # n.layer
             c == ClearFingerprint(n)
             m == IF layered /\ n.layer # "" THEN c ELSE n
             head == IF layered \/ (e.net # None /\ e.net # n.net) THEN None ELSE m.head
             net == IF e.net # None THEN e.net ELSE m.net
             layer == IF layered THEN e.layer ELSE m.layer
             client == IF m.client = None THEN e.client ELSE m.client
             o == TakeOver(n, e)
  <1>1. /\ c \in RowType /\ c.done = FALSE /\ c.proof = None /\ c.inFlight = n.inFlight
        /\ n.refresh => c.refresh
    <2>1. ASSUME NEW x \in BOOLEAN
          PROVE  LET d == [n EXCEPT !.client = None, !.done = FALSE, !.refreshDue = FALSE,
                                    !.attempts = 0, !.waiting = FALSE, !.refresh = x, !.proof = None]
                 IN d \in RowType /\ d.refresh = x /\ d.done = FALSE /\ d.proof = None
                    /\ d.inFlight = n.inFlight
      BY ZenonT(60) DEF RowType
    <2>2. (n.refresh \/ n.inFlight) \in BOOLEAN
      BY DEF RowType
    <2>3. QED
      BY <2>1, <2>2 DEF ClearFingerprint
  <1> HIDE DEF c
  <1>2. /\ m \in RowType /\ m.inFlight = n.inFlight /\ (n.refresh => m.refresh)
        /\ m.done => m = n
        /\ m.proof \in {n.proof, None}
    BY <1>1
  <1>3. TakeOver(n, e) = [m EXCEPT !.seq = e.seq, !.ep = e.ep, !.enr = TRUE, !.head = head,
                                   !.net = net, !.layer = layer, !.client = client]
    BY DEF TakeOver, c
  <1>4. /\ head \in [layer: Layers, net: Nets] \cup {None} /\ net \in Nets \cup {None}
        /\ layer \in Layers \cup {""} /\ client \in Clients \cup {None}
        /\ e.seq \in Nat /\ e.ep \in Endpoints
    BY <1>2 DEF RowType, RecordType
  <1> HIDE DEF m, head, net, layer, client
  <1>5. o \in RowType
    BY <1>2, <1>3, <1>4, ZenonT(60) DEF RowType
  <1>6. /\ o.inFlight = m.inFlight /\ o.ep = e.ep /\ o.enr = TRUE /\ o.refresh = m.refresh
        /\ o.done = m.done /\ o.refreshDue = m.refreshDue /\ o.proof = m.proof
    BY <1>2, <1>3 DEF RowType
  <1> HIDE DEF o
  <1>7. QED
    BY <1>2, <1>5, <1>6, Zenon DEF o

\* Observing a record of a known id.
LEMMA ObservedCalm ==
  ASSUME NEW n \in RowType, NEW e \in RecordType, NEW expired \in BOOLEAN
  PROVE  LET o == TakeOver(Refreshed(n, e, expired), e)
         IN o \in RowType /\ Calm(n, o) /\ o.enr
  <1> DEFINE r == Refreshed(n, e, expired)  o == TakeOver(r, e)
  <1>1. /\ r \in RowType
        /\ r.inFlight = n.inFlight /\ r.ep = n.ep /\ r.done = n.done /\ r.proof = n.proof
        /\ n.refresh => r.refresh
        /\ n.inFlight /\ ~r.refresh => e.ep = n.ep
        /\ n.done /\ ~r.refreshDue => ~n.refreshDue /\ e.ep = n.ep
    BY RefreshedFields
  <1>2. /\ o \in RowType
        /\ o.inFlight = r.inFlight /\ o.ep = e.ep /\ o.enr
        /\ r.refresh => o.refresh
        /\ o.done => r.done /\ o.refreshDue = r.refreshDue /\ o.proof = r.proof
    BY <1>1, TakeOverFields
  <1> HIDE DEF r, o
  <1>3. ~Retained(o)
    BY <1>2 DEF Retained
  <1>4. o.inFlight /\ ~o.refresh => ~n.refresh /\ o.ep = n.ep
    BY <1>1, <1>2
  <1>5. Proven(n) => Proven(o)
    BY <1>1, <1>2, <1>3, NotNone DEF Proven, Fresh
  <1>6. QED
    BY <1>1, <1>2, <1>3, <1>4, <1>5 DEF Calm, o, r

\* A new row is not claimed and has no identity.
LEMMA NewRowCalm ==
  ASSUME NEW e \in RecordType, NEW low \in BOOLEAN, NEW pin \in BOOLEAN
  PROVE  /\ LET o == TakeOver(NewRow(e, low, pin), e)
            IN o \in RowType /\ ~o.inFlight /\ Proven(o) /\ o.enr
         /\ LET o == [NewRow(e, low, pin) EXCEPT !.layer = "el", !.enr = FALSE]
            IN o \in RowType /\ ~o.inFlight /\ Proven(o)
  <1> DEFINE n == NewRow(e, low, pin)  o == TakeOver(n, e)
             k == [n EXCEPT !.layer = "el", !.enr = FALSE]
  <1>1. n \in RowType /\ n.inFlight = FALSE /\ n.done = FALSE /\ n.proof = None
    BY NewRowGood DEF Good, NewRow
  <1>2. k \in RowType /\ k.inFlight = FALSE /\ k.done = FALSE /\ k.proof = None /\ k.layer = "el"
    BY NewRowGood, ZenonT(60) DEF Good, NewRow
  <1> HIDE DEF n
  <1>3. /\ o \in RowType /\ o.inFlight = n.inFlight /\ o.enr
        /\ o.done => n.done
        /\ o.proof \in {n.proof, None}
    BY <1>1, TakeOverFields
  <1> HIDE DEF o, k
  <1>4. Proven(o) /\ Proven(k)
    BY <1>1, <1>2, <1>3 DEF Proven, Fresh, Retained
  <1>5. QED
    BY <1>1, <1>2, <1>3, <1>4 DEF o, n, k

\* Edits of one field or of the state of the retries.
LEMMA EditedCalm ==
  ASSUME NEW n \in RowType
  PROVE  /\ Calm(n, n)
         /\ LET m == [n EXCEPT !.waiting = FALSE] IN m # None /\ Calm(n, m)
         /\ \A client \in Clients : LET m == [n EXCEPT !.client = client] IN m # None /\ Calm(n, m)
         /\ \A head \in [layer: Layers, net: Nets] \cup {None} :
              LET m == [n EXCEPT !.head = head] IN m # None /\ Calm(n, m)
         /\ n.net # None => LET m == [n EXCEPT !.enr = FALSE] IN m # None /\ Calm(n, m)
         /\ LET m == [n EXCEPT !.layer = "el"] IN m # None /\ Calm(n, m)
         /\ \A net \in Nets, low \in BOOLEAN : \A head \in [layer: Layers, net: Nets] \cup {None} :
              LET m == [n EXCEPT !.net = net, !.low = low, !.head = head] IN m # None /\ Calm(n, m)
         /\ \A client \in Clients :
              LET m == Identified(n, client, None) IN m # None /\ Calm(n, m)
  <1>1. Calm(n, n)
    BY NotNone, SameCalm
  <1>2. ASSUME NEW m, \/ m = [n EXCEPT !.waiting = FALSE]
                      \/ \E client \in Clients : m = [n EXCEPT !.client = client]
                      \/ \E head \in [layer: Layers, net: Nets] \cup {None} : m = [n EXCEPT !.head = head]
        PROVE  m # None /\ Calm(n, m)
    <2>1. m \in RowType
      BY <1>2, ZenonT(60) DEF RowType
    <2>2. /\ m.inFlight = n.inFlight /\ m.refresh = n.refresh /\ m.ep = n.ep
          /\ m.net = n.net /\ m.enr = n.enr /\ m.layer = n.layer /\ m.done = n.done
          /\ m.refreshDue = n.refreshDue /\ m.proof = n.proof
      BY <1>2 DEF RowType
    <2>3. QED
      BY <2>1, <2>2, SameCalm, NotNone
  <1>3. ASSUME NEW m, (m = [n EXCEPT !.enr = FALSE] /\ n.net # None) \/ m = [n EXCEPT !.layer = "el"]
        PROVE  m # None /\ Calm(n, m)
    <2>1. m \in RowType
      BY <1>3, ZenonT(60) DEF RowType, Layers
    <2>2. /\ m.inFlight = n.inFlight /\ m.refresh = n.refresh /\ m.ep = n.ep
          /\ m.net = n.net /\ m.done = n.done
          /\ m.refreshDue = n.refreshDue /\ m.proof = n.proof
          /\ m.net # None \/ (m.enr = n.enr /\ m.layer = "el")
      BY <1>3 DEF RowType
    <2>3. QED
      BY <2>1, <2>2, NotNone DEF Calm, Proven, Retained, Fresh
  <1>4. ASSUME NEW m, NEW net \in Nets, NEW head \in [layer: Layers, net: Nets] \cup {None},
               NEW low \in BOOLEAN, m = [n EXCEPT !.net = net, !.low = low, !.head = head]
        PROVE  m # None /\ Calm(n, m)
    <2>1. m \in RowType
      BY <1>4 DEF RowType
    <2>2. /\ m.inFlight = n.inFlight /\ m.refresh = n.refresh /\ m.ep = n.ep
          /\ m.net = net /\ m.done = n.done
          /\ m.refreshDue = n.refreshDue /\ m.proof = n.proof
      BY <1>4 DEF RowType
    <2>3. net # None
      BY SetAssumption
    <2>4. QED
      BY <2>1, <2>2, <2>3, NotNone DEF Calm, Proven, Retained, Fresh
  <1>5. ASSUME NEW m, NEW client \in Clients, m = Identified(n, client, None)
        PROVE  m # None /\ Calm(n, m)
    <2>1. m \in RowType
      BY <1>5 DEF RowType, Identified
    <2>2. /\ m.inFlight = n.inFlight /\ m.refresh = n.refresh /\ m.ep = n.ep
          /\ m.net = n.net /\ m.enr = n.enr /\ m.layer = n.layer /\ m.proof = None
      BY <1>5 DEF RowType, Identified
    <2>3. QED
      BY <2>1, <2>2, NotNone DEF Calm, Proven, Retained, Fresh
  <1>6. QED
    BY <1>1, <1>2, <1>3, <1>4, <1>5

\* A candidate that is seen again, perhaps elsewhere.
LEMMA CandidateCalm ==
  ASSUME NEW n \in RowType, NEW e \in RecordType, NEW expired \in BOOLEAN
  PROVE  LET q == n.refreshDue \/ expired
             m == IF IsELCandidate(n) /\ n.seq = 0 /\ ~n.enr
                    THEN [n EXCEPT !.refreshDue = q, !.ep = e.ep,
                                   !.refresh = n.refresh \/ (RecordChanged(n, e) /\ n.inFlight)]
                    ELSE [n EXCEPT !.refreshDue = q]
         IN m # None /\ Calm(n, m)
  <1> DEFINE q == n.refreshDue \/ expired
             x == n.refresh \/ (RecordChanged(n, e) /\ n.inFlight)
             moved == [n EXCEPT !.refreshDue = q, !.ep = e.ep, !.refresh = x]
             seen == [n EXCEPT !.refreshDue = q]
  <1>1. q \in BOOLEAN /\ x \in BOOLEAN /\ e.ep \in Endpoints
    BY DEF RowType, RecordType
  <1>2. /\ n.refreshDue => q
        /\ n.refresh => x
        /\ n.inFlight /\ ~x => e.ep = n.ep
    BY DEF RecordChanged
  <1> HIDE DEF q, x
  <1>3. moved \in RowType /\ seen \in RowType
    BY <1>1, ZenonT(60) DEF RowType
  <1>4. /\ moved.inFlight = n.inFlight /\ moved.refresh = x /\ moved.ep = e.ep
        /\ moved.net = n.net /\ moved.enr = n.enr /\ moved.layer = n.layer /\ moved.proof = n.proof
    BY <1>1 DEF RowType
  <1>5. /\ seen.inFlight = n.inFlight /\ seen.refresh = n.refresh /\ seen.ep = n.ep
        /\ seen.net = n.net /\ seen.enr = n.enr /\ seen.layer = n.layer /\ seen.proof = n.proof
        /\ seen.done = n.done /\ seen.refreshDue = q
    BY <1>1 DEF RowType
  <1> HIDE DEF moved, seen
  <1>6. Calm(n, seen)
    BY <1>2, <1>3, <1>5, NotNone DEF Calm, Proven, Retained, Fresh
  <1>7. IsELCandidate(n) /\ ~n.enr => Calm(n, moved)
    BY <1>2, <1>3, <1>4, NotNone DEF Calm, Proven, Retained, Fresh, IsELCandidate
  <1>8. QED
    BY <1>3, <1>6, <1>7, NotNone DEF moved, seen, q, x

-----------------------------------------------------------------------------
(* 7. Operations that begin and end no claim *)

LEMMA RowHere ==
  ASSUME RowsOK, NEW id \in Ids
  PROVE  rows[id] # None => rows[id] \in RowType
  BY DEF RowsOK, Good

LEMMA SameQuiet ==
  ASSUME RowsOK, UNCHANGED rows
  PROVE  Quiet
  <1>1. \A id \in Ids : rows[id] # None => Calm(rows[id], rows[id])
    BY RowHere, EditedCalm
  <1>2. QED
    BY <1>1 DEF Quiet, Gentle, Kept

\* One row changes.
LEMMA ChangeQuiet ==
  ASSUME RowsOK, NEW id \in Ids, NEW m, rows' = [rows EXCEPT ![id] = m],
         rows[id] # None, m # None => Calm(rows[id], m), NoRemovals => m # None
  PROVE  Quiet
  <1>1. \A u \in Ids : rows[u] # None => Calm(rows[u], rows[u])
    BY RowHere, EditedCalm
  <1>2. \A u \in Ids : rows'[u] = IF u = id THEN m ELSE rows[u]
    BY DEF RowsOK
  <1>3. Gentle
    BY <1>1, <1>2 DEF Gentle
  <1>4. NoRemovals => Kept
    BY <1>2 DEF Kept
  <1>5. QED
    BY <1>3, <1>4 DEF Quiet

\* One row is new, others may go for it.
LEMMA NewQuiet ==
  ASSUME RowsOK, NEW id \in Ids, NEW m, NEW S, Update(id, m, S), NoRemovals => S = {},
         rows[id] = None, ~m.inFlight, Proven(m)
  PROVE  Quiet
  <1>1. \A u \in Ids : rows[u] # None => Calm(rows[u], rows[u])
    BY RowHere, EditedCalm
  <1>2. \A u \in Ids : rows'[u] = IF u = id THEN m ELSE IF u \in S THEN None ELSE rows[u]
    BY DEF Update
  <1>3. Gentle
    BY <1>1, <1>2 DEF Gentle
  <1>4. NoRemovals => Kept
    BY <1>2 DEF Kept
  <1>5. QED
    BY <1>3, <1>4 DEF Quiet

LEMMA UpdateOne ==
  ASSUME RowsOK, NEW id \in Ids, NEW m, Update(id, m, {})
  PROVE  rows' = [rows EXCEPT ![id] = m]
  BY DEF Update, RowsOK

\* A table with room for every node has room for one that is not there.
LEMMA Roomy ==
  ASSUME NoRemovals, NEW id \in Ids, rows[id] = None
  PROVE  Cardinality(Present(rows)) < Max
  <1>1. IsFiniteSet(Ids \ {id}) /\ Cardinality(Ids \ {id}) = Cardinality(Ids) - 1
    BY SetAssumption, FS_RemoveElement
  <1>2. Present(rows) \subseteq Ids \ {id}
    BY DEF Present
  <1>3. Cardinality(Present(rows)) <= Cardinality(Ids \ {id})
    BY <1>1, <1>2, FS_Subset
  <1>4. QED
    BY <1>1, <1>3, PresentFinite, SetAssumption, FS_CardinalityType DEF NoRemovals

LEMMA ObservationQuiet ==
  ASSUME RowsOK, NEW id \in Ids, NEW e \in RecordType, NEW fallback \in BOOLEAN, NEW pin \in BOOLEAN,
         Observation(id, e, fallback, pin), fallback => Removals
  PROVE  /\ Quiet
         /\ ObserveApplied(id, e, fallback, pin) => rows'[id] # None /\ rows'[id].enr
  <1>0. NoRemovals => ~fallback
    BY DEF NoRemovals
  <1>1. ASSUME ObserveKnown(id, e, fallback, pin)
        PROVE  Quiet /\ rows'[id] # None /\ rows'[id].enr
    <2>1. PICK n \in Touched(rows[id], fallback, pin) \ {None}, expired \in MayExpire(rows[id]) :
            Update(id, TakeOver(Refreshed(n, e, expired), e), {})
      BY <1>1 DEF ObserveKnown
    <2> DEFINE o == TakeOver(Refreshed(n, e, expired), e)
    <2>2. rows[id] # None /\ rows[id] \in RowType
      BY <1>1, RowHere DEF ObserveKnown
    <2>3. n \in RowType /\ Calm(rows[id], n)
      BY <2>1, <2>2, TouchedCalm
    <2>4. expired \in BOOLEAN
      BY <2>1 DEF MayExpire
    <2>5. o \in RowType /\ Calm(n, o) /\ o.enr
      BY <2>3, <2>4, ObservedCalm
    <2>6. rows' = [rows EXCEPT ![id] = o] /\ rows'[id] = o
      BY <2>1, UpdateOne DEF RowsOK
    <2> HIDE DEF o
    <2>7. Calm(rows[id], o) /\ o # None
      BY <2>3, <2>5, NotNone DEF Calm
    <2>8. QED
      BY <2>2, <2>5, <2>6, <2>7, ChangeQuiet
  <1>2. ASSUME ObserveNew(id, e, fallback, pin)
        PROVE  Quiet /\ rows'[id] # None /\ rows'[id].enr
    <2> DEFINE class == IF pin THEN 0 ELSE IF fallback THEN 3 ELSE IF e.net # None THEN 1 ELSE 2
               o == TakeOver(NewRow(e, fallback, pin), e)
    <2>1. PICK S \in RoomFor(class) : Update(id, o, S)
      BY <1>2 DEF ObserveNew
    <2>2. rows[id] = None
      BY <1>2 DEF ObserveNew
    <2>3. NoRemovals => S = {}
      BY <2>1, <2>2, Roomy DEF RoomFor
    <2>4. o \in RowType /\ ~o.inFlight /\ Proven(o) /\ o.enr
      BY NewRowCalm
    <2> HIDE DEF o
    <2>5. rows'[id] = o
      BY <2>1 DEF Update
    <2>6. QED
      BY <2>1, <2>2, <2>3, <2>4, <2>5, NewQuiet, NotNone
  <1>3. CASE ObserveStale(id, e, fallback, pin)
    <2>1. PICK n \in Touched(rows[id], fallback, pin) : Update(id, n, {})
      BY <1>3 DEF ObserveStale
    <2>2. rows[id] # None /\ rows[id] \in RowType
      BY <1>3, RowHere DEF ObserveStale
    <2>3. (~fallback => n # None) /\ (n # None => Calm(rows[id], n))
      BY <2>1, <2>2, TouchedCalm
    <2>4. rows' = [rows EXCEPT ![id] = n]
      BY <2>1, UpdateOne
    <2>5. Quiet
      BY <1>0, <2>2, <2>3, <2>4, ChangeQuiet
    <2>6. QED
      BY <1>1, <1>2, <2>5 DEF ObserveApplied
  <1>4. CASE ObserveRefused(id, e, fallback, pin)
    <2>1. Quiet
      BY <1>4, SameQuiet DEF ObserveRefused, setVars
    <2>2. QED
      BY <1>1, <1>2, <2>1 DEF ObserveApplied
  <1>5. QED
    BY <1>1, <1>2, <1>3, <1>4 DEF Observation, ObserveApplied

LEMMA CandidateQuiet ==
  ASSUME RowsOK, NEW id \in Ids, NEW e \in RecordType,
         ObserveCandidateKnown(id, e) \/ ObserveCandidateNew(id, e)
  PROVE  Quiet
  <1>1. CASE ObserveCandidateKnown(id, e)
    <2> DEFINE n == rows[id]
               M(expired) == IF IsELCandidate(n) /\ n.seq = 0 /\ ~n.enr
                    THEN [n EXCEPT !.refreshDue = n.refreshDue \/ expired, !.ep = e.ep,
                                   !.refresh = n.refresh \/ (RecordChanged(n, e) /\ n.inFlight)]
                    ELSE [n EXCEPT !.refreshDue = n.refreshDue \/ expired]
    <2>1. n # None /\ n \in RowType
      BY <1>1, RowHere DEF ObserveCandidateKnown
    <2>2. PICK expired \in MayExpire(n) : rows' = [rows EXCEPT ![id] = M(expired)]
      BY <1>1 DEF ObserveCandidateKnown
    <2>3. expired \in BOOLEAN
      BY <2>2 DEF MayExpire
    <2>4. M(expired) # None /\ Calm(n, M(expired))
      BY <2>1, <2>3, CandidateCalm
    <2> HIDE DEF M
    <2>5. QED
      BY <2>1, <2>2, <2>4, ChangeQuiet
  <1>2. CASE ObserveCandidateNew(id, e)
    <2> DEFINE o == [NewRow(e, FALSE, FALSE) EXCEPT !.layer = "el", !.enr = FALSE]
    <2>1. rows[id] = None /\ Update(id, o, {})
      BY <1>2 DEF ObserveCandidateNew
    <2>2. ~o.inFlight /\ Proven(o)
      BY NewRowCalm
    <2> HIDE DEF o
    <2>3. QED
      BY <2>1, <2>2, NewQuiet
  <1>3. QED
    BY <1>1, <1>2

LEMMA EditsQuiet ==
  ASSUME RowsOK, NEW id \in Ids
  PROVE  /\ RetryDue(id) \/ SetExecutionCandidateLayer(id) => Quiet
         /\ \A client \in Clients : SetCandidateClient(id, client) => Quiet
         /\ \A layer \in Layers : \A client \in Clients : SetFingerprint(id, layer, client) => Quiet
         /\ \A layer \in Layers, net \in Nets :
              /\ Stamp(id, layer, net) \/ SetStatus(id, layer, net) => Quiet
              /\ \A known \in BOOLEAN : SetHead(id, layer, net, known) => Quiet
  <1> DEFINE n == rows[id]
  <1>1. ASSUME NEW m, rows' = [rows EXCEPT ![id] = m], n = None => m = None,
               n # None => m # None /\ Calm(n, m)
        PROVE  Quiet
    <2>1. CASE n = None
      <3>1. UNCHANGED rows
        BY <1>1, <2>1 DEF RowsOK
      <3>2. QED
        BY <3>1, SameQuiet
    <2>2. CASE n # None
      BY <1>1, <2>2, ChangeQuiet
    <2>3. QED
      BY <2>1, <2>2
  <1>2. n # None => n \in RowType
    BY RowHere
  <1>3. ASSUME RetryDue(id) PROVE Quiet
    <2>1. n # None /\ rows' = [rows EXCEPT ![id] = [n EXCEPT !.waiting = FALSE]]
      BY <1>3 DEF RetryDue
    <2>2. QED
      BY <1>1, <1>2, <2>1, EditedCalm
  <1>4. ASSUME SetExecutionCandidateLayer(id) PROVE Quiet
    <2>1. n # None /\ rows' = [rows EXCEPT ![id] = [n EXCEPT !.layer = "el"]]
      BY <1>4, UpdateOne DEF SetExecutionCandidateLayer, Convertible
    <2>2. QED
      BY <1>1, <1>2, <2>1, EditedCalm
  <1>5. ASSUME NEW client \in Clients, SetCandidateClient(id, client) PROVE Quiet
    <2> DEFINE m == IF IsELCandidate(n) THEN [n EXCEPT !.client = client] ELSE n
    <2>1. rows' = [rows EXCEPT ![id] = m]
      BY <1>5 DEF SetCandidateClient
    <2>2. n # None => m # None /\ Calm(n, m)
      BY <1>2, EditedCalm
    <2>3. n = None => m = None
      BY DEF IsELCandidate
    <2> HIDE DEF m
    <2>4. QED
      BY <1>1, <2>1, <2>2, <2>3
  <1>6. ASSUME NEW layer \in Layers, NEW client \in Clients, SetFingerprint(id, layer, client) PROVE Quiet
    <2> DEFINE m == IF n # None /\ n.layer = layer THEN Identified(n, client, None) ELSE n
    <2>1. rows' = [rows EXCEPT ![id] = m]
      BY <1>6 DEF SetFingerprint
    <2>2. n # None => m # None /\ Calm(n, m)
      BY <1>2, EditedCalm
    <2>3. n = None => m = None
      OBVIOUS
    <2> HIDE DEF m
    <2>4. QED
      BY <1>1, <2>1, <2>2, <2>3
  <1>7. ASSUME NEW layer \in Layers, NEW net \in Nets, Stamp(id, layer, net) PROVE Quiet
    <2> DEFINE applies == n # None /\ n.layer = layer /\ n.net = net
               m == IF applies /\ n.seq = 0 THEN [n EXCEPT !.enr = FALSE] ELSE n
    <2>1. rows' = [rows EXCEPT ![id] = m] \/ UNCHANGED rows
      BY <1>7 DEF Stamp
    <2>2. n # None => m # None /\ Calm(n, m)
      <3>1. net # None
        BY SetAssumption
      <3>2. QED
        BY <1>2, <3>1, EditedCalm
    <2>3. n = None => m = None
      OBVIOUS
    <2> HIDE DEF m
    <2>4. QED
      BY <1>1, <2>1, <2>2, <2>3, SameQuiet
  <1>8. ASSUME NEW layer \in Layers, NEW net \in Nets, SetStatus(id, layer, net) PROVE Quiet
    <2>0. n # None
      BY <1>8 DEF SetStatus
    <2>a. PICK low \in {n.low, n.low /\ n.net # net} :
            Update(id, [n EXCEPT !.net = net, !.low = low, !.head = IF n.net = net THEN n.head ELSE None], {})
      BY <1>8 DEF SetStatus
    <2>b. low \in BOOLEAN
      BY <1>2, <2>0, <2>a, Zenon DEF RowType
    <2> DEFINE head == IF n.net = net THEN n.head ELSE None
               m == [n EXCEPT !.net = net, !.low = low, !.head = head]
    <2>1. n # None /\ rows' = [rows EXCEPT ![id] = m]
      BY <2>0, <2>a, UpdateOne
    <2>2. head \in [layer: Layers, net: Nets] \cup {None}
      BY <1>2, <2>1 DEF RowType
    <2> HIDE DEF head
    <2>3. m # None /\ Calm(n, m)
      BY <1>2, <2>b, <2>1, <2>2, EditedCalm
    <2>4. QED
      BY <1>1, <2>1, <2>3
  <1>9. ASSUME NEW layer \in Layers, NEW net \in Nets, NEW known \in BOOLEAN, SetHead(id, layer, net, known)
        PROVE  Quiet
    <2> DEFINE head == IF known THEN [layer |-> layer, net |-> net] ELSE None
               m == IF n # None /\ n.layer = layer /\ n.net = net THEN [n EXCEPT !.head = head] ELSE n
    <2>1. rows' = [rows EXCEPT ![id] = m]
      BY <1>9 DEF SetHead
    <2>2. head \in [layer: Layers, net: Nets] \cup {None}
      OBVIOUS
    <2>3. n = None => m = None
      OBVIOUS
    <2> HIDE DEF head
    <2>4. n # None => m # None /\ Calm(n, m)
      BY <1>2, <2>2, EditedCalm
    <2> HIDE DEF m
    <2>5. QED
      BY <1>1, <2>1, <2>3, <2>4
  <1>10. QED
    BY <1>3, <1>4, <1>5, <1>6, <1>7, <1>8, <1>9

-----------------------------------------------------------------------------
(* 8. Kinds of steps *)

\* The rows that the end of a claim leaves.
LEMMA EndedRows ==
  ASSUME NEW n \in RowType, NEW f \in FlowType
  PROVE  /\ Ended(f, n, Unclaimed(n)) /\ Ended(f, n, Failed(n))
         /\ Ended(f, n, [n EXCEPT !.attempts = 0, !.inFlight = FALSE, !.refresh = FALSE, !.waiting = FALSE])
         /\ \A client \in Clients : ~n.refresh /\ MayComplete(f) =>
              Ended(f, n, [Identified(n, client, f.held) EXCEPT !.inFlight = FALSE])
  <1>1. ASSUME NEW a \in Nat, NEW w \in BOOLEAN
        PROVE  Ended(f, n, [n EXCEPT !.attempts = a, !.inFlight = FALSE, !.refresh = FALSE, !.waiting = w])
    <2> DEFINE m == [n EXCEPT !.attempts = a, !.inFlight = FALSE, !.refresh = FALSE, !.waiting = w]
    <2>1. m \in RowType
      BY DEF RowType
    <2>2. /\ m.inFlight = FALSE /\ m.ep = n.ep /\ m.net = n.net /\ m.enr = n.enr /\ m.layer = n.layer
          /\ m.done = n.done /\ m.refreshDue = n.refreshDue /\ m.proof = n.proof
      BY DEF RowType
    <2> HIDE DEF m
    <2>3. Ended(f, n, m)
      BY <2>1, <2>2, NotNone DEF Ended, Retained, Proven, Fresh
    <2>4. QED
      BY <2>3 DEF m
  <1>2. n.attempts \in Nat /\ n.waiting \in BOOLEAN /\ n.refresh \in BOOLEAN
    BY DEF RowType
  <1>3. Ended(f, n, Unclaimed(n))
    <2> DEFINE a == IF n.refresh \/ n.attempts = 0 THEN 0 ELSE n.attempts - 1
    <2>1. CASE ~n.inFlight
      BY <2>1, NotNone DEF Unclaimed, Ended
    <2>2. CASE n.inFlight
      <3>1. a \in Nat
        BY <1>2
      <3>2. Unclaimed(n) = [n EXCEPT !.attempts = a, !.inFlight = FALSE, !.refresh = FALSE, !.waiting = n.waiting]
        <4>1. Unclaimed(n) = [n EXCEPT !.inFlight = FALSE, !.refresh = FALSE, !.attempts = a]
          BY <2>2, NotNone DEF Unclaimed
        <4> HIDE DEF a
        <4>2. QED
          BY <4>1 DEF RowType
      <3> HIDE DEF a
      <3>3. QED
        BY <1>1, <1>2, <3>1, <3>2
    <2>3. QED
      BY <2>1, <2>2
  <1>4. Ended(f, n, Failed(n))
    <2>1. CASE n.done /\ ~n.refreshDue
      <3>1. Failed(n) = [n EXCEPT !.attempts = n.attempts, !.inFlight = FALSE, !.refresh = FALSE,
                                  !.waiting = n.waiting]
        <4>1. Failed(n) = [n EXCEPT !.inFlight = FALSE, !.refresh = FALSE]
          BY <2>1, NotNone DEF Failed
        <4>2. QED
          BY <4>1 DEF RowType
      <3>2. QED
        BY <1>1, <1>2, <3>1
    <2>2. CASE ~(n.done /\ ~n.refreshDue)
      <3> DEFINE a == IF n.refresh THEN 0 ELSE n.attempts
                 w == ~n.refresh
      <3>1. a \in Nat /\ w \in BOOLEAN
        BY <1>2
      <3>2. Failed(n) = [n EXCEPT !.inFlight = FALSE, !.refresh = FALSE, !.waiting = w, !.attempts = a]
        BY <2>2, NotNone DEF Failed
      <3> HIDE DEF a, w
      <3>3. Failed(n) = [n EXCEPT !.attempts = a, !.inFlight = FALSE, !.refresh = FALSE, !.waiting = w]
        BY <3>2 DEF RowType
      <3>4. QED
        BY <1>1, <3>1, <3>3
    <2>3. QED
      BY <2>1, <2>2
  <1>5. ASSUME NEW client \in Clients, ~n.refresh, MayComplete(f)
        PROVE  Ended(f, n, [Identified(n, client, f.held) EXCEPT !.inFlight = FALSE])
    <2> DEFINE m == [Identified(n, client, f.held) EXCEPT !.inFlight = FALSE]
    <2>1. f.held \in Endpoints \cup {None}
      BY DEF FlowType
    <2>2. m \in RowType
      BY <2>1 DEF RowType, Identified
    <2>3. /\ m.inFlight = FALSE /\ m.ep = n.ep /\ m.net = n.net /\ m.enr = n.enr /\ m.layer = n.layer
          /\ m.proof = f.held
      BY <2>1 DEF RowType, Identified
    <2> HIDE DEF m
    <2>4. Proven(n) /\ ClaimOf(f, n) => Proven(m)
      BY <1>5, <2>3 DEF ClaimOf, Proven, Retained, Fresh
    <2>5. Ended(f, n, m)
      BY <2>2, <2>3, <2>4, NotNone DEF Ended, Retained
    <2>6. QED
      BY <2>5 DEF m
  <1>6. QED
    BY <1>1, <1>3, <1>4, <1>5

\* The operations that end a claim.
LEMMA EndsClaim ==
  ASSUME RowsOK, NEW id \in Ids, NEW f \in FlowType,
         \/ UnclaimFingerprint(id) \/ FingerprintFailed(id)
         \/ \E layer \in Layers :
              \/ DiscardClaimedFingerprint(id, layer)
              \/ MayComplete(f) /\ \E client \in Clients : SetClaimedFingerprint(id, layer, client, f.held)
  PROVE  /\ \A u \in Ids \ {id} : rows'[u] = rows[u]
         /\ IF rows[id] = None THEN rows'[id] = None ELSE Ended(f, rows[id], rows'[id])
  <1> DEFINE n == rows[id]
  <1>1. ASSUME NEW m, rows' = [rows EXCEPT ![id] = m], IF n = None THEN m = None ELSE Ended(f, n, m)
        PROVE  /\ \A u \in Ids \ {id} : rows'[u] = rows[u]
               /\ IF rows[id] = None THEN rows'[id] = None ELSE Ended(f, rows[id], rows'[id])
    BY <1>1 DEF RowsOK
  <1>2. n # None => n \in RowType
    BY RowHere
  <1>3. CASE UnclaimFingerprint(id)
    <2>1. rows' = [rows EXCEPT ![id] = Unclaimed(n)]
      BY <1>3 DEF UnclaimFingerprint
    <2>2. IF n = None THEN Unclaimed(n) = None ELSE Ended(f, n, Unclaimed(n))
      <3>1. n = None => Unclaimed(n) = None
        BY DEF Unclaimed
      <3>2. QED
        BY <1>2, <3>1, EndedRows
    <2>3. QED
      BY <1>1, <2>1, <2>2
  <1>4. CASE FingerprintFailed(id)
    <2>1. rows' = [rows EXCEPT ![id] = Failed(n)]
      BY <1>4 DEF FingerprintFailed
    <2>2. IF n = None THEN Failed(n) = None ELSE Ended(f, n, Failed(n))
      <3>1. n = None => Failed(n) = None
        BY DEF Failed
      <3>2. QED
        BY <1>2, <3>1, EndedRows
    <2>3. QED
      BY <1>1, <2>1, <2>2
  <1>5. ASSUME NEW layer \in Layers, DiscardClaimedFingerprint(id, layer)
        PROVE  /\ \A u \in Ids \ {id} : rows'[u] = rows[u]
               /\ IF rows[id] = None THEN rows'[id] = None ELSE Ended(f, rows[id], rows'[id])
    <2> DEFINE m == IF n = None THEN n
                    ELSE [n EXCEPT !.attempts = 0, !.inFlight = FALSE, !.refresh = FALSE, !.waiting = FALSE]
    <2>1. rows' = [rows EXCEPT ![id] = m]
      BY <1>5 DEF DiscardClaimedFingerprint
    <2>2. IF n = None THEN m = None ELSE Ended(f, n, m)
      BY <1>2, EndedRows
    <2> HIDE DEF m
    <2>3. QED
      BY <1>1, <2>1, <2>2
  <1>6. ASSUME NEW layer \in Layers, NEW client \in Clients, MayComplete(f),
               SetClaimedFingerprint(id, layer, client, f.held)
        PROVE  /\ \A u \in Ids \ {id} : rows'[u] = rows[u]
               /\ IF rows[id] = None THEN rows'[id] = None ELSE Ended(f, rows[id], rows'[id])
    <2>1. n # None /\ ~n.refresh
      BY <1>6 DEF SetClaimedFingerprint, Discarded
    <2> DEFINE m == [Identified(n, client, f.held) EXCEPT !.inFlight = FALSE]
    <2>2. rows' = [rows EXCEPT ![id] = m]
      BY <1>6 DEF SetClaimedFingerprint
    <2>3. Ended(f, n, m)
      BY <1>2, <1>6, <2>1, EndedRows
    <2> HIDE DEF m
    <2>4. QED
      BY <1>1, <2>1, <2>2, <2>3
  <1>7. QED
    BY <1>3, <1>4, <1>5, <1>6

\* A slot that has claimed nothing goes on.
LEMMA IdleMove ==
  ASSUME FlowsOK, NEW s \in Slots, NEW g, Becomes(s, g), ~Holds(s),
         g # None => g.stage \notin Holding /\
                     (g.stage = "requested" => rows'[g.id] # None /\ ~Retained(rows'[g.id]))
  PROVE  \A t \in Slots : Goes(t)
  <1>1. \A t \in Slots : flow'[t] = IF t = s THEN g ELSE flow[t]
    BY DEF Becomes, FlowsOK
  <1>2. \A t \in Slots \ {s} : Goes(t)
    BY <1>1 DEF Goes, Holds, At
  <1>3. Goes(s)
    BY <1>1 DEF Goes, Holds, At
  <1>4. QED
    BY <1>2, <1>3

\* A slot goes on with what it has claimed.
LEMMA HoldingMove ==
  ASSUME FlowsOK, NEW s \in Slots, NEW g, Becomes(s, g), Holds(s), g # None, g.stage \in Holding,
         g.id = flow[s].id, g.held = flow[s].held,
         MayComplete(g) => MayComplete(flow[s]) \/ (rows'[g.id] # None /\ ~Retained(rows'[g.id]))
  PROVE  \A t \in Slots : Goes(t)
  <1>1. \A t \in Slots : flow'[t] = IF t = s THEN g ELSE flow[t]
    BY DEF Becomes, FlowsOK
  <1>2. \A t \in Slots \ {s} : Goes(t)
    BY <1>1 DEF Goes, Holds, At
  <1>3. Goes(s)
    BY <1>1 DEF Goes, Holds, At, Holding
  <1>4. QED
    BY <1>2, <1>3

LEMMA EndingMove ==
  ASSUME FpInv, NEW s \in Slots, NEW g, Becomes(s, g), Holds(s),
         g # None => g.stage \notin Holding /\ g.stage # "requested",
         \/ UnclaimFingerprint(flow[s].id) \/ FingerprintFailed(flow[s].id)
         \/ \E layer \in Layers :
              \/ DiscardClaimedFingerprint(flow[s].id, layer)
              \/ MayComplete(flow[s]) /\ \E client \in Clients :
                   SetClaimedFingerprint(flow[s].id, layer, client, flow[s].held)
  PROVE  Ending(s)
  <1>1. FlowsOK /\ RowsOK
    BY DEF FpInv, SetInv
  <1>2. \A t \in Slots : flow'[t] = IF t = s THEN g ELSE flow[t]
    BY <1>1 DEF Becomes, FlowsOK
  <1>3. flow[s] \in FlowType /\ flow[s].id \in Ids
    BY <1>1, InHand DEF Holds
  <1>4. /\ \A u \in Ids \ {flow[s].id} : rows'[u] = rows[u]
        /\ IF rows[flow[s].id] = None THEN rows'[flow[s].id] = None
           ELSE Ended(flow[s], rows[flow[s].id], rows'[flow[s].id])
    BY <1>1, <1>3, EndsClaim
  <1>5. ~Holds(s)' /\ ~At(s, "requested")'
    BY <1>2 DEF Holds, At
  <1>6. QED
    BY <1>2, <1>4, <1>5 DEF Ending

\* A slot that begins has claimed nothing.
LEMMA BeginKind ==
  ASSUME FpInv, NEW s \in Slots, Begin(s)
  PROVE  Kind
  <1>1. FlowsOK /\ RowsOK
    BY DEF FpInv, SetInv
  <1>2. ASSUME NEW g, Quiet, Free(s), Becomes(s, g),
               g # None => g.stage \notin Holding /\
                           (g.stage = "requested" => rows'[g.id] # None /\ ~Retained(rows'[g.id]))
        PROVE  Kind
    BY <1>1, <1>2, IdleMove DEF Kind, Free, Holds
  <1>3. Records \subseteq RecordType
    BY SetAssumption
  <1>4. ASSUME NEW id \in Ids, NEW rec \in Records, NEW fallback \in BOOLEAN, Resolve(s, id, rec, fallback)
        PROVE  Kind
    <2>1. Quiet
      BY <1>1, <1>3, <1>4, ObservationQuiet DEF Resolve, Observation
    <2> DEFINE g(stage) == [Flow(stage, id) EXCEPT !.rec = rec]
    <2>2. g("layerless").stage = "layerless" /\ g("found").stage = "found"
      BY DEF Flow
    <2>3. Becomes(s, g("layerless")) \/ Becomes(s, g("found")) \/ Becomes(s, None)
      BY <1>4 DEF Resolve, Ends
    <2> HIDE DEF g
    <2>4. QED
      BY <1>2, <1>4, <2>1, <2>2, <2>3 DEF Resolve, Holding
  <1>5. ASSUME NEW id \in Ids, NEW rec \in Records, Scan(s, id, rec)
        PROVE  Kind
    <2>1. Quiet
      BY <1>1, <1>5, SameQuiet DEF Scan, setVars
    <2> DEFINE g == [Flow("scanned", id) EXCEPT !.rec = rec]
    <2>2. Becomes(s, g) /\ g.stage = "scanned"
      BY <1>5 DEF Scan, Flow
    <2> HIDE DEF g
    <2>3. QED
      BY <1>2, <1>5, <2>1, <2>2 DEF Scan, Holding
  <1>6. ASSUME NEW id \in Ids, NEW rec \in Records, ObserveSeed(s, id, rec)
        PROVE  Kind
    <2>1. Forced(rec, [net |-> Devnet, layer |-> ""]) \in RecordType
      BY <1>3, FlowAssumption, ForcedIsRecord
    <2>2. Observation(id, Forced(rec, [net |-> Devnet, layer |-> ""]), FALSE, TRUE)
      BY <1>6 DEF ObserveSeed, Observation
    <2>3. Quiet
      BY <1>1, <2>1, <2>2, ObservationQuiet
    <2> DEFINE g == [Flow("scanned", id) EXCEPT !.rec = rec]
    <2>4. g.stage = "scanned"
      BY DEF Flow
    <2>5. Becomes(s, g) \/ Becomes(s, None)
      BY <1>6 DEF ObserveSeed, Ends
    <2> HIDE DEF g
    <2>6. QED
      BY <1>2, <1>6, <2>3, <2>4, <2>5 DEF ObserveSeed, Holding
  <1>7. ASSUME NEW id \in Ids, NEW rec \in Records, Request(s, id, rec)
        PROVE  Kind
    <2>1. Quiet /\ (ObserveApplied(id, rec, FALSE, FALSE) => rows'[id] # None /\ rows'[id].enr)
      BY <1>1, <1>3, <1>7, ObservationQuiet DEF Request, Observation
    <2> DEFINE g(stage) == [Flow(stage, id) EXCEPT !.rec = rec, !.layer = rec.layer]
    <2>2. g("requested").stage = "requested" /\ g("requested").id = id /\ g("answerStale").stage = "answerStale"
      BY DEF Flow
    <2>3. \/ ObserveApplied(id, rec, FALSE, FALSE) /\ Becomes(s, g("requested"))
          \/ Becomes(s, g("answerStale")) \/ Becomes(s, None)
      BY <1>7 DEF Request, Ends
    <2> HIDE DEF g
    <2>4. QED
      BY <1>2, <1>7, <2>1, <2>2, <2>3 DEF Request, Holding, Retained
  <1>8. ASSUME NEW id \in Ids, NEW rec \in Records, NEW net \in Nets, NEW layer \in Layers,
               Visit(s, id, rec, layer, net)
        PROVE  Kind
    <2>1. Quiet
      BY <1>1, <1>8, SameQuiet DEF Visit, setVars
    <2> DEFINE g == [Flow("authenticate", id) EXCEPT !.rec = rec, !.layer = layer, !.net = net]
    <2>2. Becomes(s, g) /\ g.stage = "authenticate"
      BY <1>8 DEF Visit, Flow
    <2> HIDE DEF g
    <2>3. QED
      BY <1>2, <1>8, <2>1, <2>2 DEF Visit, Holding
  <1>9. ASSUME NEW id \in Ids, NEW layer \in Layers, NEW net \in Nets \cup {None},
               Inbound(s, id, layer, net)
        PROVE  Kind
    <2>1. Quiet
      BY <1>1, <1>9, SameQuiet DEF Inbound, setVars
    <2> DEFINE g(stage) == [Flow(stage, id) EXCEPT !.layer = layer, !.net = net]
    <2>2. g("hello").stage = "hello" /\ g("greet").stage = "greet"
      BY DEF Flow
    <2>3. Becomes(s, g("hello")) \/ Becomes(s, g("greet"))
      BY <1>9 DEF Inbound
    <2> HIDE DEF g
    <2>4. QED
      BY <1>2, <1>9, <2>1, <2>2, <2>3 DEF Inbound, Holding
  <1>10. QED
    BY <1>4, <1>5, <1>6, <1>7, <1>8, <1>9 DEF Begin

LEMMA FlowThere == \A g \in Flows : g # None
  BY FlowAssumption DEF Flows

\* Claims are made of rows nobody has claimed.
LEMMA ClaimKind ==
  ASSUME FpInv, NEW s \in Slots, Claim(s) \/ Demand(s)
  PROVE  Kind
  <1> DEFINE f == flow[s]  id == flow[s].id  n == rows[id]
             claimed == [f EXCEPT !.stage = "claimed", !.layer = n.layer, !.net = n.net, !.held = n.ep]
             demanded == [f EXCEPT !.stage = "demanded", !.held = n.ep]
             answer == [f EXCEPT !.stage = "answer"]
  <1>1. FlowsOK /\ RowsOK
    BY DEF FpInv, SetInv
  <1>2. f # None /\ f.stage \in {"found", "scanned", "requested"}
    BY DEF Claim, Demand, At
  <1>3. ~Holds(s) /\ f \in Flows /\ f \in FlowType /\ id \in Ids
    BY <1>1, <1>2, InHand DEF Holds, Holding
  <1>4. ASSUME ClaimFingerprint(id)
        PROVE  n.layer \in Layers /\ n.net \in Nets \cup {None} /\ n.ep \in Endpoints
    BY <1>1, <1>3, <1>4 DEF ClaimFingerprint, FingerprintDue, RowsOK, Good, RowType
  <1>5. CASE UNCHANGED setVars /\ (Becomes(s, None) \/ Becomes(s, answer))
    <2>1. Quiet
      BY <1>1, <1>5, SameQuiet DEF setVars
    <2>2. answer.stage = "answer"
      BY <1>3 DEF FlowType
    <2>3. \A t \in Slots : Goes(t)
      BY <1>1, <1>3, <1>5, <2>2, IdleMove DEF Holding
    <2>4. QED
      BY <2>1, <2>3 DEF Kind
  <1>6. ASSUME NEW g \in Flows, ClaimFingerprint(id), Becomes(s, g), g.stage \in Holding,
               g.id = id, g.held = n.ep,
               MayComplete(g) => At(s, "requested") \/ ~(n.layer = "el" /\ n.net = None)
        PROVE  Claiming(s)
    <2>1. \A t \in Slots : flow'[t] = IF t = s THEN g ELSE flow[t]
      BY <1>1, <1>6 DEF Becomes, FlowsOK
    <2>2. Holds(s)'
      BY <1>6, <2>1, FlowThere DEF Holds
    <2>3. QED
      BY <1>2, <1>3, <1>6, <2>1, <2>2 DEF Claiming
  <1>7. CASE (At(s, "found") \/ At(s, "scanned")) /\ ClaimFingerprint(id) /\ Becomes(s, claimed)
    <2>1. claimed \in Flows
      BY <1>3, <1>4, <1>7, NextFlows DEF At
    <2>2. /\ claimed.stage = "claimed" /\ claimed.id = id /\ claimed.held = n.ep
          /\ claimed.layer = n.layer /\ claimed.net = n.net
      BY <1>3 DEF FlowType
    <2> HIDE DEF claimed
    <2>3. MayComplete(claimed) => ~(n.layer = "el" /\ n.net = None)
      BY <2>2 DEF MayComplete
    <2>4. QED
      BY <1>6, <1>7, <2>1, <2>2, <2>3 DEF Kind, Holding
  <1>8. CASE At(s, "requested") /\ ClaimFingerprint(id) /\ Becomes(s, demanded)
    <2>1. demanded \in Flows
      BY <1>3, <1>4, <1>8, NextFlows DEF At
    <2>2. demanded.stage = "demanded" /\ demanded.id = id /\ demanded.held = n.ep
      BY <1>3 DEF FlowType
    <2> HIDE DEF demanded
    <2>3. QED
      BY <1>6, <1>8, <2>1, <2>2 DEF Kind, Holding
  <1>9. QED
    BY <1>5, <1>7, <1>8 DEF Claim, Demand, Ends

\* Every claim that is held comes to one end.
LEMMA EndKind ==
  ASSUME FpInv, NEW s \in Slots,
         \/ Defer(s) \/ Cancel(s) \/ Release(s)
         \/ ProbeFailed(s) \/ CandidateFailed(s) \/ DemandFailed(s)
         \/ \E client \in Clients, net \in Nets \cup {None} :
              ProbeIdentified(s, client, net) \/ Demanded(s, client, net)
         \/ \E client \in ELClients : CandidateIdentified(s, client)
  PROVE  Kind
  <1> DEFINE f == flow[s]  id == flow[s].id
  <1>0. FlowsOK
    BY DEF FpInv
  <1>1. f # None /\ Holds(s)
    BY DEF Defer, Cancel, Release, ProbeFailed, CandidateFailed, DemandFailed, ProbeIdentified,
           Demanded, CandidateIdentified, At, Holds, Holding
  <1>2. ASSUME NEW g, Becomes(s, g), g # None => g.stage \in {"status", "head"},
               \/ UnclaimFingerprint(id) \/ FingerprintFailed(id)
               \/ \E layer \in Layers :
                    \/ DiscardClaimedFingerprint(id, layer)
                    \/ MayComplete(f) /\ \E client \in Clients : SetClaimedFingerprint(id, layer, client, f.held)
        PROVE  Kind
    <2>1. g # None => g.stage \notin Holding /\ g.stage # "requested"
      BY <1>2 DEF Holding
    <2>2. QED
      BY <1>1, <1>2, <2>1, EndingMove DEF Kind
  <1>3. CASE \/ Defer(s) \/ Cancel(s) \/ Release(s)
             \/ ProbeFailed(s) \/ CandidateFailed(s) \/ DemandFailed(s)
    BY <1>2, <1>3 DEF Defer, Cancel, Release, ProbeFailed, CandidateFailed, DemandFailed, Ends
  <1>4. ASSUME NEW client \in Clients, NEW net \in Nets \cup {None}, ProbeIdentified(s, client, net)
        PROVE  Kind
    <2>1. f.layer \in Layers
      BY <1>0, <1>1, <1>4, AtStage DEF ProbeIdentified
    <2>2. MayComplete(f)
      BY <1>4 DEF ProbeIdentified, OfCandidate, MayComplete, At
    <2> DEFINE g == [Flow("status", id) EXCEPT !.layer = f.layer, !.net = net]
    <2>3. g.stage = "status" /\ (Becomes(s, g) \/ Becomes(s, None))
      BY <1>4 DEF ProbeIdentified, Ends, Flow
    <2>4. DiscardClaimedFingerprint(id, f.layer) \/ SetClaimedFingerprint(id, f.layer, client, f.held)
      BY <1>4 DEF ProbeIdentified
    <2> HIDE DEF g
    <2>5. QED
      BY <1>2, <2>1, <2>2, <2>3, <2>4
  <1>5. ASSUME NEW client \in Clients, NEW net \in Nets \cup {None}, Demanded(s, client, net)
        PROVE  Kind
    <2>1. f.layer \in Layers
      BY <1>0, <1>1, <1>5, AtStage DEF Demanded
    <2>2. MayComplete(f)
      BY <1>5 DEF Demanded, MayComplete, At
    <2> DEFINE g == [Flow("head", id) EXCEPT !.layer = "cl", !.net = net]
    <2>3. g.stage = "head" /\ (Becomes(s, g) \/ Becomes(s, None))
      BY <1>5 DEF Demanded, Answered, Ends, Flow
    <2>4. DiscardClaimedFingerprint(id, f.layer) \/ SetClaimedFingerprint(id, f.layer, client, f.held)
      BY <1>5 DEF Demanded
    <2> HIDE DEF g
    <2>5. QED
      BY <1>2, <2>1, <2>2, <2>3, <2>4
  <1>6. ASSUME NEW client \in ELClients, CandidateIdentified(s, client)
        PROVE  Kind
    <2>1. "el" \in Layers /\ client \in Clients
      BY DEF Layers, Clients
    <2>2. MayComplete(f)
      BY <1>6 DEF CandidateIdentified, MayComplete, At
    <2> DEFINE g == [Flow("head", id) EXCEPT !.layer = "el", !.net = f.net]
    <2>3. g.stage = "head" /\ (Becomes(s, g) \/ Becomes(s, None))
      BY <1>6 DEF CandidateIdentified, Ends, Flow
    <2>4. DiscardClaimedFingerprint(id, "el") \/ SetClaimedFingerprint(id, "el", client, f.held)
      BY <1>6 DEF CandidateIdentified
    <2> HIDE DEF g
    <2>5. QED
      BY <1>2, <2>1, <2>2, <2>3, <2>4
  <1>7. QED
    BY <1>3, <1>4, <1>5, <1>6

\* A claim goes from the queue to the probe and through its stages.
LEMMA HoldKind ==
  ASSUME FpInv, NEW s \in Slots,
         \/ Enqueue(s) \/ StampMembership(s)
         \/ \E net \in Nets : CandidateStatus(s, net)
         \/ \E client \in ELClients : CandidateHello(s, client)
  PROVE  Kind
  <1> DEFINE f == flow[s]  id == flow[s].id
  <1>1. FlowsOK /\ RowsOK
    BY DEF FpInv, SetInv
  <1>2. f # None /\ Holds(s)
    BY DEF Enqueue, StampMembership, CandidateStatus, CandidateHello, At, Holds, Holding
  <1>3. f \in Flows /\ f \in FlowType /\ id \in Ids /\ "el" \in Layers
    BY <1>1, <1>2, InHand DEF Layers
  <1>4. ASSUME Quiet, NEW g \in Flows, Becomes(s, g), g.stage \in Holding, g.id = id, g.held = f.held,
               MayComplete(g) => MayComplete(f) \/ (rows'[id] # None /\ ~Retained(rows'[id]))
        PROVE  Kind
    BY <1>1, <1>2, <1>4, FlowThere, HoldingMove DEF Kind
  <1>5. CASE Enqueue(s)
    <2> DEFINE g == [f EXCEPT !.stage = "queued"]
    <2>1. Quiet
      BY <1>1, <1>5, SameQuiet DEF Enqueue, setVars
    <2>2. g \in Flows /\ Becomes(s, g)
      BY <1>3, <1>5, NextFlows DEF Enqueue, At
    <2>3. g.stage = "queued" /\ g.id = id /\ g.held = f.held /\ g.layer = f.layer /\ g.net = f.net
      BY <1>3 DEF FlowType
    <2>4. f.stage = "claimed"
      BY <1>5 DEF Enqueue, At
    <2> HIDE DEF g
    <2>5. MayComplete(g) => MayComplete(f)
      BY <2>3, <2>4 DEF MayComplete
    <2>6. QED
      BY <1>4, <2>1, <2>2, <2>3, <2>5 DEF Holding
  <1>6. CASE StampMembership(s)
    <2> DEFINE g == [f EXCEPT !.stage = "complete"]
    <2>1. f.net \in Nets
      BY <1>1, <1>2, <1>6, AtStage DEF StampMembership
    <2>2. Quiet
      BY <1>1, <1>3, <1>6, <2>1, EditsQuiet DEF StampMembership
    <2>3. g \in Flows /\ Becomes(s, g)
      BY <1>3, <1>6, NextFlows DEF StampMembership, At
    <2>4. g.stage = "complete" /\ g.id = id /\ g.held = f.held
      BY <1>3 DEF FlowType
    <2>5. MayComplete(f)
      BY <1>6 DEF StampMembership, At, MayComplete
    <2> HIDE DEF g
    <2>6. QED
      BY <1>4, <2>2, <2>3, <2>4, <2>5 DEF Holding
  <1>7. ASSUME NEW net \in Nets, CandidateStatus(s, net)
        PROVE  Kind
    <2> DEFINE e == Forced(f.rec, [net |-> net, layer |-> "el"])
               stamp == [f EXCEPT !.stage = "stamp", !.net = net]
               release == [f EXCEPT !.stage = "release"]
    <2>1. f.rec \in RecordType
      BY <1>1, <1>2, <1>7, AtStage, SetAssumption DEF CandidateStatus
    <2>2. e \in RecordType
      BY <1>3, <2>1, ForcedIsRecord
    <2>3. Observation(id, e, FALSE, FALSE)
      BY <1>7 DEF CandidateStatus, Observation
    <2>4. \/ ObserveApplied(id, e, FALSE, FALSE) /\ Becomes(s, stamp)
          \/ Becomes(s, release)
      BY <1>7 DEF CandidateStatus
    <2>5. stamp \in Flows /\ release \in Flows
      BY <1>3, <1>7, NextFlows DEF CandidateStatus, At
    <2>6. /\ stamp.stage = "stamp" /\ stamp.id = id /\ stamp.held = f.held
          /\ release.stage = "release" /\ release.id = id /\ release.held = f.held
      BY <1>3 DEF FlowType
    <2> HIDE DEF e, stamp, release
    <2>7. Quiet /\ (ObserveApplied(id, e, FALSE, FALSE) => rows'[id] # None /\ rows'[id].enr)
      BY <1>1, <1>3, <2>2, <2>3, ObservationQuiet
    <2>8. CASE ObserveApplied(id, e, FALSE, FALSE) /\ Becomes(s, stamp)
      BY <1>4, <2>5, <2>6, <2>7, <2>8 DEF Holding, Retained
    <2>9. CASE Becomes(s, release)
      <3>1. ~MayComplete(release)
        BY <2>6 DEF MayComplete
      <3>2. QED
        BY <1>4, <2>5, <2>6, <2>7, <2>9, <3>1 DEF Holding
    <2>10. QED
      BY <2>4, <2>8, <2>9
  <1>8. ASSUME NEW client \in ELClients, CandidateHello(s, client)
        PROVE  Kind
    <2> DEFINE g == [f EXCEPT !.stage = "failing"]
    <2>1. client \in Clients
      BY DEF Clients
    <2>2. Quiet
      BY <1>1, <1>3, <1>8, <2>1, EditsQuiet DEF CandidateHello
    <2>3. g \in Flows /\ Becomes(s, g)
      BY <1>3, <1>8, NextFlows DEF CandidateHello, At
    <2>4. g.stage = "failing" /\ g.id = id /\ g.held = f.held
      BY <1>3 DEF FlowType
    <2> HIDE DEF g
    <2>5. ~MayComplete(g)
      BY <2>4 DEF MayComplete
    <2>6. QED
      BY <1>4, <2>2, <2>3, <2>4, <2>5 DEF Holding
  <1>9. QED
    BY <1>5, <1>6, <1>7, <1>8

\* What was not claimed is applied without touching a claim.
LEMMA IdleKind ==
  ASSUME FpInv, NEW s \in Slots,
         \/ Convert(s) \/ ApplyStatus(s) \/ Authenticate(s) \/ VisitStamp(s) \/ Unanswered(s)
         \/ \E known \in BOOLEAN : ApplyHead(s, known) \/ VisitHead(s, known)
         \/ \E client \in Clients :
              \/ \E net \in Nets \cup {None} : AnswerUnclaimed(s, client, net)
              \/ VisitIdentified(s, client) \/ Greet(s, client)
         \/ \E client \in ELClients : Hello(s, client)
  PROVE  Kind
  <1> DEFINE f == flow[s]  id == flow[s].id
             Later == {"found", "head", "visitStamp", "identify", "visitHead", "status"}
  <1>1. FlowsOK /\ RowsOK
    BY DEF FpInv, SetInv
  <1>2. f # None /\ ~Holds(s)
    BY DEF Convert, ApplyStatus, Authenticate, VisitStamp, Unanswered, ApplyHead, VisitHead,
           AnswerUnclaimed, VisitIdentified, Greet, Hello, At, Holds, Holding
  <1>3. f \in Flows /\ f \in FlowType /\ id \in Ids
    BY <1>1, <1>2, InHand
  <1>4. ASSUME Quiet, NEW g, Becomes(s, g), g # None => g.stage \in Later
        PROVE  Kind
    <2>1. g # None => g.stage \notin Holding /\ g.stage # "requested"
      BY <1>4 DEF Holding
    <2>2. QED
      BY <1>1, <1>2, <1>4, <2>1, IdleMove DEF Kind
  <1>5. \A stage \in Later : [f EXCEPT !.stage = stage].stage = stage
    BY <1>3 DEF FlowType
  <1>6. CASE Convert(s)
    <2>1. Quiet
      BY <1>1, <1>3, <1>6, EditsQuiet, SameQuiet DEF Convert, setVars
    <2>2. Becomes(s, [f EXCEPT !.stage = "found"]) \/ Becomes(s, None)
      BY <1>6 DEF Convert
    <2>3. QED
      BY <1>4, <1>5, <2>1, <2>2
  <1>7. CASE ApplyStatus(s)
    <2>1. f.net \in Nets /\ f.layer \in Layers
      BY <1>1, <1>2, <1>7, AtStage DEF ApplyStatus
    <2>2. Quiet
      BY <1>1, <1>3, <1>7, <2>1, EditsQuiet, SameQuiet DEF ApplyStatus, setVars
    <2>3. Becomes(s, [f EXCEPT !.stage = "head"]) \/ Becomes(s, None)
      BY <1>7 DEF ApplyStatus, Ends
    <2>4. QED
      BY <1>4, <1>5, <2>2, <2>3
  <1>8. CASE Authenticate(s)
    <2> DEFINE e == Forced(f.rec, [net |-> f.net, layer |-> f.layer])
               later(stage) == [f EXCEPT !.stage = stage, !.rec = None]
    <2>1. f.net \in Nets /\ f.layer \in Layers /\ f.rec \in RecordType
      BY <1>1, <1>2, <1>8, AtStage, SetAssumption DEF Authenticate
    <2>2. e \in RecordType
      BY <2>1, ForcedIsRecord
    <2>3. Observation(id, e, FALSE, FALSE)
      BY <1>8 DEF Authenticate, Observation
    <2>4. Becomes(s, later("visitStamp")) \/ Becomes(s, later("identify")) \/ Becomes(s, None)
      BY <1>8 DEF Authenticate, Ends
    <2>5. later("visitStamp").stage = "visitStamp" /\ later("identify").stage = "identify"
      BY <1>3 DEF FlowType
    <2> HIDE DEF e, later
    <2>6. Quiet
      BY <1>1, <1>3, <2>2, <2>3, ObservationQuiet
    <2>7. QED
      BY <1>4, <2>4, <2>5, <2>6
  <1>9. CASE VisitStamp(s)
    <2>1. f.net \in Nets /\ f.layer \in Layers
      BY <1>1, <1>2, <1>9, AtStage DEF VisitStamp
    <2>2. Quiet
      BY <1>1, <1>3, <1>9, <2>1, EditsQuiet DEF VisitStamp
    <2>3. Becomes(s, [f EXCEPT !.stage = "visitHead"])
      BY <1>9 DEF VisitStamp
    <2>4. QED
      BY <1>4, <1>5, <2>2, <2>3
  <1>10. CASE Unanswered(s)
    <2>1. Quiet
      BY <1>1, <1>10, SameQuiet DEF Unanswered, setVars
    <2>2. QED
      BY <1>4, <1>10, <2>1 DEF Unanswered, Ends
  <1>11. ASSUME NEW known \in BOOLEAN, ApplyHead(s, known) \/ VisitHead(s, known)
         PROVE  Kind
    <2>1. f.net \in Nets /\ f.layer \in Layers
      BY <1>1, <1>2, <1>11, AtStage DEF ApplyHead, VisitHead
    <2>2. Quiet
      BY <1>1, <1>3, <1>11, <2>1, EditsQuiet DEF ApplyHead, VisitHead
    <2>3. Becomes(s, [f EXCEPT !.stage = "identify"]) \/ Becomes(s, None)
      BY <1>11 DEF ApplyHead, VisitHead, Ends
    <2>4. QED
      BY <1>4, <1>5, <2>2, <2>3
  <1>12. ASSUME NEW client \in Clients, NEW net \in Nets \cup {None}, AnswerUnclaimed(s, client, net)
         PROVE  Kind
    <2>1. f.layer \in Layers
      BY <1>1, <1>2, <1>12, AtStage DEF AnswerUnclaimed
    <2>2. Quiet
      BY <1>1, <1>3, <1>12, <2>1, EditsQuiet DEF AnswerUnclaimed
    <2> DEFINE known == IF At(s, "answer") THEN net ELSE None
               g == [Flow("head", id) EXCEPT !.layer = "cl", !.net = known]
    <2>3. g.stage = "head" /\ (Becomes(s, g) \/ Becomes(s, None))
      BY <1>12 DEF AnswerUnclaimed, Answered, Flow
    <2> HIDE DEF g
    <2>4. QED
      BY <1>4, <2>2, <2>3
  <1>13. ASSUME NEW client \in Clients, VisitIdentified(s, client) \/ Greet(s, client)
         PROVE  Kind
    <2>1. f.layer \in Layers
      BY <1>1, <1>2, <1>13, AtStage DEF VisitIdentified, Greet
    <2>2. Quiet
      BY <1>1, <1>3, <1>13, <2>1, EditsQuiet DEF VisitIdentified, Greet
    <2>3. Becomes(s, [f EXCEPT !.stage = "status"]) \/ Becomes(s, None)
      BY <1>13 DEF VisitIdentified, Greet, Ends
    <2>4. QED
      BY <1>4, <1>5, <2>2, <2>3
  <1>14. ASSUME NEW client \in ELClients, Hello(s, client)
         PROVE  Kind
    <2>1. Quiet
      BY <1>1, <1>3, <1>14, EditsQuiet DEF Hello, Clients
    <2>2. QED
      BY <1>4, <1>14, <2>1 DEF Hello, Ends
  <1>15. QED
    BY <1>6, <1>7, <1>8, <1>9, <1>10, <1>11, <1>12, <1>13, <1>14

LEMMA StillGoes ==
  ASSUME UNCHANGED flow
  PROVE  \A s \in Slots : Goes(s)
  BY DEF Goes, Holds, At

\* A row that is written and restored is unclaimed, and as proven as it was.
LEMMA RestoredProven ==
  ASSUME NEW n \in RowType
  PROVE  LET m == Restored(n) IN ~m.inFlight /\ (Proven(n) => Proven(m))
  <1> DEFINE a == IF n.inFlight /\ n.attempts > 0 THEN n.attempts - 1 ELSE n.attempts
             q == n.refreshDue /\ n.done
             m == [n EXCEPT !.inFlight = FALSE, !.refresh = FALSE, !.refreshDue = q, !.attempts = a]
             k == IF n.layer = "cl" /\ n.done /\ n.client \in ELClients THEN ClearFingerprint(m) ELSE m
  <1>1. Restored(n) = k
    BY DEF Restored, Written
  <1>2. a \in Nat /\ q \in BOOLEAN
    <2>1. n.attempts \in Nat /\ n.refreshDue \in BOOLEAN /\ n.done \in BOOLEAN
      BY DEF RowType
    <2>2. QED
      BY <2>1
  <1>3. n.done => q = n.refreshDue
    BY DEF RowType
  <1> HIDE DEF a, q
  <1>4. /\ m.inFlight = FALSE /\ m.refreshDue = q /\ m.ep = n.ep /\ m.net = n.net /\ m.enr = n.enr
        /\ m.layer = n.layer /\ m.done = n.done /\ m.proof = n.proof
    BY <1>2 DEF RowType
  <1>5. ~m.inFlight /\ (Proven(n) => Proven(m))
    BY <1>3, <1>4, NotNone DEF Proven, Fresh, Retained
  <1>6. m \in RowType
    BY <1>2 DEF RowType
  <1> HIDE DEF m
  <1>7. ~ClearFingerprint(m).inFlight /\ (Proven(m) => Proven(ClearFingerprint(m)))
    <2> DEFINE o == ClearFingerprint(m)
    <2>1. o.inFlight = m.inFlight /\ ~o.done /\ o.proof = None /\ o.net = m.net /\ o.enr = m.enr /\ o.layer = m.layer
      BY <1>6 DEF ClearFingerprint, RowType
    <2> HIDE DEF o
    <2>2. ~o.inFlight /\ (Proven(m) => Proven(o))
      BY <1>5, <2>1 DEF Proven, Fresh, Retained
    <2> QED BY <2>2 DEF o
  <1> QED
    BY <1>1, <1>5, <1>7

LEMMA EnvironmentKind ==
  ASSUME FpInv, Environment
  PROVE  Kind
  <1>1. RowsOK
    BY DEF FpInv, SetInv
  <1>2. ASSUME Quiet, UNCHANGED flow
        PROVE  Kind
    BY <1>2, StillGoes DEF Kind
  <1>3. ASSUME NEW id \in Ids, NEW rec \in Records, RetainCandidate(id, rec)
        PROVE  Kind
    <2>1. rec \in RecordType
      BY SetAssumption
    <2>2. Quiet
      BY <1>1, <1>3, <2>1, CandidateQuiet DEF RetainCandidate
    <2>3. QED
      BY <1>2, <1>3, <2>2 DEF RetainCandidate
  <1>4. ASSUME NEW id \in Ids, RetryComes(id)
        PROVE  Kind
    <2>1. Quiet
      BY <1>1, <1>4, EditsQuiet DEF RetryComes
    <2>2. QED
      BY <1>2, <1>4, <2>1 DEF RetryComes
  <1>5. ASSUME NEW id \in Ids, PenalizeUnresolved(id)
        PROVE  Kind
    <2>1. rows[id] # None /\ rows[id] \in RowType /\ ~NoRemovals
      BY <1>1, <1>5, RowHere DEF PenalizeUnresolved, Penalize, NoRemovals
    <2>2. PICK n \in Touched(rows[id], TRUE, FALSE) : Update(id, n, {})
      BY <1>5 DEF PenalizeUnresolved, Penalize
    <2>3. n # None => Calm(rows[id], n)
      BY <2>1, <2>2, TouchedCalm
    <2>4. rows' = [rows EXCEPT ![id] = n]
      BY <1>1, <2>2, UpdateOne
    <2>5. Quiet
      BY <1>1, <2>1, <2>3, <2>4, ChangeQuiet
    <2>6. QED
      BY <1>2, <1>5, <2>5 DEF PenalizeUnresolved
  <1>6. ASSUME NEW S \in SUBSET Ids, PrunePublished(S)
        PROVE  Kind
    <2>1. \A id \in Ids : rows[id] # None => Calm(rows[id], rows[id])
      BY <1>1, RowHere, EditedCalm
    <2>2. \A id \in Ids : rows'[id] = IF id \in S THEN None ELSE rows[id]
      BY <1>6 DEF PrunePublished, PruneStale, Deleted
    <2>3. Quiet
      BY <1>6, <2>1, <2>2 DEF Quiet, Gentle, NoRemovals, PrunePublished
    <2>4. QED
      BY <1>2, <1>6, <2>3 DEF PrunePublished
  <1>7. ASSUME NEW S \in SUBSET Ids, RestartProcess(S)
        PROVE  Kind
    <2>1. \A id \in Ids : rows'[id] = IF id \in S THEN Restored(rows[id]) ELSE None
      BY <1>7 DEF RestartProcess, Restart
    <2>2. \A id \in S : rows[id] # None
      BY <1>7 DEF RestartProcess, Restart, SnapshotEligible
    <2>3. \A id \in S : ~Restored(rows[id]).inFlight /\ (Proven(rows[id]) => Proven(Restored(rows[id])))
      BY <1>1, <2>2, RowHere, RestoredProven
    <2>4. \A s \in Slots : flow'[s] = None
      BY <1>7 DEF RestartProcess
    <2>5. QED
      BY <2>1, <2>2, <2>3, <2>4 DEF Kind, Restarting
  <1>8. CASE Stop \/ Close
    BY <1>1, <1>2, <1>8, SameQuiet DEF Stop, Close
  <1>9. QED
    BY <1>3, <1>4, <1>5, <1>6, <1>7, <1>8 DEF Environment

LEMMA StepKind ==
  ASSUME FpInv, [FpNext]_fpVars
  PROVE  Kind
  <1>1. CASE UNCHANGED fpVars
    <2>1. RowsOK
      BY DEF FpInv, SetInv
    <2>2. QED
      BY <1>1, <2>1, SameQuiet, StillGoes DEF Kind, fpVars
  <1>2. ASSUME NEW s \in Slots, Continue(s)
        PROVE  Kind
    <2>1. CASE Claim(s) \/ Demand(s)
      BY <2>1, ClaimKind
    <2>2. CASE \/ Defer(s) \/ Cancel(s) \/ Release(s)
               \/ ProbeFailed(s) \/ CandidateFailed(s) \/ DemandFailed(s)
               \/ \E client \in Clients, net \in Nets \cup {None} :
                    ProbeIdentified(s, client, net) \/ Demanded(s, client, net)
               \/ \E client \in ELClients : CandidateIdentified(s, client)
      BY <2>2, EndKind
    <2>3. CASE \/ Enqueue(s) \/ StampMembership(s)
               \/ \E net \in Nets : CandidateStatus(s, net)
               \/ \E client \in ELClients : CandidateHello(s, client)
      BY <2>3, HoldKind
    <2>4. CASE \/ Convert(s) \/ ApplyStatus(s) \/ Authenticate(s) \/ VisitStamp(s) \/ Unanswered(s)
               \/ \E known \in BOOLEAN : ApplyHead(s, known) \/ VisitHead(s, known)
               \/ \E client \in Clients :
                    \/ \E net \in Nets \cup {None} : AnswerUnclaimed(s, client, net)
                    \/ VisitIdentified(s, client) \/ Greet(s, client)
               \/ \E client \in ELClients : Hello(s, client)
      BY <2>4, IdleKind
    <2>5. QED
      BY <1>2, <2>1, <2>2, <2>3, <2>4 DEF Continue
  <1>3. QED
    BY <1>1, <1>2, BeginKind, EnvironmentKind DEF FpNext

-----------------------------------------------------------------------------
(* 9. Claims *)

LEMMA ClaimedRow ==
  ASSUME RowsOK, NEW id \in Ids, ClaimFingerprint(id)
  PROVE  /\ rows[id] # None /\ ~rows[id].inFlight
         /\ \A u \in Ids \ {id} : rows'[u] = rows[u]
         /\ rows'[id] # None /\ rows'[id].inFlight
         /\ rows'[id].ep = rows[id].ep /\ rows'[id].refresh = rows[id].refresh
         /\ Retained(rows'[id]) <=> Retained(rows[id])
         /\ Proven(rows[id]) => Proven(rows'[id])
  <1> DEFINE n == rows[id]
             a == n.attempts + 1
             m == [n EXCEPT !.attempts = a, !.inFlight = TRUE]
  <1>1. n # None /\ ~n.inFlight
    BY DEF ClaimFingerprint, FingerprintDue
  <1>2. n \in RowType
    BY <1>1, RowHere
  <1>3. a \in Nat
    <2>1. n.attempts \in Nat
      BY <1>2 DEF RowType
    <2>2. QED
      BY <2>1
  <1>4. rows' = [rows EXCEPT ![id] = m]
    BY <1>2 DEF ClaimFingerprint, RowsOK
  <1> HIDE DEF a
  <1>5. m \in RowType
    BY <1>2, <1>3 DEF RowType
  <1>6. /\ m.inFlight = TRUE /\ m.ep = n.ep /\ m.refresh = n.refresh /\ m.net = n.net /\ m.enr = n.enr
        /\ m.layer = n.layer /\ m.done = n.done /\ m.refreshDue = n.refreshDue /\ m.proof = n.proof
    BY <1>2, <1>3 DEF RowType
  <1>7. rows'[id] = m /\ \A u \in Ids \ {id} : rows'[u] = rows[u]
    BY <1>4 DEF RowsOK
  <1> HIDE DEF m
  <1>8. Retained(m) <=> Retained(n)
    BY <1>6 DEF Retained
  <1>9. Proven(n) => Proven(m)
    BY <1>1, <1>6, <1>8 DEF Proven, Fresh
  <1>10. QED
    BY <1>1, <1>5, <1>6, <1>7, <1>8, <1>9, NotNone

\* A row in flight stays some slot's claim.
LEMMA OwnedStep ==
  ASSUME FpInv, Owned, Kind
  PROVE  Owned'
  <1>0. FlowsOK /\ RowsOK
    BY DEF FpInv, SetInv
  <1>1. CASE Quiet /\ \A s \in Slots : Goes(s)
    BY <1>1 DEF Owned, Quiet, Gentle, Calm, Goes, Holds
  <1>2. ASSUME NEW s \in Slots, Claiming(s)
        PROVE  Owned'
    <2>1. flow[s].id \in Ids
      BY <1>0, <1>2, InHand DEF Claiming
    <2>2. \A u \in Ids \ {flow[s].id} : rows'[u] = rows[u]
      BY <1>0, <1>2, <2>1, ClaimedRow DEF Claiming
    <2>3. ASSUME NEW u \in Ids, rows'[u] # None, rows'[u].inFlight
          PROVE  \E t \in Slots : Holds(t)' /\ flow'[t].id = u
      <3>1. CASE u = flow[s].id
        BY <1>2, <3>1 DEF Claiming
      <3>2. CASE u # flow[s].id
        <4>1. PICK t \in Slots : Holds(t) /\ flow[t].id = u
          BY <2>2, <2>3, <3>2 DEF Owned
        <4>2. t # s /\ flow'[t] = flow[t]
          BY <1>2, <4>1 DEF Claiming
        <4>3. QED
          BY <4>1, <4>2 DEF Holds
      <3>3. QED
        BY <3>1, <3>2
    <2>4. QED
      BY <2>3 DEF Owned
  <1>3. ASSUME NEW s \in Slots, Ending(s)
        PROVE  Owned'
    <2>1. ASSUME NEW u \in Ids, rows'[u] # None, rows'[u].inFlight
          PROVE  \E t \in Slots : Holds(t)' /\ flow'[t].id = u
      <3>1. u # flow[s].id
        BY <1>3, <2>1 DEF Ending, Ended
      <3>2. PICK t \in Slots : Holds(t) /\ flow[t].id = u
        BY <1>3, <2>1, <3>1 DEF Owned, Ending
      <3>3. flow'[t] = flow[t]
        BY <1>3, <3>1, <3>2 DEF Ending
      <3>4. QED
        BY <3>2, <3>3 DEF Holds
    <2>2. QED
      BY <2>1 DEF Owned
  <1>4. CASE Restarting
    BY <1>4 DEF Restarting, Owned
  <1>5. QED
    BY <1>1, <1>2, <1>3, <1>4 DEF Kind

\* While no row is removed, what a slot has claimed stays its own.
LEMMA ClaimsStep ==
  ASSUME ClaimInv, Kind
  PROVE  RowsProven' /\ Owners' /\ Requested'
  <1>0. FlowsOK /\ RowsOK /\ RowsProven /\ Owners /\ Requested /\ NoRemovals
    BY DEF ClaimInv, FpInv, SetInv
  <1>1. \A s \in Slots : flow[s] # None => flow[s].id \in Ids
    BY <1>0, InHand
  <1>2. CASE Quiet /\ \A s \in Slots : Goes(s)
    <2>1. \A id \in Ids : rows[id] # None => rows'[id] # None /\ Calm(rows[id], rows'[id])
      BY <1>0, <1>2 DEF Quiet, Gentle, Kept
    <2>2. RowsProven'
      BY <1>0, <1>2, <2>1 DEF Quiet, Gentle, RowsProven, Calm
    <2>3. ASSUME NEW s \in Slots, Holds(s)'
          PROVE  ClaimOf(flow'[s], rows'[flow'[s].id]) /\ Holds(s) /\ flow'[s].id = flow[s].id
      <3>1. Goes(s) /\ Holds(s)
        BY <1>2, <2>3 DEF Goes
      <3>2. /\ flow'[s].id = flow[s].id /\ flow'[s].held = flow[s].held
            /\ MayComplete(flow'[s]) => MayComplete(flow[s]) \/ ~Retained(rows'[flow[s].id])
        BY <3>1 DEF Goes
      <3>3. flow[s].id \in Ids /\ ClaimOf(flow[s], rows[flow[s].id])
        BY <1>0, <1>1, <3>1 DEF Holds, Owners
      <3>4. rows'[flow[s].id] # None /\ Calm(rows[flow[s].id], rows'[flow[s].id])
        BY <2>1, <3>3 DEF ClaimOf
      <3>5. ClaimOf(flow'[s], rows'[flow[s].id])
        BY <3>2, <3>3, <3>4 DEF ClaimOf, Calm
      <3>6. QED
        BY <3>1, <3>2, <3>5
    <2>4. Owners'
      BY <1>0, <2>3 DEF Owners
    <2>5. ASSUME NEW s \in Slots, At(s, "requested")'
          PROVE  rows'[flow'[s].id] # None /\ ~Retained(rows'[flow'[s].id])
      <3>1. CASE At(s, "requested") /\ flow'[s].id = flow[s].id
        <4>1. flow[s].id \in Ids /\ rows[flow[s].id] # None /\ ~Retained(rows[flow[s].id])
          BY <1>0, <1>1, <3>1 DEF Requested, At
        <4>2. QED
          BY <2>1, <3>1, <4>1 DEF Calm
      <3>2. QED
        BY <1>2, <2>5, <3>1 DEF Goes
    <2>6. Requested'
      BY <2>5 DEF Requested
    <2>7. QED
      BY <2>2, <2>4, <2>6
  <1>3. ASSUME NEW s \in Slots, Claiming(s)
        PROVE  RowsProven' /\ Owners' /\ Requested'
    <2> DEFINE id == flow[s].id
    <2>1. id \in Ids
      BY <1>1, <1>3 DEF Claiming
    <2>2. /\ rows[id] # None /\ ~rows[id].inFlight
          /\ \A u \in Ids \ {id} : rows'[u] = rows[u]
          /\ rows'[id] # None /\ rows'[id].inFlight
          /\ rows'[id].ep = rows[id].ep /\ rows'[id].refresh = rows[id].refresh
          /\ Retained(rows'[id]) <=> Retained(rows[id])
          /\ Proven(rows[id]) => Proven(rows'[id])
      BY <1>0, <1>3, <2>1, ClaimedRow DEF Claiming
    <2>3. RowsProven'
      BY <1>0, <2>2 DEF RowsProven
    <2>4. \A t \in Slots : Holds(t) => flow[t].id # id
      BY <1>0, <2>2 DEF Owners, ClaimOf
    <2>5. ASSUME NEW t \in Slots, t # s
          PROVE  /\ flow'[t] = flow[t]
                 /\ Holds(t)' => Holds(t) /\ ClaimOf(flow'[t], rows'[flow'[t].id]) /\ flow'[t].id # id
      <3>1. flow'[t] = flow[t] /\ (Holds(t)' => Holds(t))
        BY <1>3, <2>5 DEF Claiming, Holds
      <3>2. Holds(t) => flow[t].id \in Ids \ {id} /\ ClaimOf(flow[t], rows[flow[t].id])
        BY <1>0, <1>1, <2>4 DEF Holds, Owners
      <3>3. QED
        BY <2>2, <3>1, <3>2
    <2>6. Holds(s)' /\ flow'[s].id = id /\ ClaimOf(flow'[s], rows'[id])
      <3>1. Holds(s)' /\ flow'[s].id = id /\ flow'[s].held = rows[id].ep
        BY <1>3 DEF Claiming
      <3>2. MayComplete(flow'[s]) => ~Retained(rows[id])
        <4>1. Proven(rows[id])
          BY <1>0, <2>1, <2>2 DEF RowsProven
        <4>2. At(s, "requested") => ~Retained(rows[id])
          BY <1>0 DEF Requested
        <4>3. ~(rows[id].layer = "el" /\ rows[id].net = None) => ~Retained(rows[id])
          BY <4>1 DEF Proven, Retained
        <4>4. QED
          BY <1>3, <4>2, <4>3 DEF Claiming
      <3>3. QED
        BY <2>2, <3>1, <3>2 DEF ClaimOf
    <2>7. Owners'
      <3>1. ASSUME NEW t \in Slots, Holds(t)'
            PROVE  ClaimOf(flow'[t], rows'[flow'[t].id])
        BY <2>5, <2>6, <3>1
      <3>2. ASSUME NEW t \in Slots, NEW u \in Slots, Holds(t)', Holds(u)', flow'[t].id = flow'[u].id
            PROVE  t = u
        <4>1. t # s /\ u # s => Holds(t) /\ Holds(u) /\ flow[t].id = flow[u].id
          BY <2>5, <3>2
        <4>2. QED
          BY <1>0, <2>5, <2>6, <3>2, <4>1 DEF Owners
      <3>3. QED
        BY <3>1, <3>2 DEF Owners
    <2>8. ASSUME NEW t \in Slots, At(t, "requested")'
          PROVE  rows'[flow'[t].id] # None /\ ~Retained(rows'[flow'[t].id])
      <3>1. t # s
        BY <2>6, <2>8 DEF Holds, At, Holding
      <3>2. flow'[t] = flow[t] /\ At(t, "requested")
        BY <2>5, <2>8, <3>1 DEF At
      <3>3. flow[t].id \in Ids /\ rows[flow[t].id] # None /\ ~Retained(rows[flow[t].id])
        BY <1>0, <1>1, <3>2 DEF Requested, At
      <3>4. QED
        BY <2>2, <3>2, <3>3
    <2>9. QED
      BY <2>3, <2>7, <2>8 DEF Requested
  <1>4. ASSUME NEW s \in Slots, Ending(s)
        PROVE  RowsProven' /\ Owners' /\ Requested'
    <2> DEFINE id == flow[s].id
    <2>1. id \in Ids /\ ClaimOf(flow[s], rows[id]) /\ rows[id] # None
      BY <1>0, <1>1, <1>4 DEF Ending, Holds, Owners, ClaimOf
    <2>2. /\ \A u \in Ids \ {id} : rows'[u] = rows[u]
          /\ Ended(flow[s], rows[id], rows'[id])
      BY <1>4, <2>1 DEF Ending
    <2>3. RowsProven'
      BY <1>0, <2>1, <2>2 DEF RowsProven, Ended
    <2>4. ASSUME NEW t \in Slots, t # s
          PROVE  /\ flow'[t] = flow[t]
                 /\ Holds(t)' => Holds(t) /\ ClaimOf(flow'[t], rows'[flow'[t].id])
      <3>1. flow'[t] = flow[t] /\ (Holds(t)' => Holds(t))
        BY <1>4, <2>4 DEF Ending, Holds
      <3>2. Holds(t) => flow[t].id \in Ids \ {id} /\ ClaimOf(flow[t], rows[flow[t].id])
        BY <1>0, <1>1, <1>4, <2>4 DEF Holds, Owners, Ending
      <3>3. QED
        BY <2>2, <3>1, <3>2
    <2>5. ~Holds(s)' /\ ~At(s, "requested")'
      BY <1>4 DEF Ending
    <2>6. Owners'
      BY <1>0, <2>4, <2>5 DEF Owners
    <2>7. ASSUME NEW t \in Slots, At(t, "requested")'
          PROVE  rows'[flow'[t].id] # None /\ ~Retained(rows'[flow'[t].id])
      <3>1. t # s /\ flow'[t] = flow[t] /\ At(t, "requested")
        BY <2>4, <2>5, <2>7 DEF At
      <3>2. flow[t].id \in Ids /\ rows[flow[t].id] # None /\ ~Retained(rows[flow[t].id])
        BY <1>0, <1>1, <3>1 DEF Requested, At
      <3>3. QED
        BY <2>2, <3>1, <3>2 DEF Ended
    <2>8. QED
      BY <2>3, <2>6, <2>7 DEF Requested
  <1>5. CASE Restarting
    BY <1>0, <1>5 DEF Restarting, RowsProven, Owners, Requested, Holds, At
  <1>6. QED
    BY <1>2, <1>3, <1>4, <1>5, Zenon DEF Kind

\* A claim is never lost: a row in flight is the claim of a goroutine or of a queued
\* task that will end it, whatever results are discarded, rows evicted, penalised,
\* pruned and taken in again, and however the process stops.
THEOREM ClaimsNeverLost == FpSpec => []Owned
  <1>1. FpInit => Owned
    BY DEF FpInit, SetInit, Owned
  <1>2. FpInv /\ Owned /\ [FpNext]_fpVars => Owned'
    BY StepKind, OwnedStep
  <1>3. QED
    BY <1>1, <1>2, FpInvAlways, PTL DEF FpSpec

LEMMA ClaimInvAlways == NoRemovals /\ FpSpec => []ClaimInv
  <1>1. NoRemovals /\ FpInit => ClaimInv
    <2>1. FpInit => RowsProven /\ Owners /\ Owned /\ Requested
      BY DEF FpInit, SetInit, RowsProven, Owners, Owned, Requested, Holds, At
    <2>2. QED
      BY <2>1, FpInvInit DEF ClaimInv
  <1>2. ClaimInv /\ [FpNext]_fpVars => ClaimInv'
    <2> SUFFICES ASSUME ClaimInv, [FpNext]_fpVars PROVE ClaimInv'
      OBVIOUS
    <2>1. FpInv /\ Owned /\ NoRemovals
      BY DEF ClaimInv
    <2>2. Kind /\ FpInv'
      BY <2>1, StepKind, FpInvStep
    <2>3. Owned' /\ RowsProven' /\ Owners' /\ Requested'
      BY <2>1, <2>2, OwnedStep, ClaimsStep
    <2>4. NoRemovals'
      BY <2>1 DEF NoRemovals
    <2>5. QED
      BY <2>2, <2>3, <2>4 DEF ClaimInv
  <1>3. QED
    BY <1>1, <1>2, PTL DEF FpSpec

\* While the table has room for every node and drops none, a row in flight has exactly
\* one owner, and a row that is not has none: no two goroutines probe one claim, and
\* none ends a claim that is not its own.
THEOREM ClaimsOwned == NoRemovals /\ FpSpec => []ClaimHasOneOwner
  <1>1. ASSUME ClaimInv, NEW id \in Ids
        PROVE  Cardinality(Holders(id)) = IF rows[id] # None /\ rows[id].inFlight THEN 1 ELSE 0
    <2>1. Owners /\ Owned
      BY <1>1 DEF ClaimInv
    <2>2. CASE rows[id] # None /\ rows[id].inFlight
      <3>1. PICK s \in Slots : Holds(s) /\ flow[s].id = id
        BY <2>1, <2>2 DEF Owned
      <3>2. Holders(id) = {s}
        BY <2>1, <3>1 DEF Holders, Holds, Owners
      <3>3. QED
        BY <2>2, <3>2, FS_Singleton
    <2>3. CASE ~(rows[id] # None /\ rows[id].inFlight)
      <3>1. Holders(id) = {}
        BY <2>1, <2>3 DEF Holders, Holds, Owners, ClaimOf
      <3>2. QED
        BY <2>3, <3>1, FS_EmptySet
    <2>4. QED
      BY <2>2, <2>3
  <1>2. ClaimInv => ClaimHasOneOwner
    BY <1>1 DEF ClaimHasOneOwner
  <1>3. QED
    BY <1>2, ClaimInvAlways, PTL

\* Under the same condition a fresh identity that a claimed probe established is of the
\* endpoint the row still has, although the record may be replaced while the probe runs.
THEOREM IdentityOfEndpoint == NoRemovals /\ FpSpec => []VerifiedSinceClaim
  <1>1. ClaimInv => VerifiedSinceClaim
    BY DEF ClaimInv, RowsProven, VerifiedSinceClaim, Proven, Fresh
  <1>2. QED
    BY <1>1, ClaimInvAlways, PTL
=============================================================================
