--------------------------- MODULE LifecycleProofs ---------------------------
(***************************************************************************)
(* Theorems about Lifecycle, for any number of goroutines of each kind, of *)
(* connections and of identities, and every capacity of the channels.      *)
(***************************************************************************)
EXTENDS Lifecycle, TLAPS

Starts == {"building", "probes", "pools"}
Closing == {"rtCancel", "rtRefresh", "rtClose", "rtDrain", "done"}
PastResolvers == {"loops", "pool", "server", "active"} \cup Closing
PastLoops == PastResolvers \ {"loops"}
PastPool == PastLoops \ {"pool"}
Places == Starts \cup {"running", "resolvers"} \cup PastResolvers

Idle == {"none", "gone"}
States ==
  Idle \cup {"next", "sending", "idle", "resolving", "enqueuing", "waiting", "ticking", "dialling",
            "dispatched", "entering", "active", "refreshing", "accepting", "accepted"}

\* The states of each kind of goroutine.
PlacesOK ==
  /\ at \in [Goroutines -> States]
  /\ \A r \in Readers : at[r] \in Idle \cup {"next", "sending"}
  /\ \A w \in Workers : at[w] \in Idle \cup {"idle", "resolving", "enqueuing"}
  /\ \A l \in Loops : at[l] \in Idle \cup {"waiting", "ticking", "enqueuing"}
  /\ \A p \in Probers : at[p] \in Idle \cup {"idle", "dialling"}
  /\ \A h \in Requests : at[h] \in {"none", "idle", "dispatched", "entering", "active", "dialling"}
  /\ at[Refresher] \in Idle \cup {"waiting", "refreshing"}
  /\ \A i \in Acceptors : at[i] \in Idle \cup {"accepting", "accepted"}

TypeOK ==
  /\ main \in Places /\ failed \in BOOLEAN
  /\ nodes \in Nat /\ queue \in Nat /\ built \in 0..Len(Identities)
  /\ listening \subseteq Acceptors
  /\ serves \in [Peers -> Acceptors \cup {Nobody}]
  /\ snapped \in BOOLEAN /\ late \in BOOLEAN

\* The pools are started together, and gone in order: readers, workers, loops,
\* fingerprint workers.
PoolsInOrder ==
  /\ main \in Starts =>
       /\ \A g \in Readers \cup Workers \cup Loops \cup Probers : at[g] = "none"
       /\ nodes = 0 /\ queue = 0
  /\ main \in PastResolvers => \A g \in Readers \cup Workers : at[g] \in Idle
  /\ main \in PastLoops => \A g \in Loops : at[g] \in Idle
  /\ main \in PastPool => \A g \in Probers : at[g] \in Idle

\* A worker leaves an empty channel that nobody sends to any more.
ChannelsEmptied ==
  /\ "nodes" \in closed => Gone(Readers)
  /\ \A w \in Workers : at[w] = "gone" => "nodes" \in closed /\ nodes = 0
  /\ \A p \in Probers : at[p] = "gone" => "pool" \in closed /\ queue = 0
  /\ main \in PastResolvers => nodes = 0
  /\ main \in PastPool => queue = 0

\* A handler that is in enter, or beyond it, is one Shutdown waits for.
HandlersCounted ==
  /\ main \in {"building", "probes"} => \A h \in Requests : at[h] = "none"
  /\ main \in {"server", "active"} => "probes" \in closed
  /\ "probes" \in closed => \A h \in Requests : at[h] # "entering"
  /\ main \in Closing => \A h \in Requests :
       at[h] \in {"none", "idle", "dispatched"} /\ ("probes" \in closed \/ at[h] = "none")

\* All identities are built before anybody uses them, and closed newest first,
\* after the refresh loop, each with nobody left on it.
IdentitiesInOrder ==
  /\ main = "building" => at[Refresher] = "none"
  /\ main \notin Closing \cup {"building"} => built = Len(Identities)
  /\ at[Refresher] \in {"waiting", "refreshing"} => built = Len(Identities)
  /\ main \in {"rtClose", "rtDrain", "done"} => at[Refresher] \in Idle
  /\ \A n \in 1..Len(Identities) : n > built =>
       /\ at[Identities[n]] \in Idle
       /\ Identities[n] \notin listening
       /\ \A p \in Peers : serves[p] # Identities[n]
  /\ main = "rtDrain" => built > 0 /\ Identities[built] \notin listening

\* The rows are read last.
RowsReadLast ==
  /\ main = "done" => built = 0
  /\ snapped => main = "done"
  /\ ~late

Ordered == PoolsInOrder /\ ChannelsEmptied /\ HandlersCounted /\ IdentitiesInOrder /\ RowsReadLast
IInv == TypeOK /\ PlacesOK /\ Ordered

-----------------------------------------------------------------------------
(* Who is who *)

\* A goroutine has one role.
LEMMA Roles ==
  /\ Readers \subseteq Goroutines /\ Workers \subseteq Goroutines /\ Loops \subseteq Goroutines
  /\ Probers \subseteq Goroutines /\ Requests \subseteq Goroutines
  /\ Acceptors \subseteq Goroutines /\ Refresher \in Goroutines
  /\ \A g \in Readers : g \notin Workers /\ g \notin Loops /\ g \notin Probers
                        /\ g \notin Requests /\ g \notin Acceptors /\ g # Refresher
  /\ \A g \in Workers : g \notin Loops /\ g \notin Probers
                        /\ g \notin Requests /\ g \notin Acceptors /\ g # Refresher
  /\ \A g \in Loops : g \notin Probers /\ g \notin Requests /\ g \notin Acceptors /\ g # Refresher
  /\ \A g \in Probers : g \notin Requests /\ g \notin Acceptors /\ g # Refresher
  /\ \A g \in Requests : g \notin Acceptors /\ g # Refresher
  /\ \A g \in Acceptors : g # Refresher
  BY LifecycleAssumption DEF Goroutines

\* The identities are the acceptors, each once.
LEMMA IdentityFacts ==
  /\ Len(Identities) \in Nat /\ DOMAIN Identities = 1..Len(Identities)
  /\ \A n \in 1..Len(Identities) : Identities[n] \in Acceptors
  /\ \A m, n \in 1..Len(Identities) : Identities[m] = Identities[n] => m = n
  /\ \A i \in Acceptors : \E n \in 1..Len(Identities) : Identities[n] = i
  /\ Nobody \notin Acceptors
  <1>1. Len(Identities) \in Nat /\ DOMAIN Identities = 1..Len(Identities)
    BY LifecycleAssumption
  <1>2. QED
    BY <1>1, LifecycleAssumption DEF Acceptors, Range, IsInjective

LEMMA InitInv == Init => IInv
  <1> SUFFICES ASSUME Init PROVE IInv
    OBVIOUS
  <1>1. TypeOK
    <2>1. built \in 0..Len(Identities)
      BY IdentityFacts DEF Init
    <2>2. serves \in [Peers -> Acceptors \cup {Nobody}]
      BY DEF Init
    <2>3. main \in Places /\ failed \in BOOLEAN /\ snapped \in BOOLEAN /\ late \in BOOLEAN
      BY DEF Init, Places, Starts
    <2>4. QED
      BY <2>1, <2>2, <2>3 DEF Init, TypeOK
  <1>2. \A g \in Goroutines : at[g] = "none"
    BY DEF Init
  <1>3. PlacesOK
    <2>1. at \in [Goroutines -> States]
      BY DEF Init, States, Idle
    <2>2. QED
      BY <1>2, <2>1, Roles DEF PlacesOK, Idle
  <1>4. Ordered
    BY <1>2, Roles, IdentityFacts DEF Init, Ordered, PoolsInOrder, ChannelsEmptied, HandlersCounted,
      IdentitiesInOrder, RowsReadLast, Starts, Closing, PastResolvers, PastLoops, PastPool, Idle, Gone
  <1>5. QED
    BY <1>1, <1>3, <1>4 DEF IInv

\* Nobody is on an identity that is not built.
LEMMA Unused ==
  ASSUME IInv, NEW n \in 1..Len(Identities), n > built
  PROVE  /\ at[Identities[n]] \in Idle /\ Identities[n] \notin listening
         /\ \A p \in Peers : serves[p] # Identities[n]
  BY DEF IInv, Ordered, IdentitiesInOrder

\* A row that is written before the end is not late.
LEMMA EarlyWrite ==
  ASSUME IInv, main # "done", Write \/ UNCHANGED rows, UNCHANGED <<main, built>>
  PROVE  RowsReadLast'
  <1>1. ~snapped /\ ~late
    BY DEF IInv, Ordered, RowsReadLast
  <1>2. CASE Write
    <2>1. late' = (late \/ snapped) /\ snapped' = snapped
      BY <1>2 DEF Write
    <2>2. QED
      BY <1>1, <2>1 DEF RowsReadLast
  <1>3. CASE UNCHANGED rows
    BY <1>1, <1>3 DEF RowsReadLast, rows
  <1>4. QED
    BY <1>2, <1>3

\* A reader reads and sends, or gives up.
LEMMA ReaderSteps ==
  ASSUME IInv, NEW r \in Readers, Sighting(r) \/ Reader(r)
  PROVE  IInv'
  <1> USE DEF Sighting, Reader, Send, ReaderExits, Quietly, Go, Idle
  <1>1. TypeOK'
    BY DEF IInv, TypeOK, chans, rows
  <1>2. PlacesOK'
    BY Roles DEF IInv, PlacesOK, States
  <1>3. PoolsInOrder'
    BY Roles DEF IInv, Ordered, PlacesOK, PoolsInOrder, Starts, Closing,
      PastResolvers, PastLoops, PastPool, chans
  <1>4. ChannelsEmptied'
    BY Roles DEF IInv, Ordered, TypeOK, PlacesOK, PoolsInOrder, ChannelsEmptied, Gone, chans
  <1>5. HandlersCounted'
    BY Roles DEF IInv, Ordered, PlacesOK, HandlersCounted
  <1>6. IdentitiesInOrder'
    BY Roles, IdentityFacts DEF IInv, Ordered, PlacesOK, IdentitiesInOrder
  <1>7. RowsReadLast'
    BY DEF IInv, Ordered, RowsReadLast, rows
  <1>8. QED
    BY <1>1, <1>2, <1>3, <1>4, <1>5, <1>6, <1>7 DEF IInv, Ordered

\* A resolve worker takes a node, observes it, enqueues a probe, or leaves.
LEMMA WorkerSteps ==
  ASSUME IInv, NEW w \in Workers, Worker(w)
  PROVE  IInv'
  <1> USE DEF Worker, Take, Resolve, Enqueue, WorkerExits, Writes, Write, Quietly, Go, Idle
  <1>1. TypeOK'
    BY DEF IInv, TypeOK, chans, rows
  <1>2. PlacesOK'
    BY Roles DEF IInv, PlacesOK, States
  <1>3. PoolsInOrder'
    BY Roles DEF IInv, Ordered, PlacesOK, PoolsInOrder, Starts, Closing,
      PastResolvers, PastLoops, PastPool, chans
  <1>4. ChannelsEmptied'
    BY Roles DEF IInv, Ordered, TypeOK, PlacesOK, PoolsInOrder, ChannelsEmptied, Gone, chans, Starts, Closing, PastResolvers, PastLoops, PastPool
  <1>5. HandlersCounted'
    BY Roles DEF IInv, Ordered, PlacesOK, HandlersCounted
  <1>6. IdentitiesInOrder'
    BY Roles, IdentityFacts DEF IInv, Ordered, PlacesOK, IdentitiesInOrder
  <1>7. RowsReadLast'
    <2>1. main # "done"
      BY DEF IInv, Ordered, PoolsInOrder, Closing, PastResolvers
    <2>2. QED
      BY <2>1, EarlyWrite DEF rows
  <1>8. QED
    BY <1>1, <1>2, <1>3, <1>4, <1>5, <1>6, <1>7 DEF IInv, Ordered

\* A loop ticks, writes, enqueues a probe, or leaves.
LEMMA LoopSteps ==
  ASSUME IInv, NEW l \in Loops, Tick(l) \/ Loop(l) \/ LoopExits(l)
  PROVE  IInv'
  <1> USE DEF Tick, Loop, TickWrites, Enqueue, LoopExits, Writes, Write, Quietly, Go, Idle
  <1>1. TypeOK'
    BY DEF IInv, TypeOK, chans, rows
  <1>2. PlacesOK'
    BY Roles DEF IInv, PlacesOK, States
  <1>3. PoolsInOrder'
    BY Roles DEF IInv, Ordered, PlacesOK, PoolsInOrder, Starts, Closing,
      PastResolvers, PastLoops, PastPool, chans
  <1>4. ChannelsEmptied'
    BY Roles DEF IInv, Ordered, TypeOK, PlacesOK, PoolsInOrder, ChannelsEmptied, Gone, chans, Starts, Closing, PastResolvers, PastLoops, PastPool
  <1>5. HandlersCounted'
    BY Roles DEF IInv, Ordered, PlacesOK, HandlersCounted
  <1>6. IdentitiesInOrder'
    BY Roles, IdentityFacts DEF IInv, Ordered, PlacesOK, IdentitiesInOrder
  <1>7. RowsReadLast'
    <2>1. main # "done"
      BY DEF IInv, Ordered, PoolsInOrder, Closing, PastResolvers, PastLoops
    <2>2. QED
      BY <2>1, EarlyWrite DEF rows
  <1>8. QED
    BY <1>1, <1>2, <1>3, <1>4, <1>5, <1>6, <1>7 DEF IInv, Ordered

\* A fingerprint worker takes a probe, finishes it, or leaves.
LEMMA ProberSteps ==
  ASSUME IInv, NEW p \in Probers, Prober(p)
  PROVE  IInv'
  <1> USE DEF Prober, Probe, FinishProbe, ProberExits, Writes, Write, Quietly, Go, Idle
  <1>1. TypeOK'
    BY DEF IInv, TypeOK, chans, rows
  <1>2. PlacesOK'
    BY Roles DEF IInv, PlacesOK, States
  <1>3. PoolsInOrder'
    BY Roles DEF IInv, Ordered, PlacesOK, PoolsInOrder, Starts, Closing,
      PastResolvers, PastLoops, PastPool, chans
  <1>4. ChannelsEmptied'
    BY Roles DEF IInv, Ordered, TypeOK, PlacesOK, PoolsInOrder, ChannelsEmptied, Gone, chans, Starts, Closing, PastResolvers, PastLoops, PastPool
  <1>5. HandlersCounted'
    BY Roles DEF IInv, Ordered, PlacesOK, HandlersCounted
  <1>6. IdentitiesInOrder'
    BY Roles, IdentityFacts DEF IInv, Ordered, PlacesOK, IdentitiesInOrder
  <1>7. RowsReadLast'
    <2>1. main # "done"
      BY DEF IInv, Ordered, PoolsInOrder, Closing, PastResolvers, PastLoops, PastPool
    <2>2. QED
      BY <2>1, EarlyWrite DEF rows
  <1>8. QED
    BY <1>1, <1>2, <1>3, <1>4, <1>5, <1>6, <1>7 DEF IInv, Ordered

\* A request is dispatched, enters or is refused, and is handled.
LEMMA RequestSteps ==
  ASSUME IInv, NEW h \in Requests, Dispatch(h) \/ Request(h)
  PROVE  IInv'
  <1> USE DEF Dispatch, Request, Enter, Refuse, Entered, Observe, Complete, Writes, Write, Quietly, Go, Idle
  <1>1. TypeOK'
    BY DEF IInv, TypeOK, chans, rows
  <1>2. PlacesOK'
    BY Roles DEF IInv, PlacesOK, States
  <1>3. PoolsInOrder'
    BY Roles DEF IInv, Ordered, PlacesOK, PoolsInOrder, Starts, Closing,
      PastResolvers, PastLoops, PastPool, chans
  <1>4. ChannelsEmptied'
    BY Roles DEF IInv, Ordered, TypeOK, PlacesOK, PoolsInOrder, ChannelsEmptied, Gone, chans
  <1>5. HandlersCounted'
    BY Roles DEF IInv, Ordered, PlacesOK, HandlersCounted, Closing
  <1>6. IdentitiesInOrder'
    BY Roles, IdentityFacts DEF IInv, Ordered, PlacesOK, IdentitiesInOrder
  <1>7. RowsReadLast'
    <2>1. CASE at[h] \in {"active", "dialling"}
      <3>1. main # "done"
        BY <2>1 DEF IInv, Ordered, HandlersCounted, Closing
      <3>2. QED
        BY <3>1, EarlyWrite DEF rows
    <2>2. CASE at[h] \notin {"active", "dialling"}
      BY <2>2 DEF IInv, Ordered, RowsReadLast, rows
    <2>3. QED
      BY <2>1, <2>2
  <1>8. QED
    BY <1>1, <1>2, <1>3, <1>4, <1>5, <1>6, <1>7 DEF IInv, Ordered

\* The refresh loop.
LEMMA RefreshSteps ==
  ASSUME IInv, RefreshNow \/ Refreshed \/ RefreshExits
  PROVE  IInv'
  <1> USE DEF RefreshNow, Refreshed, RefreshExits, Quietly, Go, Idle
  <1>1. TypeOK'
    BY DEF IInv, TypeOK, chans, rows
  <1>2. PlacesOK'
    BY Roles DEF IInv, PlacesOK, States
  <1>3. PoolsInOrder'
    BY Roles DEF IInv, Ordered, PlacesOK, PoolsInOrder, Starts, Closing,
      PastResolvers, PastLoops, PastPool, chans
  <1>4. ChannelsEmptied'
    BY Roles DEF IInv, Ordered, TypeOK, PlacesOK, PoolsInOrder, ChannelsEmptied, Gone, chans
  <1>5. HandlersCounted'
    BY Roles DEF IInv, Ordered, PlacesOK, HandlersCounted
  <1>6. IdentitiesInOrder'
    BY Roles, IdentityFacts DEF IInv, Ordered, PlacesOK, IdentitiesInOrder
  <1>7. RowsReadLast'
    BY DEF IInv, Ordered, RowsReadLast, rows
  <1>8. QED
    BY <1>1, <1>2, <1>3, <1>4, <1>5, <1>6, <1>7 DEF IInv, Ordered

\* The accept loop of an identity.
LEMMA AcceptorSteps ==
  ASSUME IInv, NEW i \in Acceptors, Accept(i) \/ Acceptor(i) \/ AcceptorExits(i)
  PROVE  IInv'
  <1> USE DEF Accept, Acceptor, CloseWithContext, Handle, Free, AcceptorExits, Quietly, Go, Idle
  <1>1. TypeOK'
    BY DEF IInv, TypeOK, chans, rows
  <1>2. PlacesOK'
    BY Roles DEF IInv, PlacesOK, States
  <1>3. PoolsInOrder'
    BY Roles DEF IInv, Ordered, PlacesOK, PoolsInOrder, Starts, Closing,
      PastResolvers, PastLoops, PastPool, chans
  <1>4. ChannelsEmptied'
    BY Roles DEF IInv, Ordered, TypeOK, PlacesOK, PoolsInOrder, ChannelsEmptied, Gone, chans
  <1>5. HandlersCounted'
    BY Roles DEF IInv, Ordered, PlacesOK, HandlersCounted
  <1>6. IdentitiesInOrder'
    <2>1. \A n \in 1..Len(Identities) : n > built /\ at[i] \notin Idle => Identities[n] # i
      BY DEF IInv, Ordered, IdentitiesInOrder
    <2>2. \A n \in 1..Len(Identities) : n > built' =>
            at'[Identities[n]] \in Idle /\ Identities[n] \notin listening'
      BY <2>1, Roles, IdentityFacts DEF IInv, Ordered, PlacesOK, IdentitiesInOrder
    <2>3. \A n \in 1..Len(Identities), p \in Peers : n > built' => serves'[p] # Identities[n]
      <3>1. CASE serves' = serves
        BY <3>1, Unused
      <3>2. CASE Handle(i) /\ serves' # serves
        <4>1. PICK q \in Peers : serves' = [serves EXCEPT ![q] = i]
          BY <3>2
        <4>2. \A p \in Peers : serves'[p] = i \/ serves'[p] = serves[p]
          BY <4>1 DEF IInv, TypeOK
        <4>3. QED
          BY <2>1, <3>2, <4>2, Unused
      <3>3. QED
        BY <3>1, <3>2
    <2>4. listening' \subseteq listening /\ at'[Refresher] = at[Refresher]
      BY Roles DEF IInv, PlacesOK
    <2>5. QED
      BY <2>2, <2>3, <2>4, IdentityFacts DEF IInv, Ordered, TypeOK, IdentitiesInOrder
  <1>7. RowsReadLast'
    BY DEF IInv, Ordered, RowsReadLast, rows
  <1>8. QED
    BY <1>1, <1>2, <1>3, <1>4, <1>5, <1>6, <1>7 DEF IInv, Ordered

\* A handler of a connection calls the crawler back, and is done.
LEMMA CallbackSteps ==
  ASSUME IInv, NEW p \in Peers, Callback(p)
  PROVE  IInv'
  <1> USE DEF Callback, Write, Idle
  <1>1. TypeOK'
    BY DEF IInv, TypeOK, chans, rows
  <1>2. PlacesOK'
    BY Roles DEF IInv, PlacesOK, States
  <1>3. PoolsInOrder'
    BY Roles DEF IInv, Ordered, PlacesOK, PoolsInOrder, Starts, Closing,
      PastResolvers, PastLoops, PastPool, chans
  <1>4. ChannelsEmptied'
    BY Roles DEF IInv, Ordered, TypeOK, PlacesOK, PoolsInOrder, ChannelsEmptied, Gone, chans
  <1>5. HandlersCounted'
    BY Roles DEF IInv, Ordered, PlacesOK, HandlersCounted
  <1>6. IdentitiesInOrder'
    <2>1. \A q \in Peers : serves'[q] \in {serves[q], Nobody}
      BY DEF IInv, TypeOK
    <2>2. \A n \in 1..Len(Identities), q \in Peers : n > built => serves'[q] # Identities[n]
      BY <2>1, Unused, IdentityFacts
    <2>3. QED
      BY <2>2 DEF IInv, Ordered, IdentitiesInOrder
  <1>7. RowsReadLast'
    <2>1. serves[p] \in Acceptors
      BY DEF IInv, TypeOK
    <2>2. PICK n \in 1..Len(Identities) : Identities[n] = serves[p]
      BY <2>1, IdentityFacts
    <2>3. built \in Nat /\ ~(n > built)
      BY <2>2, Unused, IdentityFacts DEF IInv, TypeOK
    <2>4. main # "done"
      BY <2>3, IdentityFacts DEF IInv, Ordered, RowsReadLast
    <2>5. QED
      BY <2>4, EarlyWrite DEF rows
  <1>8. QED
    BY <1>1, <1>2, <1>3, <1>4, <1>5, <1>6, <1>7 DEF IInv, Ordered

\* The channel of nodes is closed, a signal comes, or the manifest is lost.
LEMMA SignalSteps ==
  ASSUME IInv, CloseNodes \/ Signal \/ LoseManifest
  PROVE  IInv'
  <1> USE DEF CloseNodes, Signal, LoseManifest, Run, Idle, chans, rows
  <1>1. TypeOK'
    <2>1. CASE CloseNodes
      BY <2>1 DEF IInv, TypeOK
    <2>2. CASE Signal
      BY <2>2 DEF IInv, TypeOK
    <2>3. CASE LoseManifest
      <3>1. main' \in Places /\ failed' \in BOOLEAN
        BY <2>3 DEF Places
      <3>2. QED
        BY <2>3, <3>1 DEF IInv, TypeOK
    <2>4. QED
      BY <2>1, <2>2, <2>3
  <1>2. PlacesOK'
    BY Roles DEF IInv, PlacesOK, States
  <1>3. PoolsInOrder'
    BY Roles DEF IInv, Ordered, PlacesOK, PoolsInOrder, Starts, Closing,
      PastResolvers, PastLoops, PastPool, chans
  <1>4. ChannelsEmptied'
    BY Roles DEF IInv, Ordered, TypeOK, PlacesOK, PoolsInOrder, ChannelsEmptied, Gone, chans
  <1>5. HandlersCounted'
    BY Roles DEF IInv, Ordered, PlacesOK, HandlersCounted
  <1>6. IdentitiesInOrder'
    BY Roles, IdentityFacts DEF IInv, Ordered, PlacesOK, IdentitiesInOrder
  <1>7. RowsReadLast'
    BY DEF IInv, Ordered, RowsReadLast, rows
  <1>8. QED
    BY <1>1, <1>2, <1>3, <1>4, <1>5, <1>6, <1>7 DEF IInv, Ordered

\* Another identity is built.
LEMMA BuildStep ==
  ASSUME IInv, Build
  PROVE  IInv'
  <1> USE DEF Build, Run, Idle
  <1>1. TypeOK'
    <2>1. built' \in 0..Len(Identities) /\ listening' \subseteq Acceptors
      BY IdentityFacts DEF IInv, TypeOK
    <2>2. main' = main
      OBVIOUS
    <2>3. QED
      BY <2>1, <2>2 DEF IInv, TypeOK, chans
  <1>2. PlacesOK'
    <2>1. Identities[built'] \in Acceptors
      BY IdentityFacts
    <2>2. QED
      BY <2>1, Roles DEF IInv, PlacesOK, States
  <1>3. PoolsInOrder'
    <2>1. Identities[built'] \in Acceptors
      BY IdentityFacts
    <2>2. QED
      BY <2>1, Roles DEF IInv, Ordered, PlacesOK, PoolsInOrder, chans,
        Starts, Closing, PastResolvers, PastLoops, PastPool
  <1>4. ChannelsEmptied'
    <2>1. Identities[built'] \in Acceptors
      BY IdentityFacts
    <2>2. QED
      BY <2>1, Roles DEF IInv, Ordered, PlacesOK, ChannelsEmptied, Gone, chans,
        Closing, PastResolvers, PastLoops, PastPool
  <1>5. HandlersCounted'
    <2>1. Identities[built'] \in Acceptors
      BY IdentityFacts
    <2>2. QED
      BY <2>1, Roles DEF IInv, Ordered, PlacesOK, HandlersCounted, Closing
  <1>6. IdentitiesInOrder'
    BY Roles, IdentityFacts DEF IInv, Ordered, PlacesOK, IdentitiesInOrder, TypeOK, Closing
  <1>7. RowsReadLast'
    BY DEF IInv, Ordered, RowsReadLast, rows
  <1>8. QED
    BY <1>1, <1>2, <1>3, <1>4, <1>5, <1>6, <1>7 DEF IInv, Ordered

\* An identity cannot be built.
LEMMA BuildFailsStep ==
  ASSUME IInv, BuildFails
  PROVE  IInv'
  <1> USE DEF BuildFails, Run, Idle
  <1>1. TypeOK'
    BY DEF IInv, TypeOK, chans, rows, Places, Starts, Closing, PastResolvers, PastLoops, PastPool
  <1>2. PlacesOK'
    BY Roles DEF IInv, PlacesOK, States
  <1>3. PoolsInOrder'
    BY Roles DEF IInv, Ordered, PlacesOK, PoolsInOrder, Starts, Closing,
      PastResolvers, PastLoops, PastPool, chans
  <1>4. ChannelsEmptied'
    BY Roles DEF IInv, Ordered, TypeOK, PlacesOK, PoolsInOrder, ChannelsEmptied, Gone, chans, Starts, Closing, PastResolvers, PastLoops, PastPool
  <1>5. HandlersCounted'
    BY Roles DEF IInv, Ordered, PlacesOK, HandlersCounted, Closing
  <1>6. IdentitiesInOrder'
    <2>1. \A n \in 1..Len(Identities) : n > built' =>
            /\ at'[Identities[n]] \in Idle /\ Identities[n] \notin listening'
            /\ \A p \in Peers : serves'[p] # Identities[n]
      BY Unused, IdentityFacts DEF IInv, TypeOK
    <2>2. QED
      BY <2>1, IdentityFacts DEF IInv, Ordered, IdentitiesInOrder, Closing, PlacesOK, TypeOK
  <1>7. RowsReadLast'
    BY DEF IInv, Ordered, RowsReadLast, rows
  <1>8. QED
    BY <1>1, <1>2, <1>3, <1>4, <1>5, <1>6, <1>7 DEF IInv, Ordered

\* The refresh loop starts.
LEMMA StartRefreshStep ==
  ASSUME IInv, StartRefresh
  PROVE  IInv'
  <1> USE DEF StartRefresh, Run, Idle
  <1>1. TypeOK'
    BY DEF IInv, TypeOK, chans, rows, Places, Starts, Closing, PastResolvers, PastLoops, PastPool
  <1>2. PlacesOK'
    BY Roles DEF IInv, PlacesOK, States
  <1>3. PoolsInOrder'
    BY Roles DEF IInv, Ordered, PlacesOK, PoolsInOrder, Starts, Closing,
      PastResolvers, PastLoops, PastPool, chans
  <1>4. ChannelsEmptied'
    BY Roles DEF IInv, Ordered, TypeOK, PlacesOK, PoolsInOrder, ChannelsEmptied, Gone, chans, Starts, Closing, PastResolvers, PastLoops, PastPool
  <1>5. HandlersCounted'
    BY Roles DEF IInv, Ordered, PlacesOK, HandlersCounted, Closing
  <1>6. IdentitiesInOrder'
    <2>1. built' = Len(Identities)
      <3>1. built + 1 \notin 1..Len(Identities) /\ built \in 0..Len(Identities)
        BY IdentityFacts DEF IInv, TypeOK
      <3>2. \A k \in Nat : \A n \in 0..k : n + 1 \notin 1..k => n = k
        OBVIOUS
      <3>3. built = Len(Identities)
        BY <3>1, <3>2, IdentityFacts
      <3>4. QED
        BY <3>3
    <2>2. main' \notin {"building", "rtDrain", "rtClose", "done"}
      OBVIOUS
    <2>3. \A n \in 1..Len(Identities) : ~(n > built')
      BY <2>1, IdentityFacts
    <2>4. QED
      BY <2>1, <2>2, <2>3 DEF IdentitiesInOrder
  <1>7. RowsReadLast'
    BY DEF IInv, Ordered, RowsReadLast, rows
  <1>8. QED
    BY <1>1, <1>2, <1>3, <1>4, <1>5, <1>6, <1>7 DEF IInv, Ordered

\* The probe server starts, or does not.
LEMMA StartProbesStep ==
  ASSUME IInv, StartProbes
  PROVE  IInv'
  <1> USE DEF StartProbes, Run, Idle
  <1>1. TypeOK'
    BY DEF IInv, TypeOK, chans, rows, Places, Starts, Closing, PastResolvers, PastLoops, PastPool
  <1>2. PlacesOK'
    BY Roles DEF IInv, PlacesOK, States
  <1>3. PoolsInOrder'
    BY Roles DEF IInv, Ordered, PlacesOK, PoolsInOrder, Starts, Closing,
      PastResolvers, PastLoops, PastPool, chans
  <1>4. ChannelsEmptied'
    BY Roles DEF IInv, Ordered, TypeOK, PlacesOK, PoolsInOrder, ChannelsEmptied, Gone, chans, Starts, Closing, PastResolvers, PastLoops, PastPool
  <1>5. HandlersCounted'
    BY Roles DEF IInv, Ordered, PlacesOK, HandlersCounted, Closing
  <1>6. IdentitiesInOrder'
    <2>1. built' = Len(Identities)
      BY IdentityFacts DEF IInv, Ordered, TypeOK, IdentitiesInOrder, Closing
    <2>2. main' \notin {"building", "rtDrain", "rtClose", "done"}
      OBVIOUS
    <2>3. \A n \in 1..Len(Identities) : ~(n > built')
      BY <2>1, IdentityFacts
    <2>4. QED
      BY <2>1, <2>2, <2>3 DEF IdentitiesInOrder
  <1>7. RowsReadLast'
    BY DEF IInv, Ordered, RowsReadLast, rows
  <1>8. QED
    BY <1>1, <1>2, <1>3, <1>4, <1>5, <1>6, <1>7 DEF IInv, Ordered

\* The pools start.
LEMMA StartPoolsStep ==
  ASSUME IInv, StartPools
  PROVE  IInv'
  <1> USE DEF StartPools, Run, Idle
  <1>1. TypeOK'
    BY DEF IInv, TypeOK, chans, rows, Places, Starts, Closing, PastResolvers, PastLoops, PastPool
  <1>2. PlacesOK'
    BY Roles DEF IInv, PlacesOK, States
  <1>3. PoolsInOrder'
    BY Roles DEF IInv, Ordered, PlacesOK, PoolsInOrder, Starts, Closing,
      PastResolvers, PastLoops, PastPool, chans
  <1>4. ChannelsEmptied'
    BY Roles DEF IInv, Ordered, TypeOK, PlacesOK, PoolsInOrder, ChannelsEmptied, Gone, chans, Starts, Closing, PastResolvers, PastLoops, PastPool
  <1>5. HandlersCounted'
    BY Roles DEF IInv, Ordered, PlacesOK, HandlersCounted, Closing
  <1>6. IdentitiesInOrder'
    BY Roles, IdentityFacts DEF IInv, Ordered, PlacesOK, IdentitiesInOrder, TypeOK, Closing
  <1>7. RowsReadLast'
    BY DEF IInv, Ordered, RowsReadLast, rows
  <1>8. QED
    BY <1>1, <1>2, <1>3, <1>4, <1>5, <1>6, <1>7 DEF IInv, Ordered

\* The pools are closed one after the other.
LEMMA PoolsCloseSteps ==
  ASSUME IInv, CloseIterators \/ CloseLoops \/ ClosePool
  PROVE  IInv'
  <1> USE DEF CloseIterators, CloseLoops, ClosePool, Closes, Gone, Run, Idle
  <1>1. TypeOK'
    BY DEF IInv, TypeOK, chans, rows, Places, Starts, Closing, PastResolvers, PastLoops, PastPool
  <1>2. PlacesOK'
    BY Roles DEF IInv, PlacesOK, States
  <1>3. PoolsInOrder'
    BY Roles DEF IInv, Ordered, PlacesOK, PoolsInOrder, Starts, Closing,
      PastResolvers, PastLoops, PastPool, chans
  <1>4. ChannelsEmptied'
    <2>1. Gone(Workers) => nodes = 0
      BY LifecycleAssumption DEF IInv, Ordered, ChannelsEmptied
    <2>2. Gone(Probers) => queue = 0
      BY LifecycleAssumption DEF IInv, Ordered, ChannelsEmptied
    <2>3. QED
      BY <2>1, <2>2 DEF IInv, Ordered, PoolsInOrder, ChannelsEmptied, chans,
        Starts, Closing, PastResolvers, PastLoops, PastPool
  <1>5. HandlersCounted'
    BY Roles DEF IInv, Ordered, PlacesOK, HandlersCounted, Closing
  <1>6. IdentitiesInOrder'
    <2>1. \A n \in 1..Len(Identities) : n > built' =>
            /\ at'[Identities[n]] \in Idle /\ Identities[n] \notin listening'
            /\ \A p \in Peers : serves'[p] # Identities[n]
      BY Unused
    <2>2. QED
      BY <2>1, IdentityFacts DEF IInv, Ordered, IdentitiesInOrder, Closing, PlacesOK, TypeOK
  <1>7. RowsReadLast'
    BY DEF IInv, Ordered, RowsReadLast, rows
  <1>8. QED
    BY <1>1, <1>2, <1>3, <1>4, <1>5, <1>6, <1>7 DEF IInv, Ordered

\* The probe server is closed.
LEMMA ServerCloseSteps ==
  ASSUME IInv, CloseProbes \/ StopServer \/ ProbesDrained
  PROVE  IInv'
  <1> USE DEF CloseProbes, StopServer, ProbesDrained, Waits, Closes, Gone, Run, Idle
  <1>1. TypeOK'
    BY DEF IInv, TypeOK, chans, rows, Places, Starts, Closing, PastResolvers, PastLoops, PastPool
  <1>2. PlacesOK'
    BY Roles DEF IInv, PlacesOK, States
  <1>3. PoolsInOrder'
    BY Roles DEF IInv, Ordered, PlacesOK, PoolsInOrder, Starts, Closing,
      PastResolvers, PastLoops, PastPool, chans
  <1>4. ChannelsEmptied'
    <2>1. Gone(Workers) => nodes = 0
      BY LifecycleAssumption DEF IInv, Ordered, ChannelsEmptied
    <2>2. Gone(Probers) => queue = 0
      BY LifecycleAssumption DEF IInv, Ordered, ChannelsEmptied
    <2>3. QED
      BY <2>1, <2>2 DEF IInv, Ordered, PoolsInOrder, ChannelsEmptied, chans,
        Starts, Closing, PastResolvers, PastLoops, PastPool
  <1>5. HandlersCounted'
    BY Roles DEF IInv, Ordered, PlacesOK, HandlersCounted, Closing
  <1>6. IdentitiesInOrder'
    <2>1. \A n \in 1..Len(Identities) : n > built' =>
            /\ at'[Identities[n]] \in Idle /\ Identities[n] \notin listening'
            /\ \A p \in Peers : serves'[p] # Identities[n]
      BY Unused
    <2>2. QED
      BY <2>1, IdentityFacts DEF IInv, Ordered, IdentitiesInOrder, Closing, PlacesOK, TypeOK
  <1>7. RowsReadLast'
    BY DEF IInv, Ordered, RowsReadLast, rows
  <1>8. QED
    BY <1>1, <1>2, <1>3, <1>4, <1>5, <1>6, <1>7 DEF IInv, Ordered

\* The identities are cancelled and the refresh loop is waited for.
LEMMA RuntimeCloseSteps ==
  ASSUME IInv, CancelIdentities \/ RefreshGone
  PROVE  IInv'
  <1> USE DEF CancelIdentities, RefreshGone, Waits, Closes, Run, Idle
  <1>1. TypeOK'
    BY DEF IInv, TypeOK, chans, rows, Places, Starts, Closing, PastResolvers, PastLoops, PastPool
  <1>2. PlacesOK'
    BY Roles DEF IInv, PlacesOK, States
  <1>3. PoolsInOrder'
    BY Roles DEF IInv, Ordered, PlacesOK, PoolsInOrder, Starts, Closing,
      PastResolvers, PastLoops, PastPool, chans
  <1>4. ChannelsEmptied'
    BY Roles DEF IInv, Ordered, TypeOK, PlacesOK, PoolsInOrder, ChannelsEmptied, Gone, chans, Starts, Closing, PastResolvers, PastLoops, PastPool
  <1>5. HandlersCounted'
    BY Roles DEF IInv, Ordered, PlacesOK, HandlersCounted, Closing
  <1>6. IdentitiesInOrder'
    BY Roles, IdentityFacts DEF IInv, Ordered, PlacesOK, IdentitiesInOrder, TypeOK, Closing
  <1>7. RowsReadLast'
    BY DEF IInv, Ordered, RowsReadLast, rows
  <1>8. QED
    BY <1>1, <1>2, <1>3, <1>4, <1>5, <1>6, <1>7 DEF IInv, Ordered

\* The newest identity stops listening.
LEMMA CloseListenerStep ==
  ASSUME IInv, CloseListener
  PROVE  IInv'
  <1> USE DEF CloseListener, Run, Idle
  <1>1. TypeOK'
    BY DEF IInv, TypeOK, chans, rows, Places, Starts, Closing, PastResolvers, PastLoops, PastPool
  <1>2. PlacesOK'
    BY Roles DEF IInv, PlacesOK, States
  <1>3. PoolsInOrder'
    BY Roles DEF IInv, Ordered, PlacesOK, PoolsInOrder, Starts, Closing,
      PastResolvers, PastLoops, PastPool, chans
  <1>4. ChannelsEmptied'
    BY Roles DEF IInv, Ordered, TypeOK, PlacesOK, PoolsInOrder, ChannelsEmptied, Gone, chans, Starts, Closing, PastResolvers, PastLoops, PastPool
  <1>5. HandlersCounted'
    BY Roles DEF IInv, Ordered, PlacesOK, HandlersCounted, Closing
  <1>6. IdentitiesInOrder'
    BY Roles, IdentityFacts DEF IInv, Ordered, PlacesOK, IdentitiesInOrder, TypeOK, Closing
  <1>7. RowsReadLast'
    BY DEF IInv, Ordered, RowsReadLast, rows
  <1>8. QED
    BY <1>1, <1>2, <1>3, <1>4, <1>5, <1>6, <1>7 DEF IInv, Ordered

\* The newest identity is closed.
LEMMA CloseIdentityStep ==
  ASSUME IInv, CloseIdentity
  PROVE  IInv'
  <1> USE DEF CloseIdentity, Drained, Run, Idle
  <1>1. TypeOK'
    <2>1. built > 0 /\ built \in 0..Len(Identities)
      BY DEF IInv, Ordered, TypeOK, IdentitiesInOrder
    <2>2. built' \in 0..Len(Identities)
      BY <2>1, IdentityFacts
    <2>3. QED
      BY <2>2 DEF IInv, TypeOK, chans, Places, Closing, PastResolvers
  <1>2. PlacesOK'
    BY Roles DEF IInv, PlacesOK, States
  <1>3. PoolsInOrder'
    BY Roles DEF IInv, Ordered, PlacesOK, PoolsInOrder, Starts, Closing,
      PastResolvers, PastLoops, PastPool, chans
  <1>4. ChannelsEmptied'
    BY Roles DEF IInv, Ordered, TypeOK, PlacesOK, PoolsInOrder, ChannelsEmptied, Gone, chans, Starts, Closing, PastResolvers, PastLoops, PastPool
  <1>5. HandlersCounted'
    BY Roles DEF IInv, Ordered, PlacesOK, HandlersCounted, Closing
  <1>6. IdentitiesInOrder'
    <2>1. \A n \in 1..Len(Identities) : n > built' => n > built \/ n = built
      BY IdentityFacts DEF IInv, TypeOK
    <2>2. \A n \in 1..Len(Identities) : n > built' =>
            /\ at'[Identities[n]] \in Idle /\ Identities[n] \notin listening'
            /\ \A p \in Peers : serves'[p] # Identities[n]
      BY <2>1, Unused DEF IInv, Ordered, IdentitiesInOrder
    <2>3. QED
      BY <2>2, IdentityFacts DEF IInv, Ordered, IdentitiesInOrder, Closing, PlacesOK, TypeOK
  <1>7. RowsReadLast'
    BY DEF IInv, Ordered, RowsReadLast, rows
  <1>8. QED
    BY <1>1, <1>2, <1>3, <1>4, <1>5, <1>6, <1>7 DEF IInv, Ordered

\* The rows are read.
LEMMA FinishStep ==
  ASSUME IInv, Finish
  PROVE  IInv'
  <1> USE DEF Finish, Run, Idle
  <1>1. TypeOK'
    BY DEF IInv, TypeOK, chans, rows, Places, Starts, Closing, PastResolvers, PastLoops, PastPool
  <1>2. PlacesOK'
    BY Roles DEF IInv, PlacesOK, States
  <1>3. PoolsInOrder'
    BY Roles DEF IInv, Ordered, PlacesOK, PoolsInOrder, Starts, Closing,
      PastResolvers, PastLoops, PastPool, chans
  <1>4. ChannelsEmptied'
    BY Roles DEF IInv, Ordered, TypeOK, PlacesOK, PoolsInOrder, ChannelsEmptied, Gone, chans, Starts, Closing, PastResolvers, PastLoops, PastPool
  <1>5. HandlersCounted'
    BY Roles DEF IInv, Ordered, PlacesOK, HandlersCounted, Closing
  <1>6. IdentitiesInOrder'
    BY Roles, IdentityFacts DEF IInv, Ordered, PlacesOK, IdentitiesInOrder, TypeOK, Closing
  <1>7. RowsReadLast'
    BY DEF IInv, Ordered, RowsReadLast, rows
  <1>8. QED
    BY <1>1, <1>2, <1>3, <1>4, <1>5, <1>6, <1>7 DEF IInv, Ordered

-----------------------------------------------------------------------------
(* The theorems *)

LEMMA InvNext == IInv /\ [Next]_vars => IInv'
  <1> SUFFICES ASSUME IInv, [Next]_vars PROVE IInv'
    OBVIOUS
  <1>1. CASE UNCHANGED vars
    BY <1>1 DEF vars, chans, rows, IInv, TypeOK, PlacesOK, Ordered, PoolsInOrder, ChannelsEmptied,
      HandlersCounted, IdentitiesInOrder, RowsReadLast, Gone
  <1>2. CASE Starting
    BY <1>2, BuildStep, BuildFailsStep, StartRefreshStep, StartProbesStep, StartPoolsStep DEF Starting
  <1>3. CASE Shutdown \/ CloseProbes
    BY <1>3, PoolsCloseSteps, ServerCloseSteps, RuntimeCloseSteps, CloseListenerStep,
      CloseIdentityStep, FinishStep DEF Shutdown
  <1>4. CASE Signal \/ LoseManifest \/ CloseNodes
    BY <1>4, SignalSteps
  <1>5. CASE \E r \in Readers : Sighting(r) \/ Reader(r)
    BY <1>5, ReaderSteps
  <1>6. CASE \E w \in Workers : Worker(w)
    BY <1>6, WorkerSteps
  <1>7. CASE \E l \in Loops : Tick(l) \/ Loop(l) \/ LoopExits(l)
    BY <1>7, LoopSteps
  <1>8. CASE \E p \in Probers : Prober(p)
    BY <1>8, ProberSteps
  <1>9. CASE \E h \in Requests : Dispatch(h) \/ Request(h)
    BY <1>9, RequestSteps
  <1>10. CASE RefreshNow \/ Refreshed \/ RefreshExits
    BY <1>10, RefreshSteps
  <1>11. CASE \E i \in Acceptors : Accept(i) \/ Acceptor(i) \/ AcceptorExits(i)
    BY <1>11, AcceptorSteps
  <1>12. CASE \E p \in Peers : Callback(p)
    BY <1>12, CallbackSteps
  <1>13. QED
    BY <1>1, <1>2, <1>3, <1>4, <1>5, <1>6, <1>7, <1>8, <1>9, <1>10, <1>11, <1>12 DEF Next

\* The order of start and shutdown (run and shutdown in main.go, Close of each
\* pool): who is gone, and what is closed and empty, at each place of run.
THEOREM ShutdownInOrder == Spec => []IInv
  BY InitInv, InvNext, PTL DEF Spec

\* Whoever still has something to write when shutdown begins, has written it
\* before the final publish reads the rows.
THEOREM NoWriteAfterFinalRead == Spec => []NoLateWrite
  <1>1. IInv => NoLateWrite
    BY DEF IInv, Ordered, RowsReadLast, NoLateWrite
  <1>2. QED
    BY <1>1, ShutdownInOrder, PTL

\* Resolve workers, fingerprint workers, probe handlers, the refresh loop and the
\* handlers of connections find the sockets of their identity open.
THEOREM SocketsOpenInUse == Spec => []IdentitiesOutliveUsers
  <1>1. IInv => IdentitiesOutliveUsers
    <2> SUFFICES ASSUME IInv PROVE IdentitiesOutliveUsers
      OBVIOUS
    <2>1. ASSUME NEW g \in Goroutines, at[g] \in {"resolving", "dialling", "refreshing"}
          PROVE  built = Len(Identities)
      <3>1. CASE g \in Workers
        BY <2>1, <3>1 DEF IInv, PlacesOK, Ordered, PoolsInOrder, IdentitiesInOrder, Idle, Starts,
          PastResolvers, Closing
      <3>2. CASE g \in Probers
        BY <2>1, <3>2 DEF IInv, PlacesOK, Ordered, PoolsInOrder, IdentitiesInOrder, Idle, Starts,
          PastResolvers, PastLoops, PastPool, Closing
      <3>3. CASE g \in Requests
        BY <2>1, <3>3 DEF IInv, PlacesOK, Ordered, HandlersCounted, IdentitiesInOrder, Closing
      <3>4. CASE g = Refresher
        BY <2>1, <3>4 DEF IInv, PlacesOK, Ordered, IdentitiesInOrder, Idle
      <3>5. CASE g \in Readers \cup Loops \cup Acceptors
        BY <2>1, <3>5 DEF IInv, PlacesOK, Idle
      <3>6. QED
        BY <3>1, <3>2, <3>3, <3>4, <3>5 DEF Goroutines
    <2>2. ASSUME NEW p \in Peers, serves[p] # Nobody
          PROVE  \E n \in 1..built : Identities[n] = serves[p]
      <3>1. PICK n \in 1..Len(Identities) : Identities[n] = serves[p]
        BY <2>2, IdentityFacts DEF IInv, TypeOK
      <3>2. built \in Nat /\ ~(n > built)
        BY <3>1, Unused, IdentityFacts DEF IInv, TypeOK
      <3>3. n \in 1..built
        BY <3>2, IdentityFacts
      <3>4. QED
        BY <3>1, <3>3
    <2>3. QED
      BY <2>1, <2>2 DEF IdentitiesOutliveUsers
  <1>2. QED
    BY <1>1, ShutdownInOrder, PTL

\* When run returns, after a shutdown or a failed start, no goroutine, queued probe,
\* listener or connection handler is left.
THEOREM RunLeavesNothing == Spec => []NothingLeft
  <1>1. IInv => NothingLeft
    <2> SUFFICES ASSUME IInv, main = "done" PROVE NothingLeft
      BY DEF NothingLeft
    <2>1. main \in Closing /\ main \in PastResolvers /\ main \in PastLoops /\ main \in PastPool
      BY DEF Closing, PastResolvers, PastLoops, PastPool
    <2>2. nodes = 0 /\ queue = 0
      BY <2>1 DEF IInv, Ordered, ChannelsEmptied
    <2>3. \A g \in Readers \cup Workers \cup Loops \cup Probers : at[g] \in Idle
      BY <2>1 DEF IInv, Ordered, PoolsInOrder
    <2>4. at[Refresher] \in Idle
      BY DEF IInv, Ordered, IdentitiesInOrder
    <2>5. \A n \in 1..Len(Identities) : n > built
      BY IdentityFacts DEF IInv, Ordered, RowsReadLast
    <2>6. \A i \in Acceptors : at[i] \in Idle /\ i \notin listening /\ \A p \in Peers : serves[p] # i
      BY <2>5, Unused, IdentityFacts
    <2>7. listening = {} /\ \A p \in Peers : serves[p] = Nobody
      BY <2>6 DEF IInv, TypeOK
    <2>8. \A h \in Requests : at[h] \in {"none", "idle", "dispatched"}
      BY <2>1 DEF IInv, Ordered, HandlersCounted
    <2>9. \A g \in Goroutines \ Requests : at[g] \in Idle
      BY <2>3, <2>4, <2>6 DEF Goroutines
    <2>10. QED
      BY <2>2, <2>7, <2>8, <2>9 DEF NothingLeft, Idle
  <1>2. QED
    BY <1>1, ShutdownInOrder, PTL
=============================================================================
