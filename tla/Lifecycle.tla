------------------------------ MODULE Lifecycle ------------------------------
(***************************************************************************)
(* How the crawler starts and stops (cmd/crawler: run, shutdown).          *)
(*                                                                         *)
(* Many goroutines write to the node set: resolve workers, periodic loops, *)
(* fingerprint workers, handlers of the probe server and handlers of       *)
(* connections that peers open.  shutdown has to see the last of them off  *)
(* before the final publish reads the rows, and nobody may be left using   *)
(* the sockets of an identity that is closed.                              *)
(*                                                                         *)
(* What a goroutine writes is the subject of Fingerprint; here a write is  *)
(* only early or late.  Queues are counts.                                 *)
(***************************************************************************)
EXTENDS Integers, Sequences, Functions

CONSTANTS
  Readers,     \* the goroutines that read discovery iterators
  Workers,     \* the resolve workers
  Loops,       \* the periodic loops: retry, and the seeds of a devnet
  Probers,     \* the fingerprint workers
  Requests,    \* requests the probe server can have at a time
  Peers,       \* serves connections the semaphore has room for
  Refresher,   \* the goroutine of startRefresh
  Identities,  \* the identities, in the order they are built; also their accept loops
  Consensus,   \* the consensus identities, which listen with libp2p
  NodesCap,    \* the capacity of resolverPool.nodes
  QueueCap     \* the capacity of a fingerprint queue

Acceptors == Range(Identities)
Goroutines ==
  Readers \cup Workers \cup Loops \cup Probers \cup Requests \cup Acceptors \cup {Refresher}

Nobody == "nobody"

\* Every goroutine has one role; the flags ask for at least one worker of each kind.
ASSUME LifecycleAssumption ==
  /\ NodesCap \in Nat /\ QueueCap \in Nat
  /\ Consensus \subseteq Acceptors
  /\ Workers # {} /\ Probers # {}
  /\ Identities \in Seq(Acceptors) /\ IsInjective(Identities)
  /\ Readers \cap (Workers \cup Loops \cup Probers \cup Requests \cup Acceptors) = {}
  /\ Workers \cap (Loops \cup Probers \cup Requests \cup Acceptors) = {}
  /\ Loops \cap (Probers \cup Requests \cup Acceptors) = {}
  /\ Probers \cap (Requests \cup Acceptors) = {} /\ Requests \cap Acceptors = {}
  /\ Refresher \notin Readers \cup Workers \cup Loops \cup Probers \cup Requests \cup Acceptors
  /\ Nobody \notin Acceptors

VARIABLES
  main,       \* where run is
  failed,     \* run returns an error: the start, or a lost manifest
  closed,     \* what has been closed or cancelled
  at,         \* where each goroutine is
  nodes,      \* in resolverPool.nodes
  queue,      \* in a channel of fingerprintPool
  built,      \* how many identities have open discovery sockets
  listening,  \* the identities that take serves connections
  serves,     \* per connection handler: its identity, if it has one
  snapped,    \* the final publish has read the rows
  late        \* a row was written after that

chans == <<nodes, queue>>
rows == <<snapped, late>>
vars == <<main, failed, closed, at, chans, built, listening, serves, rows>>

Init ==
  /\ main = "building" /\ failed = FALSE /\ closed = {}
  /\ at = [g \in Goroutines |-> "none"]
  /\ nodes = 0 /\ queue = 0
  /\ built = 0 /\ listening = {}
  /\ serves = [p \in Peers |-> Nobody]
  /\ snapped = FALSE /\ late = FALSE

\* A goroutine writes a row.
Write == late' = (late \/ snapped) /\ UNCHANGED snapped

\* The contexts: of signals, of the loops and of the identities.
Cancelled(c) == "signal" \in closed \/ c \in closed

-----------------------------------------------------------------------------
(* run: the start *)

\* run goes on.
Run(from, to) == main = from /\ main' = to /\ UNCHANGED <<chans, serves, late>>

\* run closes or cancels something, and starts waiting.
Closes(from, to, what) ==
  /\ Run(from, to)
  /\ closed' = closed \cup {what}
  /\ UNCHANGED <<failed, at, built, listening, snapped>>

\* run's wait is over.
Waits(from, to) == Run(from, to) /\ UNCHANGED <<failed, closed, at, built, listening, snapped>>

\* identityRuntime.start builds an identity: discovery, then its serves side.
Build ==
  /\ Run("building", "building") /\ built + 1 \in DOMAIN Identities
  /\ built' = built + 1
  /\ listening' = listening \cup {Identities[built']}
  /\ at' = [at EXCEPT ![Identities[built']] = "accepting"]
  /\ UNCHANGED <<failed, closed, snapped>>

\* ... fails, before or after its discovery is tracked, and rolls back.
BuildFails ==
  /\ Run("building", "rtCancel") /\ built + 1 \in DOMAIN Identities
  /\ built' \in {built, built + 1} /\ failed' = TRUE
  /\ UNCHANGED <<closed, at, listening, snapped>>

StartRefresh ==
  /\ Run("building", "probes") /\ built + 1 \notin DOMAIN Identities
  /\ at' = [at EXCEPT ![Refresher] = "waiting"]
  /\ UNCHANGED <<failed, closed, built, listening, snapped>>

\* probesrv.Start; on an error run returns, and the deferred rt.Close runs.
StartProbes ==
  /\ \/ /\ Run("probes", "pools")
        /\ at' = [g \in Goroutines |-> IF g \in Requests THEN "idle" ELSE at[g]]
        /\ UNCHANGED failed
     \/ Run("probes", "rtCancel") /\ failed' = TRUE /\ UNCHANGED at
  /\ UNCHANGED <<closed, built, listening, snapped>>

\* resolverPool.Start, startEL, startCL and the loops.
StartPools ==
  /\ Run("pools", "running")
  /\ at' = [g \in Goroutines |-> CASE g \in Readers -> "next"
                                   [] g \in Workers \cup Probers -> "idle"
                                   [] g \in Loops -> "waiting"
                                   [] OTHER -> at[g]]
  /\ UNCHANGED <<failed, closed, built, listening, snapped>>

Signal ==
  /\ "signal" \notin closed /\ closed' = closed \cup {"signal"}
  /\ UNCHANGED <<main, failed, at, chans, built, listening, serves, rows>>

\* A periodic publish finds that another writer has the manifest: run stops.
LoseManifest ==
  /\ Run("running", "running")
  /\ failed' = TRUE /\ closed' = closed \cup {"signal"}
  /\ UNCHANGED <<at, built, listening, snapped>>

-----------------------------------------------------------------------------
(* shutdown *)

Gone(G) == \A g \in G : at[g] = "gone"

\* resolverPool.Close closes the iterators ...
CloseIterators == Cancelled("signal") /\ Closes("running", "resolvers", "iters")

\* ... and waits for the readers and then for the workers.  backgroundLoops.Close
\* cancels the loops ...
CloseLoops == Gone(Readers \cup Workers) /\ Closes("resolvers", "loops", "loops")

\* ... and waits for them.  fingerprintPool.Close closes the queues ...
ClosePool == Gone(Loops) /\ Closes("loops", "pool", "pool")

\* Mutant: closing is set without the lock.
CloseProbesUnlocked == Gone(Probers) /\ Closes("pool", "server", "probes")

\* ... and waits for the workers.  Server.Shutdown sets closing when no handler
\* is in enter, with the lock.
CloseProbes ==
  /\ Gone(Probers) /\ \A h \in Requests : at[h] # "entering"
  /\ Closes("pool", "server", "probes")

\* http.Server.Shutdown takes no more requests, and returns when all are answered
\* or on its deadline when some are not.
StopServer == Closes("server", "active", "server")

\* Mutant: the advertisers are closed after the final publish.
PublishFirst ==
  /\ \A h \in Requests : at[h] \notin {"active", "dialling"}
  /\ Run("active", "rtCancel") /\ snapped' = ~failed
  /\ UNCHANGED <<failed, closed, at, built, listening>>

\* active.Wait: the handlers between enter and their return.
ProbesDrained ==
  /\ \A h \in Requests : at[h] \notin {"active", "dialling"}
  /\ Waits("active", "rtCancel")

\* Mutant: identityRuntime relies on the context of signals.
CancelNothing == Waits("rtCancel", "rtRefresh")

\* identityRuntime.Close
CancelIdentities == Closes("rtCancel", "rtRefresh", "rt")

\* refresh.Wait
RefreshGone == at[Refresher] \in {"none", "gone"} /\ Waits("rtRefresh", "rtClose")

\* Newest first: InboundListener.Close closes the listener, CLFingerprinter.Close
\* the subscription, ...
CloseListener ==
  /\ Run("rtClose", "rtDrain") /\ built > 0
  /\ listening' = listening \ {Identities[built]}
  /\ UNCHANGED <<failed, closed, at, built, snapped>>

\* Mutant: the handlers are waited for, not the loop that starts them.
HandlersGone(i) == \A p \in Peers : serves[p] # i

\* ... waits for the accept loop and then for the handlers it started, ...
Drained(i) == at[i] \in {"none", "gone"} /\ \A p \in Peers : serves[p] # i

\* ... and then the host and the discovery sockets are closed.
CloseIdentity ==
  /\ Run("rtDrain", "rtClose") /\ Drained(Identities[built])
  /\ built' = built - 1
  /\ UNCHANGED <<failed, closed, at, listening, snapped>>

\* The final publish, unless run fails.
Finish ==
  /\ Run("rtClose", "done") /\ built = 0
  /\ snapped' = ~failed
  /\ UNCHANGED <<failed, closed, at, built, listening>>

Starting == Build \/ BuildFails \/ StartRefresh \/ StartProbes \/ StartPools

Shutdown ==
  \/ CloseIterators \/ CloseLoops \/ ClosePool \/ StopServer \/ ProbesDrained
  \/ CancelIdentities \/ RefreshGone \/ CloseListener \/ CloseIdentity \/ Finish

-----------------------------------------------------------------------------
(* The goroutines *)

\* Goroutine g goes on; run, and what is open, stay.
Go(g, from, to) ==
  /\ at[g] = from /\ at' = [at EXCEPT ![g] = to]
  /\ UNCHANGED <<main, failed, closed, built>>

\* ... without a word to anybody.
Quietly(g, from, to) == Go(g, from, to) /\ UNCHANGED <<chans, listening, serves, rows>>

\* ... writing rows.
Writes(g, from, to) == Go(g, from, to) /\ Write /\ UNCHANGED <<chans, listening, serves>>

\* resolverPool.read
Sighting(r) == "iters" \notin closed /\ Quietly(r, "next", "sending")

Send(r) ==
  /\ nodes < NodesCap /\ nodes' = nodes + 1
  /\ Go(r, "sending", "next")
  /\ UNCHANGED <<queue, listening, serves, rows>>

\* Next is false once the iterator is closed; limiter and send give up.
ReaderExits(r) ==
  \/ "iters" \in closed /\ Quietly(r, "next", "gone")
  \/ Cancelled("signal") /\ Quietly(r, "sending", "gone")

\* The goroutine that closes nodes behind the readers.
CloseNodes ==
  /\ "nodes" \notin closed /\ Gone(Readers)
  /\ closed' = closed \cup {"nodes"}
  /\ UNCHANGED <<main, failed, at, chans, built, listening, serves, rows>>

Take(w) ==
  /\ nodes > 0 /\ nodes' = nodes - 1
  /\ Go(w, "idle", "resolving")
  /\ UNCHANGED <<queue, listening, serves, rows>>

\* resolve observes the node, and may go on to enqueue a probe.
Resolve(w) == Writes(w, "resolving", "idle") \/ Writes(w, "resolving", "enqueuing")

WorkerExits(w) == nodes = 0 /\ "nodes" \in closed /\ Quietly(w, "idle", "gone")

\* enqueueEL, enqueueCL: with the lock, while the pool is open and has room;
\* otherwise the claim is given back.
Enqueue(g, to) ==
  /\ Go(g, "enqueuing", to)
  /\ IF "pool" \notin closed /\ queue < QueueCap
       THEN queue' = queue + 1 /\ UNCHANGED rows
       ELSE Write /\ UNCHANGED queue
  /\ UNCHANGED <<nodes, listening, serves>>

\* backgroundLoops.every: select may take a tick that is ready after the end.
Tick(l) == Quietly(l, "waiting", "ticking")
TickWrites(l) == Writes(l, "ticking", "waiting") \/ Writes(l, "ticking", "enqueuing")
LoopExits(l) == Cancelled("loops") /\ Quietly(l, "waiting", "gone")

\* startEL, startCL: with a cancelled context nothing is dialled and the claim
\* is given back.
Probe(p) ==
  /\ queue > 0 /\ queue' = queue - 1
  /\ IF Cancelled("signal") THEN Go(p, "idle", "idle") /\ Write
                            ELSE Go(p, "idle", "dialling") /\ UNCHANGED rows
  /\ UNCHANGED <<nodes, listening, serves>>
FinishProbe(p) == Writes(p, "dialling", "idle")
ProberExits(p) == queue = 0 /\ "pool" \in closed /\ Quietly(p, "idle", "gone")

\* The probe server: a request is dispatched; enter takes the lock and finds
\* closing unset, or the request is refused; active.Add, and the lock is free.
Dispatch(h) == "server" \notin closed /\ Quietly(h, "idle", "dispatched")
Enter(h) == "probes" \notin closed /\ Quietly(h, "dispatched", "entering")
Refuse(h) == "probes" \in closed /\ Quietly(h, "dispatched", "idle")
Entered(h) == Quietly(h, "entering", "active")

\* handle observes the record and claims it, dials, and completes the claim.
Observe(h) == Writes(h, "active", "dialling")
Complete(h) == Writes(h, "dialling", "idle")

\* startRefresh: the timer and the context are selected like ticks.
RefreshNow == Quietly(Refresher, "waiting", "refreshing")
Refreshed == Quietly(Refresher, "refreshing", "waiting")
RefreshExits == Cancelled("rt") /\ Quietly(Refresher, "waiting", "gone")

\* The goroutine of ListenInbound that closes the listener with the context.
CloseWithContext(i) ==
  /\ i \in listening \ Consensus /\ Cancelled("rt")
  /\ listening' = listening \ {i}
  /\ UNCHANGED <<main, failed, closed, at, chans, built, serves, rows>>

\* A connection, or an event of the subscription: one that is closed still
\* delivers what it has buffered.
Accept(i) ==
  /\ i \in listening \cup Consensus
  /\ Quietly(i, "accepting", "accepted")

Free == {p \in Peers : serves[p] = Nobody}

\* A handler is started if the semaphore has room.
Handle(i) ==
  /\ Go(i, "accepted", "accepting")
  /\ \/ Free = {} /\ UNCHANGED serves
     \/ \E p \in Free : serves' = [serves EXCEPT ![p] = i]
  /\ UNCHANGED <<chans, listening, rows>>

AcceptorExits(i) == i \notin listening /\ Quietly(i, "accepting", "gone")

\* The callback of the crawler, and the handler is done.
Callback(p) ==
  /\ serves[p] # Nobody /\ serves' = [serves EXCEPT ![p] = Nobody]
  /\ Write
  /\ UNCHANGED <<main, failed, closed, at, chans, built, listening>>

-----------------------------------------------------------------------------

\* What each goroutine does in finite time once it can.
Reader(r) == Send(r) \/ ReaderExits(r)
Worker(w) == Take(w) \/ Resolve(w) \/ Enqueue(w, "idle") \/ WorkerExits(w)
Loop(l) == TickWrites(l) \/ Enqueue(l, "waiting")
Prober(p) == Probe(p) \/ FinishProbe(p) \/ ProberExits(p)
Request(h) == Enter(h) \/ Refuse(h) \/ Entered(h) \/ Observe(h) \/ Complete(h)
Acceptor(i) == CloseWithContext(i) \/ Handle(i)

Next ==
  \/ Starting \/ Signal \/ LoseManifest \/ Shutdown \/ CloseProbes
  \/ \E r \in Readers : Sighting(r) \/ Reader(r)
  \/ CloseNodes
  \/ \E w \in Workers : Worker(w)
  \/ \E l \in Loops : Tick(l) \/ Loop(l) \/ LoopExits(l)
  \/ \E p \in Probers : Prober(p)
  \/ \E h \in Requests : Dispatch(h) \/ Request(h)
  \/ RefreshNow \/ Refreshed \/ RefreshExits
  \/ \E i \in Acceptors : Accept(i) \/ Acceptor(i) \/ AcceptorExits(i)
  \/ \E p \in Peers : Callback(p)

\* Goroutines run, and dials, handshakes and publishes have deadlines.  A select
\* between a timer and a context chooses at random, so that it does not prefer
\* the timer for ever; a writer that waits for the lock holds off new readers;
\* what a closed subscription has buffered comes to an end.
Fairness ==
  /\ WF_vars(Starting) /\ WF_vars(Shutdown) /\ SF_vars(CloseProbes)
  /\ \A r \in Readers : WF_vars(Reader(r))
  /\ WF_vars(CloseNodes)
  /\ \A w \in Workers : WF_vars(Worker(w))
  /\ \A l \in Loops : WF_vars(Loop(l)) /\ SF_vars(LoopExits(l))
  /\ \A p \in Probers : WF_vars(Prober(p))
  /\ \A h \in Requests : WF_vars(Request(h))
  /\ WF_vars(Refreshed) /\ SF_vars(RefreshExits)
  /\ \A i \in Acceptors : WF_vars(Acceptor(i)) /\ SF_vars(AcceptorExits(i))
  /\ \A p \in Peers : WF_vars(Callback(p))

Spec == Init /\ [][Next]_vars
LiveSpec == Spec /\ Fairness

-----------------------------------------------------------------------------
(* Properties *)

\* "quiesces every producer before the final publish": no row is written once
\* the final publish has read the rows, whoever was still at work when shutdown
\* began, a request that the deadline of the HTTP server cut off included.
NoLateWrite == ~late

\* Whoever uses discovery sockets or a libp2p host finds them open: identities
\* are closed after the resolvers, the fingerprint workers, the handlers of the
\* probe server and the refresh loop have ended, and each one after its own
\* serves handlers.
IdentitiesOutliveUsers ==
  /\ (\E g \in Goroutines : at[g] \in {"resolving", "dialling", "refreshing"}) =>
       built = Len(Identities)
  /\ \A p \in Peers : serves[p] # Nobody =>
       \E n \in 1..built : Identities[n] = serves[p]

\* When run returns, nothing it started is left: no goroutine, no queued probe
\* whose claim nobody will give back, no listener.  After a failed start as well,
\* where the context of signals is live.
NothingLeft ==
  main = "done" =>
    /\ \A g \in Goroutines \ Requests : at[g] \in {"none", "gone"}
    /\ \A h \in Requests : at[h] \in {"none", "idle", "dispatched"}
    /\ nodes = 0 /\ queue = 0 /\ listening = {} /\ \A p \in Peers : serves[p] = Nobody

\* A crawler that is told to stop, or fails to start, stops: no wait of shutdown
\* is for somebody who waits for it.
Stops == (main = "running" /\ "signal" \in closed) \/ main = "rtCancel" ~> main = "done"
==============================================================================
