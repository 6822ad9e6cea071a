--------------------------- MODULE ReadinessHistory ---------------------------
(***************************************************************************)
(* The crawler's record of fork readiness (cmd/crawler/readiness.go,       *)
(* internal/snapshot/readiness.go) and what the API reads of it.           *)
(*                                                                         *)
(* After a commit the crawler appends to the object of the tracked fork    *)
(* one point, unless the last one is recent.  Between two points the       *)
(* process may be restarted, also with a release or an operator's file     *)
(* that changes the schedule, the clock may be set back, and the store may *)
(* fail.  What is counted in a point is left to ReadinessAt; here a point  *)
(* is the time it was taken at and the schedule it was measured against.   *)
(***************************************************************************)
EXTENDS ForkSchedule, TLC

CONSTANTS
  Rollouts,       \* sequences of releases: compiled schedules and cancellation lists
  Interval,       \* ReadinessInterval
  DenseInterval,  \* ReadinessDenseInterval
  DenseWindow,    \* ReadinessDenseWindow
  Retention,      \* ReadinessRetention
  MaxPoints,      \* maxHistoryPoints
  MaxTime,        \* bound: the last instant
  MaxFaults       \* bound: restarts, clock changes and store errors

ASSUME HistoryAssumption ==
  /\ Interval \in Nat /\ DenseInterval \in 1..Interval
  /\ Retention \in Nat /\ Retention >= Interval /\ MaxPoints \in Nat \ {0}
  /\ MaxTime \in Nat /\ Far \in Nat /\ MaxTime < Far
  /\ \A r \in Rollouts : r # <<>> /\ r \in Seq(Range(r))
  /\ \A r \in Rollouts : \A i \in DOMAIN r :
       /\ r[i].list \in Seq(Range(r[i].list))
       /\ \A j \in DOMAIN r[i].list : Cancellable(r[i].compiled, r[i].list[j])

\* A network is well formed when it is loaded, whatever was cancelled, and its times
\* are numbers.
ASSUME LoadAssumption ==
  \A r \in Rollouts : \A i \in DOMAIN r : \A n \in {Load(r[i].compiled, r[i].list)} :
    WellFormed(n.cl) /\ n.times \cup CancelledInstants(n) \subseteq Nat

VARIABLES
  net,     \* the network, loaded
  next,    \* the releases to come
  clock,   \* the wall clock of the crawler
  seen,    \* publisher.readinessAt, in memory
  store,   \* the history objects, by the name of the fork
  faults

vars == <<net, next, clock, seen, store, faults>>

Never == -1

Init ==
  \E r \in Rollouts :
    /\ net = Load(r[1].compiled, r[1].list) /\ next = Tail(r)
    /\ clock = 0 /\ seen = Never /\ store = <<>> /\ faults = 0

Fault == faults < MaxFaults /\ faults' = faults + 1

-----------------------------------------------------------------------------
(* The environment *)

Tick ==
  /\ clock < MaxTime /\ clock' = clock + 1
  /\ UNCHANGED <<net, next, seen, store, faults>>

StepBack ==
  /\ Fault /\ clock > 1 /\ clock' = clock - 2
  /\ UNCHANGED <<net, next, seen, store>>

\* The process is restarted: memory is lost.
Restart ==
  /\ Fault /\ seen # Never /\ seen' = Never
  /\ UNCHANGED <<net, next, clock, store>>

\* ... with the next release or another list of cancelled forks.
Upgrade ==
  /\ next # <<>> /\ next' = Tail(next)
  /\ net' = Load(Head(next).compiled, Head(next).list)
  /\ seen' = Never
  /\ UNCHANGED <<clock, store, faults>>

-----------------------------------------------------------------------------
(* recordReadiness *)

\* ReadinessIntervalAt
IntervalAt(at, activation) ==
  IF activation # 0 /\ at - activation \in -DenseWindow..DenseWindow THEN DenseInterval ELSE Interval

\* The operators below are of the target t of now.
Target == ForkTargetAt(net, clock)

Due(t) ==
  /\ Phase(t) # "none"
  /\ seen # Never => clock - seen >= IntervalAt(clock, Activation(t))

Fresh(t) == [schedule |-> Schedule(t), points |-> <<>>]

\* Mutant: a rescheduled fork goes on with the old points.
StoredMixed(t) ==
  IF Name(t) \in DOMAIN store THEN [store[Name(t)] EXCEPT !.schedule = Schedule(t)] ELSE Fresh(t)

\* The object is read back every time; another schedule is another series.
Stored(t) ==
  IF Name(t) \in DOMAIN store /\ store[Name(t)].schedule = Schedule(t) THEN store[Name(t)] ELSE Fresh(t)

\* Append refuses.
TooSoon(t, points) ==
  points # <<>> /\ clock - Last(points).at < IntervalAt(clock, Activation(t))

\* Append, and the leading points that are older than the retention go.
Retained(points, cutoff) ==
  SubSeq(points, Min({i \in DOMAIN points : points[i].at >= cutoff}), Len(points))

Appended(t, h) ==
  [schedule |-> h.schedule,
   points |-> Retained(Append(h.points, [at |-> clock, of |-> Schedule(t)]), clock - Retention)]

Put(t, h) ==
  store' = [key \in DOMAIN store \cup {Name(t)} |-> IF key = Name(t) THEN Appended(t, h) ELSE store[key]]

\* Mutant: an object that cannot be read is taken for one that is not there.
StoreFailsEmpty(t) ==
  /\ Due(t) /\ Fault
  /\ seen' = clock /\ Put(t, Fresh(t))
  /\ UNCHANGED <<net, next, clock>>

\* The object cannot be read, or is not one that this release can decode, or
\* cannot be written.
StoreFails(t) ==
  /\ Due(t) /\ Fault
  /\ seen' = clock
  /\ UNCHANGED <<net, next, clock, store>>

\* The stored cadence is kept when a restart asks before the next point is due.
RecordEarly(t) ==
  /\ Due(t) /\ TooSoon(t, Stored(t).points)
  /\ seen' = Min({clock, Last(Stored(t).points).at})
  /\ UNCHANGED <<net, next, clock, store, faults>>

Record(t) ==
  /\ Due(t) /\ ~TooSoon(t, Stored(t).points)
  /\ seen' = clock /\ Put(t, Stored(t))
  /\ UNCHANGED <<net, next, clock, faults>>

Next ==
  \/ Tick \/ StepBack \/ Restart \/ Upgrade
  \/ StoreFails(Target) \/ RecordEarly(Target) \/ Record(Target)

Spec == Init /\ [][Next]_vars

-----------------------------------------------------------------------------
(* What the API and the crawler make of it *)

DenseAt(at, activation) == IntervalAt(at, activation) = DenseInterval

\* thinHistory: the points outside the dense window, ...
Regular(points, activation) == {i \in DOMAIN points : ~DenseAt(points[i].at, activation)}

\* ... of which every step-th is kept, and the last one; a point of the dense window
\* is kept always.
KeptPlaces(points, regular, step) ==
  {i \in DOMAIN points :
     \/ i \notin regular \/ i = Len(points)
     \/ Cardinality({j \in regular : j < i}) % step = 0}

InOrder(S) == [k \in 1..Cardinality(S) |-> CHOOSE i \in S : Cardinality({j \in S : j < i}) = k - 1]

ThinHistory(points, activation) ==
  LET regular == Regular(points, activation)
      step == (Cardinality(regular) + MaxPoints - 1) \div MaxPoints
      order == InOrder(KeptPlaces(points, regular, step))
  IN  IF Cardinality(regular) <= MaxPoints THEN points
                                           ELSE [k \in DOMAIN order |-> points[order[k]]]

\* ReadinessHistoryFor: the points of the tracked fork, and none if they were
\* measured against another schedule.
HistoryFor(t) ==
  IF Name(t) \in DOMAIN store /\ store[Name(t)].schedule = Schedule(t)
    THEN ThinHistory(store[Name(t)].points, Activation(t)) ELSE <<>>

\* Mutant: a row is counted as it is judged.
PointReadinessAsIs(t, readiness) == readiness

\* readinessPointAt: a point counts as ready the rows that schedule the fork.
PointReadiness(t, readiness) ==
  IF t.phase # "cancelled" THEN readiness
  ELSE CASE readiness = "ready" -> "not_ready"
         [] readiness = "not_ready" -> "ready"
         [] OTHER -> readiness

-----------------------------------------------------------------------------
(* The evidence that nodes give.  A node runs some schedule and was last seen   *)
(* at s; what it advertises follows from both.                                  *)

ELNode(times, s) ==
  [layer |-> "el", hash |-> ForkId(times, s).hash, next |-> ForkId(times, s).next,
   digest |-> NoDigest, version |-> NoVersion, epoch |-> 0]

CLNode(c, s) ==
  [layer |-> "cl", hash |-> StateAt(c, s).digest, next |-> 0, digest |-> StateAt(c, s).digest,
   version |-> StateAt(c, s).version, epoch |-> StateAt(c, s).next]

\* The schedule of a release that does not know the forks from t on.
OlderCL(c, t) ==
  [c EXCEPT !.forks = SelectSeq(@, LAMBDA f : f.epoch < t), !.blobs = SelectSeq(@, LAMBDA b : b.epoch < t),
            !.fulu = IF @ < t THEN @ ELSE Far]

Instants == 0..MaxTime
CLInstants(n) == {x.epoch : x \in Transitions(n.cl)}

\* The last instant of T before t, and the first one from t on.
Before(T, t) == Max({0} \cup {u \in T : u < t})
From(T, t) == Min({Far} \cup {u \in T : u >= t})

\* Hashes and next forks that rows have, and any ENR schedule with them.
ELRows(n) ==
  {[layer |-> "el", hash |-> h, next |-> x, digest |-> NoDigest, version |-> NoVersion, epoch |-> 0] :
     h \in {NoHash} \cup n.onEL \cup {ForkId(n.times, t).hash : t \in Instants},
     x \in {0, BlockHint} \cup n.times \cup {c.time : c \in n.elOff}}

CLRows(n, t) ==
  {[layer |-> "cl", hash |-> h, next |-> 0, digest |-> d, version |-> v, epoch |-> e] :
     h \in {NoDigest} \cup n.known, d \in {NoDigest} \cup n.known,
     v \in {NoVersion, t.version}, e \in {0, t.time, Far}}

\* The columns that a row may have as NULL.
AbsentColumns(ev) ==
  (IF ev.hash = (IF ev.layer = "el" THEN NoHash ELSE NoDigest) THEN {"hash"} ELSE {}) \cup
  (IF ev.digest = NoDigest THEN {"digest"} ELSE {})

\* The rules below are of net alone, so they are looked at when it is loaded.
Loaded == clock = 0 /\ seen = Never /\ store = <<>>

-----------------------------------------------------------------------------
(* Properties *)

\* readinessConditionAt "is the SQL mirror of netconf.ReadinessAt": whatever the
\* schedule, the instant and the row, and whichever of the columns it lacks are NULL,
\* the clause for a readiness selects the row exactly if ReadinessAt gives it that
\* one.
SqlMirrorsGo ==
  Loaded =>
    \A at \in Instants : \A t \in {ForkTargetAt(net, at)} :
      \A ev \in ELRows(net) \cup CLRows(net, t.cl) :
        LET readiness == ReadinessAt(net, t[ev.layer], ev, at)
        IN  \A nulls \in SUBSET AbsentColumns(ev),
               want \in {"ready", "pending", "not_ready", "mismatch", "unknown", "stale"} :
              ReadinessConditionAt(net, t[ev.layer], want, ev, nulls, at) <=> want = readiness

\* What is current changes only at a boundary, of the network and of the layer.
BoundaryBetween(from, to) ==
  \A ev \in ELRows(net) \cup {CLNode(net.cl, s) : s \in Instants} :
    RowForkCurrentAt(net, ev.layer, ev.hash, ev.next, from) #
      RowForkCurrentAt(net, ev.layer, ev.hash, ev.next, to) =>
        Era(net, from) # Era(net, to) /\ ForkActivatedBetween(net, ev.layer, from, to)

\* A fork t that is tracked is still tracked, as u.
StillTracked(t, u) == Phase(u) = Phase(t) /\ Name(u) = Name(t) /\ Schedule(u) = Schedule(t)

\* Nothing changes within an era.  A row that becomes current or stops being it
\* between two instants has an era boundary between them, which the publisher's
\* shrink guard and the caches go by, and one of its own layer, which the DNS
\* publisher's guard goes by; the era holds up to the next transition that is
\* announced, and a tracked activated fork up to the end of the lifetime that
\* /api/v1/forks gives its answer.
EraExplains ==
  Loaded =>
    \A from \in Instants : \A t \in {ForkTargetAt(net, from)}, n \in {NextTransition(net, from)} :
      \A to \in (from + 1)..MaxTime :
        /\ BoundaryBetween(from, to)
        /\ to < n <=> \A u \in from..to : Era(net, u) = Era(net, from)
        /\ Phase(t) = "activated" /\ to < ForksUntil(t, n) => StillTracked(t, ForkTargetAt(net, to))

\* The verdicts on execution nodes when t is tracked.
ELVerdicts(t, at, before) ==
  LET Verdict(times, s) == ReadinessAt(net, t, ELNode(times, s), at)
      older == {u \in net.times : u < t.time}
      shadow == net.times \cup {t.time}
  IN  /\ Verdict(net.times, at) = "ready"
      /\ t.phase = "scheduled" => Verdict(older, at) = "not_ready"
      /\ t.phase = "activated" =>
           /\ \A s \in before..(t.time - 1) : Verdict(net.times, s) = "pending"
           /\ \A s \in before..at : Verdict(older, s) = "not_ready"
      /\ t.phase = "cancelled" /\ t.time \notin net.times => \A s \in before..at :
           Verdict(shadow, s) = "not_ready" /\ Classified(net, "el", ForkId(shadow, s).hash)

\* The verdicts on consensus nodes.  The one that runs the cancelled fork is
\* followed up to the next fork of the schedule; of two cancelled forks at one
\* instant only the tracked one is looked for in an ENR.
CLVerdicts(t, at, before, after) ==
  LET Verdict(c, s) == ReadinessAt(net, t, CLNode(c, s), at)
      older == OlderCL(net.cl, t.time)
  IN  /\ Verdict(net.cl, at) = "ready"
      /\ t.phase = "scheduled" => Verdict(older, at) = "not_ready"
      /\ t.phase = "activated" =>
           /\ \A s \in before..(t.time - 1) : Verdict(net.cl, s) = "pending"
           /\ \A s \in before..at : Verdict(older, s) = "not_ready"
      /\ t.phase = "cancelled" /\ after # t.time =>
           \A c \in net.clOff : CancelledTarget(c) = t => \A s \in before..at :
             /\ Verdict(c.shadow, s) = "ready" => DigestAt(c.shadow, s) = DigestAt(net.cl, s)
             /\ s < after => /\ Verdict(c.shadow, s) = "not_ready"
                             /\ Classified(net, "cl", DigestAt(c.shadow, s))

\* Of the execution nodes, by the fork that is tracked on their layer.
ELVerdictSound ==
  \A at \in Instants : \A t \in {LayerForkTargetsAt(net, at).el} :
    t.phase # "none" => ELVerdicts(t, at, Before(net.times, t.time))

\* Of the consensus nodes.
CLVerdictSound ==
  \A at \in Instants : \A t \in {LayerForkTargetsAt(net, at).cl}, cls \in {CLInstants(net)} :
    t.phase # "none" => CLVerdicts(t, at, Before(cls, t.time), From(cls, t.time))

\* Nodes get the verdict they deserve.  One that follows the canonical schedule
\* is ready.  One that does not know a scheduled fork is not; after activation it
\* is left behind, and one that knew it and has not been seen since is pending.
\* One that still runs a cancelled fork is not ready as long as the fork is
\* tracked, before and after its instant, and stays in the network.
VerdictSound == Loaded => ELVerdictSound /\ CLVerdictSound

\* The series of t goes on as u, a release later: its nodes are counted alike.
Continues(later, t, u, at) ==
  LET Same(layer, ev) ==
        PointReadiness(u[layer], ReadinessAt(later, u[layer], ev, at)) =
          PointReadiness(t[layer], ReadinessAt(net, t[layer], ev, at))
  IN  /\ Name(u) = Name(t)
      /\ u.el.phase = "cancelled" => Same("el", ELNode(net.times, at))
      /\ u.cl.phase = "cancelled" => Same("cl", CLNode(net.cl, at))

Off(u) == \A layer \in {"el", "cl"} : u[layer].phase \in {"none", "cancelled"}

\* No other fork of the layer is called off at the instant of u: of two, the one that
\* is tracked may not be the one that named the schedule.
NoTie(n, u) ==
  /\ \A c, d \in n.elOff : c.time = u.el.time /\ d.time = u.el.time => c = d
  /\ \A c, d \in n.clOff : c.time = u.cl.time /\ d.time = u.cl.time => c = d

\* A scheduled fork is tracked under the same key when it has activated.
AcrossActivation ==
  \A at \in Instants : \A t \in {ForkTargetAt(net, at)}, u \in {ForkTargetAt(net, at + 1)} :
    Phase(t) = "scheduled" /\ Phase(u) = "activated" => Name(u) = Name(t) /\ Schedule(u) = Schedule(t)

\* A fork that the next release has called off, on the same schedule, goes on.
AcrossCancellation ==
  \A later \in (IF next = <<>> THEN {} ELSE {Load(Head(next).compiled, Head(next).list)}) \cup {net},
     at \in Instants : \A t \in {ForkTargetAt(net, at)}, u \in {ForkTargetAt(later, at)} :
    Phase(t) = "scheduled" /\ Off(u) /\ NoTie(later, u) /\ Schedule(u) = Schedule(t) => Continues(later, t, u, at)

\* "the series recorded while it was scheduled continues across a cancellation",
\* and across the activation: the fork keeps the name that is the key of its
\* history and the schedule that is checked against it, and a node that schedules
\* it is counted the same before and after.
SeriesContinues == Loaded => AcrossActivation /\ AcrossCancellation

\* The points of an object were all measured against its schedule, each follows
\* the one before by no less than the interval of its time, and none is older than
\* the retention.
CurveStored ==
  \A key \in DOMAIN store :
    LET h == store[key]
        activation == IF h.schedule[1] # 0 THEN h.schedule[1] ELSE h.schedule[2]
    IN  /\ \A p \in Range(h.points) : p.of = h.schedule /\ Last(h.points).at - p.at <= Retention
        /\ \A i \in 2..Len(h.points) :
             h.points[i].at - h.points[i - 1].at >= IntervalAt(h.points[i].at, activation)

\* What is served is of the present schedule and in order of time, has the newest
\* point and the whole dense window, and of the regular points no more than
\* MaxPoints besides the newest.
CurveServed ==
  \A t \in {Target} : \A served \in {HistoryFor(t)} : served # <<>> =>
    LET all == store[Name(t)].points
        dense == {p \in Range(served) : DenseAt(p.at, Activation(t))}
    IN  /\ \A p \in Range(served) : p.of = Schedule(t)
        /\ \A i \in 2..Len(served) : served[i - 1].at < served[i].at
        /\ Last(served) = Last(all)
        /\ \A p \in Range(all) : DenseAt(p.at, Activation(t)) => p \in dense
        /\ Cardinality(Range(served) \ (dense \cup {Last(all)})) <= MaxPoints

\* A series is one curve, as recordReadiness stores it and as /api/v1/forks serves
\* it: never two schedules mixed, never two points too close, whatever restarts,
\* releases, store errors and changes of the clock come between.
OneCurve == CurveStored /\ CurveServed

\* "a restart or a host move cannot drop earlier points": a point of a series goes
\* only by its age, whatever fails.
PointsKept ==
  [][\A key \in DOMAIN store :
       /\ key \in DOMAIN store'
       /\ store'[key].schedule = store[key].schedule =>
            \A p \in Range(store[key].points) :
              p \in Range(store'[key].points) \/ p.at < Last(store'[key].points).at - Retention]_vars
===============================================================================
