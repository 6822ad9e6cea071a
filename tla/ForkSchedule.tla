----------------------------- MODULE ForkSchedule -----------------------------
(***************************************************************************)
(* The fork schedule of a network and what is derived from it              *)
(* (internal/netconf, and its SQL mirror in internal/query).               *)
(*                                                                         *)
(* A network has a compiled schedule on each layer and a list of forks     *)
(* that were called off.  load and applyCancellations make of them the     *)
(* canonical schedule, the fork ids and digests on either side of each     *)
(* cancelled fork, and those of the nodes that still run one.  Everything  *)
(* else is a function of that and of the time: which rows are current,     *)
(* which fork is tracked, whether a row is ready for it, and how long an   *)
(* answer may be cached.                                                   *)
(*                                                                         *)
(* Genesis is the instant 0 and an epoch lasts one unit of time, so the    *)
(* number of an epoch is its instant.  Checksums are taken to be free of   *)
(* collisions: an EIP-2124 hash is the set of the fork times it sums up, a *)
(* fork digest the version and, from Fulu, the blob parameters.            *)
(***************************************************************************)
EXTENDS Integers, Sequences, SequencesExt, FiniteSetsExt

CONSTANTS
  Grace,      \* ForkTrackingGrace
  Far,        \* FAR_FUTURE_EPOCH, math.MaxUint64
  BPONames    \* the names of the blob-parameter-only forks, in order

ASSUME ScheduleAssumption == Grace \in Nat \ {0}

\* What a row lacks.  The time 0 is that of genesis and of no later fork: a layer
\* that a cancellation or a target leaves out has it.
NoHash == {}
NoDigest == <<>>
NoVersion == ""
NoName == ""

\* A next fork that is a block number above forkHeadBlock, and so no instant.
BlockHint == -1

\* slices.SortStableFunc after an append to what is sorted.
Insert(s, x) ==
  SelectSeq(s, LAMBDA y : y.epoch <= x.epoch) \o <<x>> \o SelectSeq(s, LAMBDA y : y.epoch > x.epoch)

-----------------------------------------------------------------------------
(* The execution layer *)

\* forkIDFrom: the hash, and the next fork or 0.
ForkId(times, at) ==
  LET ahead == {t \in times : t > at}
  IN  [hash |-> {0} \cup (times \ ahead), next |-> IF ahead = {} THEN 0 ELSE Min(ahead)]

\* idForkTimes
IdTimes(forks) == {forks[i].time : i \in DOMAIN forks} \ {0}

-----------------------------------------------------------------------------
(* The consensus layer: clNetwork *)

ForkAt(c, epoch) == c.forks[Max({1} \cup {i \in DOMAIN c.forks : c.forks[i].epoch <= epoch})]

\* The blob entries that no cancellation has marked.
LiveBlobs(c) == {i \in DOMAIN c.blobs : c.blobs[i].epoch \notin c.cancelledBPOs}

BlobAt(c, epoch) == c.blobs[Max({i \in LiveBlobs(c) : c.blobs[i].epoch <= epoch})]

DigestAt(c, epoch) ==
  LET version == ForkAt(c, epoch).version
      blob == BlobAt(c, epoch)
  IN  IF epoch < c.fulu THEN <<version>> ELSE <<version, blob.epoch, blob.max>>

RegularEpochs(c) == {c.forks[i].epoch : i \in DOMAIN c.forks}

\* The blob entries that are no part of a regular fork.
BPOs(c) == {i \in DOMAIN c.blobs : c.blobs[i].epoch >= c.fulu /\ c.blobs[i].epoch \notin RegularEpochs(c)}

\* They are numbered in order, and one that is cancelled keeps its number.
Numbered(c, bpos) ==
  {[name |-> BPONames[Cardinality({j \in bpos : j <= i})], epoch |-> c.blobs[i].epoch,
    version |-> ForkAt(c, c.blobs[i].epoch).version] : i \in bpos \cap LiveBlobs(c)}

\* transitions: of the forks that share an epoch the last one, which names the
\* era, and the BPOs.
Transitions(c) ==
  {c.forks[Max({i \in DOMAIN c.forks : c.forks[i].epoch = e})] : e \in RegularEpochs(c)} \cup
  Numbered(c, BPOs(c))

\* computeStateAt, which is also what a node's ENR says: the digest and the
\* next fork.  A BPO counts in the epoch but keeps the version.
StateAt(c, epoch) ==
  LET forks == {i \in DOMAIN c.forks : c.forks[i].epoch > epoch}
      regular == IF forks = {} THEN Far ELSE c.forks[Min(forks)].epoch
      blobs == {i \in LiveBlobs(c) : c.blobs[i].epoch > epoch /\ c.blobs[i].epoch < regular}
  IN  [digest |-> DigestAt(c, epoch),
       version |-> IF blobs = {} /\ forks # {} THEN c.forks[Min(forks)].version
                                              ELSE ForkAt(c, epoch).version,
       next |-> IF blobs = {} THEN regular ELSE c.blobs[Min(blobs)].epoch]

\* compute: every digest of the schedule.
Digests(c) ==
  {IF c.forks[i].epoch < c.fulu THEN <<c.forks[i].version>> ELSE DigestAt(c, c.forks[i].epoch) :
     i \in DOMAIN c.forks} \cup
  {DigestAt(c, c.blobs[i].epoch) :
     i \in {j \in LiveBlobs(c) : c.blobs[j].epoch >= c.fulu}}

\* The schedules of the built-in networks, and what withoutFork leaves of them: in
\* order from genesis on, each fork with a version of its own; Fulu is one of the
\* forks, and blob entries before it are part of a fork (compiledCL).
InEpochOrder(s) ==
  /\ s \in Seq(Range(s))
  /\ \A i, j \in DOMAIN s : s[i].epoch \in Nat /\ (i <= j => s[i].epoch <= s[j].epoch)

WellFormed(c) ==
  /\ InEpochOrder(c.forks) /\ c.forks # <<>> /\ c.forks[1].epoch = 0
  /\ \A i, j \in DOMAIN c.forks : c.forks[i].version = c.forks[j].version => i = j
  /\ c.fulu \in RegularEpochs(c) \cup {Far}
  /\ InEpochOrder(c.blobs)
  /\ \A i \in LiveBlobs(c) : c.blobs[i].epoch < c.fulu => c.blobs[i].epoch \in RegularEpochs(c)
  /\ c.fulu # Far => \E i \in LiveBlobs(c) : c.blobs[i].epoch <= c.fulu

-----------------------------------------------------------------------------
(* Forks that were called off.  An entry of the operator's list has a part for  *)
(* either layer or both: el has name and time, cl name, epoch, version and max, *)
(* the blob limit.                                                              *)

IsBPO(name) == name \in Range(BPONames)

\* The checks of cancel and withoutFork.
Cancellable(compiled, e) ==
  LET el == {compiled.el[i] : i \in DOMAIN compiled.el}
      named == {compiled.cl.forks[i] : i \in DOMAIN compiled.cl.forks}
      at == {x \in Transitions(compiled.cl) : x.epoch = e.cl.epoch /\ IsBPO(x.name)}
  IN  /\ e.el.time # 0 \/ e.cl.epoch # 0
      /\ e.el.time # 0 => \A f \in el : f.name = e.el.name => f.time = e.el.time
      /\ e.cl.epoch # 0 /\ ~IsBPO(e.cl.name) =>
           /\ e.cl.name # "fulu"
           /\ \A f \in named : f.name = e.cl.name => f.epoch = e.cl.epoch /\ f.version = e.cl.version
      /\ e.cl.epoch # 0 /\ IsBPO(e.cl.name) =>
           IF at = {} THEN e.cl.max > 0
                      ELSE \A x \in at : /\ x.version = e.cl.version
                                         /\ BlobAt(compiled.cl, x.epoch).max = e.cl.max
      /\ e.el.time # 0 /\ e.cl.epoch # 0 => e.el.time = e.cl.epoch

\* withoutFork: the schedule c without the fork, and what c lost.  A named fork
\* takes the blob entries at its epoch with it; a BPO is found by its epoch in
\* the compiled schedule, and only marked.
WithoutFork(c, compiled, f) ==
  LET named == SelectSeq(c.forks, LAMBDA x : x.name = f.name)
      given == IF f.max > 0 THEN <<[epoch |-> f.epoch, max |-> f.max]>> ELSE <<>>
      present == \E x \in Transitions(compiled) : x.epoch = f.epoch /\ IsBPO(x.name)
  IN  IF IsBPO(f.name)
        THEN [cl |-> IF present THEN [c EXCEPT !.cancelledBPOs = @ \cup {f.epoch}] ELSE c,
              fork |-> <<>>, blobs |-> IF present THEN <<>> ELSE given]
        ELSE IF named # <<>>
          THEN [cl |-> [c EXCEPT !.forks = SelectSeq(@, LAMBDA x : x.name # f.name),
                                 !.blobs = SelectSeq(@, LAMBDA b : b.epoch # f.epoch)],
                fork |-> named, blobs |-> SelectSeq(c.blobs, LAMBDA b : b.epoch = f.epoch)]
          ELSE [cl |-> c, blobs |-> given,
                fork |-> <<[name |-> f.name, epoch |-> f.epoch, version |-> f.version]>>]

\* The canonical schedule: applyCancellations, entry after entry.
Canonical(compiled, list) ==
  LET Step(c, e) == IF e.cl.epoch = 0 THEN c ELSE WithoutFork(c, compiled.cl, e.cl).cl
  IN  FoldLeft(Step, compiled.cl, list)

\* The schedule before the i-th entry was applied.
CanonicalBefore(compiled, list, i) == Canonical(compiled, SubSeq(list, 1, i - 1))

\* cancelledDigests: the canonical schedule with just the i-th fork added back,
\* whose digest at the epoch of the fork is the one a node has that runs it.
AddedBack(cl, f, lost) ==
  [cl EXCEPT !.forks = FoldLeft(Insert, @, lost.fork),
             !.blobs = FoldLeft(Insert, @, lost.blobs),
             !.cancelledBPOs = IF lost.fork = <<>> THEN @ \ {f.epoch} ELSE @]

Shadow(compiled, list, i, cl) ==
  AddedBack(cl, list[i].cl, WithoutFork(CanonicalBefore(compiled, list, i), compiled.cl, list[i].cl))

\* load: the compiled forks but those that are cancelled under their name and time.
ELForks(compiled, list) ==
  SelectSeq(compiled.el, LAMBDA f : \A i \in DOMAIN list : list[i].el # f)

\* indexCancellations, cancelledELHashes: the hashes of a node that ran the
\* compiled schedule, or the canonical one and one of the cancelled forks, at each
\* fork from there on, unless the canonical schedule has them too.
OnCancelledEL(times, original, ats) ==
  {h \in {ForkId(original, t).hash : t \in {u \in original : \E a \in ats : a <= u}} \cup
        UNION {{ForkId(times \cup {a}, t).hash : t \in {u \in times \cup {a} : a <= u}} : a \in ats} :
     h # ForkId(times, Max(h)).hash}

\* Mutant: the digest before the fork is taken when its entry is applied.
PreDigestEarly(compiled, list, i, cl) ==
  DigestAt(CanonicalBefore(compiled, list, i), list[i].cl.epoch - 1)

\* cancelledDigests runs when every entry is applied.
PreDigest(compiled, list, i, cl) == DigestAt(cl, list[i].cl.epoch - 1)

\* The parts of the entries for a layer: the place of the entry, the fork, what is
\* before it and, on the consensus layer, the schedule of a node that still has it.
ELOff(list, times) ==
  {[nth |-> i, name |-> list[i].el.name, time |-> list[i].el.time, version |-> NoVersion,
    pre |-> ForkId(times, list[i].el.time - 1).hash] : i \in {j \in DOMAIN list : list[j].el.time # 0}}

CLOff(compiled, list, cl) ==
  {[nth |-> i, name |-> list[i].cl.name, time |-> list[i].cl.epoch, version |-> list[i].cl.version,
    pre |-> PreDigest(compiled, list, i, cl),
    shadow |-> Shadow(compiled, list, i, cl)] : i \in {j \in DOMAIN list : list[j].cl.epoch # 0}}

\* onEL and onCL have the hashes and digests that only a schedule with a cancelled
\* fork gives, known every digest of the network.
Indexed(compiled, forks, times, cl, elOff, clOff, posts) ==
  [elForks |-> forks, times |-> times, cl |-> cl, elOff |-> elOff, clOff |-> clOff,
   onEL |-> OnCancelledEL(times, IdTimes(compiled.el), {c.time : c \in elOff}),
   onCL |-> posts \cup (Digests(compiled.cl) \ Digests(cl)),
   known |-> Digests(cl) \cup Digests(compiled.cl) \cup posts]

Assembled(compiled, list, forks, cl) ==
  LET clOff == CLOff(compiled, list, cl)
  IN  Indexed(compiled, forks, IdTimes(forks), cl, ELOff(list, IdTimes(forks)), clOff,
              {DigestAt(c.shadow, c.time) : c \in clOff})

\* A network that is ready for use: applyCancellations, then load.
Load(compiled, list) == Assembled(compiled, list, ELForks(compiled, list), Canonical(compiled, list))

-----------------------------------------------------------------------------
(* What holds at an instant *)

\* CurrentForkIDAt, CLForkStateAt
Current(n, at) == [hash |-> ForkId(n.times, at).hash, digest |-> DigestAt(n.cl, at)]

\* CanonicalCurrentNextRanges: a next fork that is absent, a block number above our
\* head, or ahead.
NextAhead(next, at) == next \in {0, BlockHint} \/ next > at

\* RowForkCurrentAt
RowForkCurrentAt(n, layer, hash, next, at) ==
  IF layer = "el" THEN hash = Current(n, at).hash /\ NextAhead(next, at)
                  ELSE hash = Current(n, at).digest

\* The next instant, or else the latest one that the grace has not left behind.
Tracked(instants, at) ==
  LET ahead == {t \in instants : t > at}
      past == {t \in instants : t <= at /\ at - t < Grace}
  IN  IF ahead # {} THEN Min(ahead) ELSE IF past # {} THEN Max(past) ELSE 0

NoTarget == [name |-> NoName, time |-> 0, version |-> NoVersion, phase |-> "none", pre |-> NoHash]

\* elTargetAt: on a tie the last fork names the era.
ELTarget(n, t, at) ==
  [name |-> Last(SelectSeq(n.elForks, LAMBDA x : x.time = t)).name, time |-> t, version |-> NoVersion,
   phase |-> IF t > at THEN "scheduled" ELSE "activated", pre |-> ForkId(n.times, t - 1).hash]

\* clNetwork.targetAt, with the fork f of the schedule.
CLTarget(n, f, at) ==
  [name |-> f.name, time |-> f.epoch, version |-> f.version,
   phase |-> IF f.epoch > at THEN "scheduled" ELSE "activated", pre |-> DigestAt(n.cl, f.epoch - 1)]

\* cancelledTargetsAt: a cancelled fork gives way to one that is scheduled before it.
Yields(target, t) == target.phase = "scheduled" /\ target.time <= t

CancelledTarget(c) ==
  [name |-> c.name, time |-> c.time, version |-> c.version, phase |-> "cancelled", pre |-> c.pre]

\* pick: of the cancelled forks of time t the first of the list while they are
\* ahead, and the last once they are past.
Picked(off, t, at) ==
  LET places == {c.nth : c \in {d \in off : d.time = t}}
  IN  CHOOSE c \in off : c.time = t /\ c.nth = IF t > at THEN Min(places) ELSE Max(places)

\* The cancelled fork of time t, 0 for none, or else the target.
CancelledTargetAt(target, off, t, at) ==
  IF t = 0 \/ Yields(target, t) THEN target ELSE CancelledTarget(Picked(off, t, at))

ELTargetAt(n, t, at) == IF t = 0 THEN NoTarget ELSE ELTarget(n, t, at)

CLTargetAt(n, forks, t, at) ==
  IF t = 0 THEN NoTarget ELSE CLTarget(n, CHOOSE f \in forks : f.epoch = t, at)

\* forks: the transitions of the consensus layer.
LayerTargets(n, forks, at) ==
  [el |-> CancelledTargetAt(ELTargetAt(n, Tracked(n.times, at), at), n.elOff,
                            Tracked({c.time : c \in n.elOff}, at), at),
   cl |-> CancelledTargetAt(CLTargetAt(n, forks, Tracked({f.epoch : f \in forks} \ {0, Far}, at), at), n.clOff,
                            Tracked({c.time : c \in n.clOff}, at), at)]

LayerForkTargetsAt(n, at) == LayerTargets(n, Transitions(n.cl), at)

\* Layers of different instants are different upgrades; the next one is tracked,
\* or else the latest.  A layer counts as ahead until its fork has activated, so
\* for ever if it is cancelled.
OneUpgrade(t) ==
  LET elAhead == t.el.phase # "activated"
      clAhead == t.cl.phase # "activated"
      elFirst == t.el.time < t.cl.time
      both == t.el.phase # "none" /\ t.cl.phase # "none"
  IN  IF ~both \/ t.el.time = t.cl.time THEN t
      ELSE IF (elAhead /\ (~clAhead \/ elFirst)) \/ (~elAhead /\ ~clAhead /\ ~elFirst)
             THEN [t EXCEPT !.cl = NoTarget]
             ELSE [t EXCEPT !.el = NoTarget]

ForkTargetAt(n, at) == OneUpgrade(LayerForkTargetsAt(n, at))

\* ForkTarget.Name, and with it the key of the history: upgradeName gives one
\* name to a fork that is called the same on both layers.
Name(t) == IF t.el.name = t.cl.name THEN <<t.el.name>>
                                    ELSE SelectSeq(<<t.el.name, t.cl.name>>, LAMBDA x : x # NoName)

Phase(t) ==
  LET phases == {t.el.phase, t.cl.phase}
  IN  CASE "cancelled" \in phases -> "cancelled"
        [] "cancelled" \notin phases /\ "scheduled" \in phases -> "scheduled"
        [] phases = {"none"} -> "none"
        [] OTHER -> "activated"

\* ForkTarget.Schedule, Activation
Schedule(t) == <<t.el.time, t.cl.time>>
Activation(t) == IF t.el.time # 0 THEN t.el.time ELSE t.cl.time

-----------------------------------------------------------------------------
(* Readiness.  The evidence ev of a row: its layer, fork hash and next fork,   *)
(* and for the consensus layer the schedule of its ENR: digest, version and    *)
(* epoch.                                                                      *)

\* Whether the ENR announces the target.
Announced(t, ev) == ev.epoch = t.time /\ ev.version = t.version

\* Whether the ENR's schedule is the one of the digest the row has.
Matched(ev) == ev.digest # NoDigest /\ ev.digest = ev.hash

CancelledReadiness(current, affected, readable) ==
  CASE affected -> "not_ready"
    [] ~affected /\ ~current -> "stale"
    [] ~affected /\ current /\ ~readable -> "unknown"
    [] OTHER -> "ready"

ActivatedReadiness(current, onPre, readable, scheduled) ==
  CASE current -> "ready"
    [] ~current /\ ~onPre -> "stale"
    [] ~current /\ onPre /\ ~readable -> "unknown"
    [] ~current /\ onPre /\ readable /\ scheduled -> "pending"
    [] OTHER -> "not_ready"

ScheduledReadiness(current, readable, ready, silent) ==
  CASE ~current -> "stale"
    [] current /\ ~readable -> "unknown"
    [] current /\ readable /\ ready -> "ready"
    [] current /\ readable /\ ~ready /\ silent -> "not_ready"
    [] OTHER -> "mismatch"

\* ReadinessAt, for the target t of the layer of ev.
ReadinessAt(n, t, ev, at) ==
  LET el == ev.layer = "el"
      current == RowForkCurrentAt(n, ev.layer, ev.hash, ev.next, at)
      affected == IF el THEN ev.hash \in n.onEL \/ (ev.hash = t.pre /\ ev.next = t.time)
                        ELSE ev.hash \in n.onCL \/ (ev.digest = t.pre /\ Announced(t, ev))
  IN  CASE t.phase = "none" -> ""
        [] t.phase = "cancelled" -> CancelledReadiness(current, affected, el \/ Matched(ev))
        [] t.phase = "activated" ->
             ActivatedReadiness(current, ev.hash = t.pre, el \/ ev.digest = t.pre,
                                IF el THEN ev.next = t.time ELSE Announced(t, ev))
        [] t.phase = "scheduled" ->
             ScheduledReadiness(current, el \/ Matched(ev),
                                IF el THEN ev.next = t.time ELSE Announced(t, ev),
                                IF el THEN ev.next = 0 ELSE ev.epoch = Far)

\* Conditions of SQL have three values.  The columns of the row ev that are in nulls
\* are NULL, and Go reads NULL as what a row lacks.
Sql(b) == IF b THEN "true" ELSE "false"
SqlNot(c) == IF c = "null" THEN "null" ELSE Sql(c = "false")
SqlAnd(cs) == IF "false" \in cs THEN "false" ELSE IF "null" \in cs THEN "null" ELSE "true"
SqlEquals(ev, nulls, column, x) == IF column \in nulls THEN "null" ELSE Sql(ev[column] = x)
CoalesceFalse(c) == IF c = "null" THEN "false" ELSE c

\* The tests of currentForkConditionAt for the layer of the row.
CurrentForkTests(n, ev, nulls, at) ==
  IF ev.layer = "el" THEN {SqlEquals(ev, nulls, "hash", Current(n, at).hash), Sql(NextAhead(ev.next, at))}
                     ELSE {SqlEquals(ev, nulls, "hash", Current(n, at).digest)}

\* Mutant: the condition is NULL for a row without a hash, and so is its complement.
CurrentForkConditionNull(n, ev, nulls, at) == SqlAnd(CurrentForkTests(n, ev, nulls, at))

\* currentForkConditionAt: coalesced, so that a row without a hash is in the
\* complement.
CurrentForkConditionAt(n, ev, nulls, at) == CoalesceFalse(SqlAnd(CurrentForkTests(n, ev, nulls, at)))

\* The columns of matched are compared as they are, the others coalesced.
SqlMatched(ev, nulls) ==
  SqlAnd({Sql(ev.digest # NoDigest), IF nulls # {} THEN "null" ELSE Sql(ev.digest = ev.hash)})

\* readinessConditionAt: the WHERE clause for rows of one readiness.
SqlActivated(want, current, onPre, elsewhere, readable, scheduled) ==
  CASE want = "ready" -> current
    [] want = "pending" -> SqlAnd({SqlNot(current), onPre, readable, scheduled})
    [] want = "not_ready" -> SqlAnd({SqlNot(current), onPre, readable, SqlNot(scheduled)})
    [] want = "unknown" -> SqlAnd({SqlNot(current), onPre, SqlNot(readable)})
    [] want = "stale" -> SqlAnd({SqlNot(current), elsewhere})
    [] OTHER -> "false"

SqlCancelled(want, current, affected, matched) ==
  CASE want = "not_ready" -> affected
    [] want = "ready" -> SqlAnd({current, SqlNot(affected), matched})
    [] want = "unknown" -> SqlAnd({current, SqlNot(affected), SqlNot(matched)})
    [] want = "stale" -> SqlAnd({SqlNot(current), SqlNot(affected)})
    [] OTHER -> "false"

SqlScheduledEL(want, t, current, ev) ==
  CASE want = "ready" -> SqlAnd({current, Sql(ev.next = t.time)})
    [] want = "not_ready" -> SqlAnd({current, Sql(ev.next = 0)})
    [] want = "mismatch" -> SqlAnd({current, Sql(ev.next \notin {0, t.time})})
    [] want = "stale" -> SqlNot(current)
    [] OTHER -> "false"

SqlScheduledCL(want, current, matched, ready, notReady) ==
  CASE want = "ready" -> SqlAnd({current, matched, ready})
    [] want = "not_ready" -> SqlAnd({current, matched, notReady})
    [] want = "mismatch" -> SqlAnd({current, matched, SqlNot(ready), SqlNot(notReady)})
    [] want = "unknown" -> SqlAnd({current, SqlNot(matched)})
    [] want = "stale" -> SqlNot(current)
    [] OTHER -> "false"

SqlReadiness(n, t, want, ev, nulls, at) ==
  LET current == CurrentForkConditionAt(n, ev, nulls, at)
      onPre == SqlEquals(ev, nulls, "hash", t.pre)
      elsewhere == Sql(ev.hash # t.pre)
      announced == Sql(Announced(t, ev))
  IN  CASE ev.layer = "el" /\ t.phase = "cancelled" ->
             SqlCancelled(want, current, Sql(ev.hash \in n.onEL \/ (ev.hash = t.pre /\ ev.next = t.time)), "true")
        [] ev.layer = "el" /\ t.phase = "activated" ->
             SqlActivated(want, current, onPre, elsewhere, "true", Sql(ev.next = t.time))
        [] ev.layer = "el" /\ t.phase = "scheduled" -> SqlScheduledEL(want, t, current, ev)
        [] ev.layer = "cl" /\ t.phase = "cancelled" ->
             SqlCancelled(want, current, Sql(ev.hash \in n.onCL \/ (ev.digest = t.pre /\ Announced(t, ev))),
                          SqlMatched(ev, nulls))
        [] ev.layer = "cl" /\ t.phase = "activated" ->
             SqlActivated(want, current, onPre, elsewhere, Sql(ev.digest = t.pre), announced)
        [] ev.layer = "cl" /\ t.phase = "scheduled" ->
             SqlScheduledCL(want, current, SqlMatched(ev, nulls), announced, Sql(ev.epoch = Far))
        [] OTHER -> "false"

\* The row is selected.
ReadinessConditionAt(n, t, want, ev, nulls, at) == SqlReadiness(n, t, want, ev, nulls, at) = "true"

-----------------------------------------------------------------------------
(* Eras *)

\* at(n) of the cancellations.
CancelledInstants(n) == {c.time : c \in n.elOff \cup n.clOff}

\* Mutant: a cancelled fork is no boundary.
EraRealOnly(n, at) == [current |-> Current(n, at), passed |-> {}]

\* ForkEraTokenAt with cancelledEraAt: what an answer depends on, ...
Era(n, at) == [current |-> Current(n, at), passed |-> {t \in CancelledInstants(n) : t <= at}]

\* ... and the next instant at which it changes, or Far.
NextTransition(n, at) ==
  Min({Far, StateAt(n.cl, at).next} \cup {t \in CancelledInstants(n) \cup n.times : t > at})

\* /api/v1/forks: tracking ends with the grace, which is no boundary of an era.
ForksUntil(t, next) ==
  IF Phase(t) = "activated" THEN Min({next, Activation(t) + Grace}) ELSE next

\* forkActivatedBetween of the DNS publisher: a fork of the layer, or the instant
\* of a cancelled one, explains why rows of the layer stop being current.
ForkActivatedBetween(n, layer, from, to) ==
  /\ from < to
  /\ \/ \E c \in (IF layer = "el" THEN n.elOff ELSE n.clOff) : from < c.time /\ c.time <= to
     \/ IF layer = "el" THEN Current(n, from).hash # Current(n, to).hash
                        ELSE Current(n, from).digest # Current(n, to).digest

\* gatherHashes, ClassifyCL: the hashes by which a node is of the network.  The
\* window, of years, is wider than the time that is modelled.
Classified(n, layer, hash) ==
  IF layer = "el" THEN hash \in n.onEL \cup {ForkId(n.times, t).hash : t \in n.times \cup {0}}
                  ELSE hash \in n.known
===============================================================================
