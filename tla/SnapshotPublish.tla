--------------------------- MODULE SnapshotPublish ---------------------------
(***************************************************************************)
(* The crawler's snapshot publisher (cmd/crawler/publisher.go) over the    *)
(* conditional object store (internal/snapshot, internal/store).           *)
(*                                                                         *)
(* One publish uploads an immutable object per network and then advances   *)
(* the manifest, the only mutable object, with a compare-and-swap.  Every  *)
(* call to the store is a step of its own: it may fail, and a failed write *)
(* may have been applied.  A process may die between any two of them and   *)
(* be started again.                                                       *)
(***************************************************************************)
EXTENDS Integers, FiniteSets

CONSTANTS
  Crawlers,        \* crawler processes, named by their --crawler-id
  None,            \* the absent crawler id of NoManifest
  Networks,        \* the advertised networks, one generation object each
  Counts,          \* possible [total, current] node counts of a crawl
  MinCurrent,      \* --min-current-nodes (0 disables the floor)
  MaxCollapsePct,  \* --max-collapse-pct
  ForkTimes,       \* instants at which a scheduled fork activates
  ForcePublish,    \* --force-publish
  Keep,            \* --keep-generations (0 keeps all)
  Verified,        \* TRUE: the S3 conditional mode "verified"
  LateWrites,      \* TRUE: a manifest write may be applied after its error
  ClockStepsBack,  \* TRUE: the wall clock may be set back
  MaxClock,        \* bound: publish attempts, all crawlers together
  MaxRuns          \* bound: process starts, all crawlers together

ASSUME ConstantsAssumption ==
  /\ None \notin Crawlers
  /\ IsFiniteSet(Networks) /\ Networks # {}
  /\ Counts \subseteq [total: Nat, current: Nat]
  /\ MinCurrent \in Nat /\ MaxCollapsePct \in 0..100 /\ Keep \in Nat
  /\ ForkTimes \subseteq Nat
  /\ ForcePublish \in BOOLEAN /\ Verified \in BOOLEAN
  /\ LateWrites \in BOOLEAN /\ ClockStepsBack \in BOOLEAN
  /\ MaxClock \in Nat /\ MaxRuns \in Nat

VARIABLES
  objs,      \* generation objects in the store: [net, gen, sum]
  manifest,  \* the committed manifest, NoManifest before the first one
  late,      \* manifest writes that failed and may still be applied
  commits,   \* history: every manifest ever committed
  clock,     \* publish attempts so far, the latest reading of the wall clock
  runs,      \* process starts so far, the latest run id
  proc       \* per crawler: the publisher and the publish under way

vars == <<objs, manifest, late, commits, clock, runs, proc>>

-----------------------------------------------------------------------------
(* Manifests and generation objects *)

\* A manifest: its writer, its run, its generation time, the digest of its
\* objects (the number of the attempt that wrote them) and its node counts.
\* forced is history, not stored: --force-publish admitted it.
Manifests ==
  [id: Crawlers, run: Nat \ {0}, gen: Nat \ {0}, sum: Nat \ {0},
   count: Counts, forced: BOOLEAN]

NoManifest ==
  [id |-> None, run |-> 0, gen |-> 0, sum |-> 0,
   count |-> [total |-> 0, current |-> 0], forced |-> FALSE]

\* The key Layout.GenerationKey gives network n in manifest m, and the object
\* VerifyGeneration accepts there.
Key(n, m) == [net |-> n, gen |-> m.gen]
Obj(n, m) == [net |-> n, gen |-> m.gen, sum |-> m.sum]
KeyOf(o) == [net |-> o.net, gen |-> o.gen]

\* Put replaces whatever is stored under the key; Delete removes it.
Stored(o) == {p \in objs : KeyOf(p) # KeyOf(o)} \cup {o}
Without(k) == {p \in objs : KeyOf(p) # k}

Backed(m) == \A n \in Networks : Obj(n, m) \in objs

-----------------------------------------------------------------------------
(* The publisher of one process *)

Labels == {"down", "stopped", "idle", "upload", "getVersion", "put",
           "precheck", "putBlind", "readBack", "reconcile", "cleanup",
           "delete", "prune", "pruneDelete"}

\* A process that is not running: no memory of its own.
Dead ==
  [pc |-> "down", run |-> 0,
   prev |-> NoManifest,    \* p.prev
   used |-> FALSE,         \* p.forceUsed
   pending |-> FALSE,      \* p.forcePending
   next |-> NoManifest,    \* m, the manifest being published
   expect |-> NoManifest,  \* expectedVersion of WriteConditional
   err |-> "nil",          \* the error WriteConditional returned
   back |-> "idle",        \* where the cleanup returns to
   todo |-> {},            \* networks still to upload or to prune
   doomed |-> {},          \* keys still to delete
   quota |-> 0]            \* toDelete of the pruning loop

Set(c, p) == proc' = [proc EXCEPT ![c] = p]

\* Publish returned: its locals are gone.
Returned(p, pc) ==
  [Dead EXCEPT !.pc = pc, !.run = p.run, !.prev = p.prev, !.used = p.used,
               !.pending = p.pending]

Init ==
  /\ objs = {} /\ manifest = NoManifest /\ late = {} /\ commits = {}
  /\ clock = 0 /\ runs = 0
  /\ proc = [c \in Crawlers |-> Dead]

\* run and restore: a fresh run id, the committed manifest as p.prev after
\* every object it names was loaded and verified (otherwise run returns the
\* error and the process stays down), then the start-up pruning.
Restart(c) ==
  /\ proc[c].pc \in {"down", "stopped"} /\ runs < MaxRuns
  /\ manifest # NoManifest => Backed(manifest)
  /\ runs' = runs + 1
  /\ Set(c, [Dead EXCEPT !.pc = "prune", !.run = runs + 1, !.prev = manifest,
                         !.todo = Networks])
  /\ UNCHANGED <<objs, manifest, late, commits, clock>>

\* The process dies at any point; only what is in the store survives.
Crash(c) ==
  /\ proc[c].pc # "down"
  /\ Set(c, Dead)
  /\ UNCHANGED <<objs, manifest, late, commits, clock, runs>>

-----------------------------------------------------------------------------
(* The publish guards *)

Shrank(new, old) == old > 0 /\ new * 100 < old * (100 - MaxCollapsePct)

ForkActivatedBetween(from, to) == \E t \in ForkTimes : from < t /\ t <= to

\* shrankTooMuch: a collapse of the row count, or of the current-fork count
\* unless a scheduled fork activated between the two generations.
ShrankTooMuch(old, new) ==
  /\ old # NoManifest
  /\ \/ Shrank(new.count.total, old.count.total)
     \/ /\ Shrank(new.count.current, old.count.current)
        /\ ~ForkActivatedBetween(old.gen, new.gen)

BelowFloor(m) == MinCurrent > 0 /\ m.count.current < MinCurrent

MayForce(p) == ForcePublish /\ ~p.used /\ ~p.pending

\* Mutant: the reading is used as it is.
GenerationTimeAsRead(p, now) == now

\* generationTime: a reading that is not after the previous generation is
\* replaced by the previous generation plus one nanosecond.
GenerationTime(p, now) ==
  IF p.prev # NoManifest /\ now <= p.prev.gen THEN p.prev.gen + 1 ELSE now

\* The wall clock, in nanoseconds: a reading later than all before it or,
\* when the clock was set back, one that is not after p.prev or that falls
\* between earlier ones without repeating any.
Unused(t) == (\A o \in objs : o.gen # t) /\ (\A m \in commits : m.gen # t)

WallClock(p) ==
  {clock + 1} \cup
  {t \in 1..clock : ClockStepsBack /\ (t <= p.prev.gen \/ Unused(t))}

\* build: the manifest of this attempt.
Build(c, now, n, forced) ==
  [id |-> c, run |-> proc[c].run, gen |-> GenerationTime(proc[c], now),
   sum |-> clock + 1, count |-> n, forced |-> forced]

\* Publish up to the upload: the guards pass, or --force-publish overrides the
\* shrink guard.
Admit(c) ==
  /\ proc[c].pc = "idle" /\ clock < MaxClock
  /\ clock' = clock + 1
  /\ \E now \in WallClock(proc[c]), n \in Counts, forced \in BOOLEAN :
       LET m == Build(c, now, n, forced) IN
       /\ ~BelowFloor(m)
       /\ forced = ShrankTooMuch(proc[c].prev, m)
       /\ forced => MayForce(proc[c])
       /\ Set(c, [proc[c] EXCEPT !.pc = "upload", !.next = m,
                                 !.todo = Networks])
  /\ UNCHANGED <<objs, manifest, late, commits, runs>>

\* A guard rejects the crawl; nothing is uploaded.
Quarantine(c) ==
  /\ proc[c].pc = "idle" /\ clock < MaxClock
  /\ \E now \in WallClock(proc[c]), n \in Counts :
       LET m == Build(c, now, n, FALSE) IN
       \/ BelowFloor(m)
       \/ ShrankTooMuch(proc[c].prev, m) /\ ~MayForce(proc[c])
  /\ clock' = clock + 1
  /\ UNCHANGED <<objs, manifest, late, commits, runs, proc>>

-----------------------------------------------------------------------------
(* upload *)

UploadOK(c) ==
  /\ proc[c].pc = "upload"
  /\ \E n \in proc[c].todo :
       LET left == proc[c].todo \ {n} IN
       /\ objs' = Stored(Obj(n, proc[c].next))
       /\ Set(c, [proc[c] EXCEPT
            !.todo = left, !.pc = IF left = {} THEN "getVersion" ELSE "upload"])
  /\ UNCHANGED <<manifest, late, commits, clock, runs>>

\* A failed Put may have stored the object: its key is cleaned up as well.
UploadFailed(c) ==
  /\ proc[c].pc = "upload"
  /\ \E n \in proc[c].todo :
       LET attempted == (Networks \ proc[c].todo) \cup {n} IN
       /\ objs' \in {objs, Stored(Obj(n, proc[c].next))}
       /\ Set(c, [proc[c] EXCEPT
            !.pc = "cleanup", !.back = "idle",
            !.doomed = {Key(k, proc[c].next) : k \in attempted}])
  /\ UNCHANGED <<manifest, late, commits, clock, runs>>

-----------------------------------------------------------------------------
(* snapshot.WriteConditional and the publisher's success path *)

Failed(c, e) == Set(c, [proc[c] EXCEPT !.pc = "reconcile", !.err = e])

\* A stored manifest of this very run is an earlier write of its own.
OwnWrite(p) == manifest.run = p.next.run /\ p.next.gen > manifest.gen

IsPrevious(p, m) ==
  p.prev # NoManifest /\ m.id = p.prev.id /\ m.gen = p.prev.gen

\* Mutant: whatever is stored is replaced.
MayReplaceAnything(p) == TRUE

MayReplace(p) ==
  IF manifest = NoManifest THEN p.prev = NoManifest
                           ELSE OwnWrite(p) \/ IsPrevious(p, manifest)

\* GetVersion of the manifest and the comparison with previous.
GetVersion(c) ==
  /\ proc[c].pc = "getVersion"
  /\ \/ /\ MayReplace(proc[c])
        /\ Set(c, [proc[c] EXCEPT !.pc = IF Verified THEN "precheck" ELSE "put",
                                  !.expect = manifest])
     \/ /\ ~MayReplace(proc[c])
        /\ Failed(c, IF manifest = NoManifest THEN "conflict" ELSE "competitor")
     \/ Failed(c, "other")
  /\ UNCHANGED <<objs, manifest, late, commits, clock, runs>>

\* A successful commit, an adopted one too, settles the override.
Settle(p) ==
  [p EXCEPT !.used = p.used \/ p.next.forced \/ p.pending, !.pending = FALSE]

\* The publish succeeded: m becomes p.prev and recordPublished ends with the
\* pruning of old generations.
Published(p) ==
  [Returned(Settle(p), "prune") EXCEPT !.prev = p.next, !.todo = Networks]

Commit(m) == manifest' = m /\ commits' = commits \cup {m}

\* PutIfVersion with an atomic compare-and-swap: the flock of the filesystem
\* store, or If-Match of a native S3 store.
PutIfVersion(c) ==
  /\ proc[c].pc = "put" /\ manifest = proc[c].expect
  /\ Commit(proc[c].next)
  /\ Set(c, Published(proc[c]))
  /\ UNCHANGED <<objs, late, clock, runs>>

PutIfVersionRefused(c) ==
  /\ proc[c].pc = "put" /\ manifest # proc[c].expect
  /\ Failed(c, "conflict")
  /\ UNCHANGED <<objs, manifest, late, commits, clock, runs>>

\* The response is lost after the write was applied; when the client itself
\* repeats the request, the answer to the second one is a conflict.
PutIfVersionAmbiguous(c) ==
  /\ proc[c].pc = "put" /\ manifest = proc[c].expect
  /\ Commit(proc[c].next)
  /\ \E e \in {"other", "conflict"} : Failed(c, e)
  /\ UNCHANGED <<objs, late, clock, runs>>

\* The write fails; with LateWrites the request may still be under way.
Delayed(p, cond) ==
  {late} \cup IF ~LateWrites THEN {}
              ELSE {late \cup {[cond |-> cond, expect |-> p.expect, m |-> p.next]}}

PutIfVersionFailed(c) ==
  /\ proc[c].pc = "put"
  /\ Failed(c, "other")
  /\ late' \in Delayed(proc[c], TRUE)
  /\ UNCHANGED <<objs, manifest, commits, clock, runs>>

\* putIfVersionVerified: GetVersion, an unconditional Put, GetVersion again.
Precheck(c) ==
  /\ proc[c].pc = "precheck"
  /\ \/ manifest = proc[c].expect /\ Set(c, [proc[c] EXCEPT !.pc = "putBlind"])
     \/ manifest # proc[c].expect /\ Failed(c, "conflict")
     \/ Failed(c, "other")
  /\ UNCHANGED <<objs, manifest, late, commits, clock, runs>>

PutBlind(c) ==
  /\ proc[c].pc = "putBlind"
  /\ \/ /\ Commit(proc[c].next) /\ UNCHANGED late
        /\ \/ Set(c, [proc[c] EXCEPT !.pc = "readBack"])
           \/ Failed(c, "other")
     \/ /\ Failed(c, "other")
        /\ late' \in Delayed(proc[c], FALSE)
        /\ UNCHANGED <<manifest, commits>>
  /\ UNCHANGED <<objs, clock, runs>>

ReadBack(c) ==
  /\ proc[c].pc = "readBack"
  /\ \/ manifest = proc[c].next /\ Set(c, Published(proc[c]))
     \/ manifest # proc[c].next /\ Failed(c, "conflict")
     \/ Failed(c, "other")
  /\ UNCHANGED <<objs, manifest, late, commits, clock, runs>>

\* A write whose error the crawler has already seen reaches the store.
LateWrite ==
  \E w \in late :
    /\ late' = late \ {w}
    /\ IF w.cond /\ manifest # w.expect THEN UNCHANGED <<manifest, commits>>
                                        ELSE Commit(w.m)
    /\ UNCHANGED <<objs, clock, runs, proc>>

-----------------------------------------------------------------------------
(* Publish, after WriteConditional returned an error: one read of the      *)
(* manifest (stored; NoManifest stands for a failed read too) decides.     *)

StoredIsOwn(p, stored) ==
  stored.run = p.next.run /\ stored.gen = p.next.gen

\* recoverConflict, first case: an earlier write of this run is stored.
AdoptsEarlier(p, stored) ==
  /\ p.prev # NoManifest
  /\ stored.run = p.next.run /\ stored.gen > p.prev.gen

ToCleanup(p, back) ==
  [p EXCEPT !.pc = "cleanup", !.back = back, !.err = "nil",
            !.doomed = {Key(n, p.next) : n \in Networks}]

\* Mutant: an override whose outcome is unknown is free again.
UnsettledForgotten(p) == p

\* forced && !settled: no further forced admit until a commit settles it.
Unsettled(p) == [p EXCEPT !.pending = p.pending \/ p.next.forced]

Reconcile(c) ==
  /\ proc[c].pc = "reconcile"
  /\ \E stored \in {manifest, NoManifest} :
       LET p == proc[c]
           own == StoredIsOwn(p, stored)
           adopts == AdoptsEarlier(p, stored)
           same == IsPrevious(p, stored)
           conflict == ~own /\ p.err = "conflict"
       IN
       \/ own /\ Set(c, Published(p))
       \/ /\ conflict /\ adopts
          /\ Set(c, [Returned(Settle(p), "idle") EXCEPT !.prev = stored])
       \/ /\ conflict /\ ~adopts /\ same
          /\ Set(c, Returned(Unsettled(p), "idle"))
       \/ /\ (conflict /\ ~adopts /\ ~same) \/ (~own /\ p.err = "competitor")
          /\ Set(c, ToCleanup(p, "stopped"))
       \/ /\ ~own /\ p.err = "other"
          /\ Set(c, ToCleanup(Unsettled(p), "idle"))
  /\ UNCHANGED <<objs, manifest, late, commits, clock, runs>>

-----------------------------------------------------------------------------
(* cleanupOrphanGenerations *)

\* Mutant: the attempt's keys are deleted without reading the manifest.
CleanupReadSkipped(c) ==
  /\ proc[c].pc = "cleanup"
  /\ Set(c, [proc[c] EXCEPT !.pc = "delete"])
  /\ UNCHANGED <<objs, manifest, late, commits, clock, runs>>

\* The keys the committed manifest names are protected; when the manifest
\* cannot be read nothing is deleted.
CleanupRead(c) ==
  /\ proc[c].pc = "cleanup"
  /\ \E keys \in {{}, proc[c].doomed \ {Key(n, manifest) : n \in Networks}} :
       Set(c, [proc[c] EXCEPT !.pc = "delete", !.doomed = keys])
  /\ UNCHANGED <<objs, manifest, late, commits, clock, runs>>

\* One Delete; a failure is only logged.
CleanupDelete(c) ==
  /\ proc[c].pc = "delete"
  /\ \E k \in proc[c].doomed :
       /\ objs' \in {objs, Without(k)}
       /\ Set(c, [proc[c] EXCEPT !.doomed = @ \ {k}])
  /\ UNCHANGED <<manifest, late, commits, clock, runs>>

CleanupDone(c) ==
  /\ proc[c].pc = "delete" /\ proc[c].doomed = {}
  /\ Set(c, Returned(proc[c], proc[c].back))
  /\ UNCHANGED <<objs, manifest, late, commits, clock, runs>>

-----------------------------------------------------------------------------
(* pruneGenerationsForNetworks *)

\* List one network's generations; beyond Keep of them the surplus is to be
\* deleted, never the key of p.prev.  A failed List skips the network.
PruneList(c) ==
  /\ proc[c].pc = "prune" /\ Keep > 0
  /\ \E n \in proc[c].todo :
       LET p == [proc[c] EXCEPT !.todo = @ \ {n}]
           listed == {o \in objs : o.net = n} IN
       \/ /\ Cardinality(listed) > Keep
          /\ Set(c, [p EXCEPT
               !.pc = "pruneDelete",
               !.doomed = {KeyOf(o) : o \in listed} \ {Key(n, p.prev)},
               !.quota = Cardinality(listed) - Keep])
       \/ Set(c, p)
  /\ UNCHANGED <<objs, manifest, late, commits, clock, runs>>

\* Delete the oldest key left; a Delete that reports an error, applied or not,
\* moves on to the next oldest without counting.
PruneDelete(c) ==
  /\ proc[c].pc = "pruneDelete" /\ proc[c].quota > 0
  /\ \E k \in proc[c].doomed :
       LET p == [proc[c] EXCEPT !.doomed = @ \ {k}] IN
       /\ \A j \in proc[c].doomed : k.gen <= j.gen
       /\ \/ objs' = Without(k) /\ Set(c, [p EXCEPT !.quota = @ - 1])
          \/ objs' \in {objs, Without(k)} /\ Set(c, p)
  /\ UNCHANGED <<manifest, late, commits, clock, runs>>

PruneNext(c) ==
  /\ proc[c].pc = "pruneDelete"
  /\ proc[c].quota = 0 \/ proc[c].doomed = {}
  /\ Set(c, [proc[c] EXCEPT !.pc = "prune", !.doomed = {}, !.quota = 0])
  /\ UNCHANGED <<objs, manifest, late, commits, clock, runs>>

PruneDone(c) ==
  /\ proc[c].pc = "prune" /\ (proc[c].todo = {} \/ Keep = 0)
  /\ Set(c, Returned(proc[c], "idle"))
  /\ UNCHANGED <<objs, manifest, late, commits, clock, runs>>

-----------------------------------------------------------------------------
Writing(c) ==
  \/ GetVersion(c) \/ PutIfVersion(c) \/ PutIfVersionRefused(c)
  \/ PutIfVersionAmbiguous(c) \/ PutIfVersionFailed(c)
  \/ Precheck(c) \/ PutBlind(c) \/ ReadBack(c) \/ Reconcile(c)

Deleting(c) ==
  \/ CleanupRead(c) \/ CleanupDelete(c) \/ CleanupDone(c)
  \/ PruneList(c) \/ PruneDelete(c) \/ PruneNext(c) \/ PruneDone(c)

Publishing(c) ==
  \/ Admit(c) \/ Quarantine(c) \/ UploadOK(c) \/ UploadFailed(c)
  \/ Writing(c) \/ Deleting(c)

Next ==
  \/ \E c \in Crawlers : Restart(c) \/ Crash(c) \/ Publishing(c)
  \/ LateWrite

Spec == Init /\ [][Next]_vars

-----------------------------------------------------------------------------
(* Properties *)

ManifestOrNone == Manifests \cup {NoManifest}
Keys == [net: Networks, gen: Nat]

Procs ==
  [pc: Labels, run: Nat, prev: ManifestOrNone, used: BOOLEAN, pending: BOOLEAN,
   next: ManifestOrNone, expect: ManifestOrNone,
   err: {"nil", "conflict", "competitor", "other"}, back: {"idle", "stopped"},
   todo: SUBSET Networks, doomed: SUBSET Keys, quota: Nat]

\* Every variable keeps its type.
TypeOK ==
  /\ objs \in SUBSET [net: Networks, gen: Nat, sum: Nat]
  /\ IsFiniteSet(objs)
  /\ manifest \in ManifestOrNone
  /\ late \in SUBSET [cond: BOOLEAN, expect: ManifestOrNone, m: Manifests]
  /\ commits \in SUBSET Manifests
  /\ clock \in Nat /\ runs \in Nat
  /\ proc \in [Crawlers -> Procs]

\* "Write is the commit point: every referenced generation object must
\* already be stored" (snapshot.go), and stay stored with the digest the
\* manifest records: otherwise no reader can load it and no crawler restart.
ManifestBacked == manifest # NoManifest => Backed(manifest)

\* Committed generations only move forward, whoever commits, through clock
\* steps, ambiguous writes and restarts.
GenerationsAdvance ==
  [][manifest' # manifest => manifest'.gen > manifest.gen]_vars

\* WriteConditional "prevents last-writer-win corruption": the manifest that is
\* replaced is one the writer restored or committed last, one of its own run,
\* or, for a request that arrives late, the one it saw when it sent it.
NoLostCommit ==
  [][manifest' # manifest /\ manifest # NoManifest =>
       \/ manifest.run = manifest'.run
       \/ \E c \in Crawlers : c = manifest'.id /\ IsPrevious(proc[c], manifest)
       \/ \E w \in late : w.m = manifest' /\ w.expect = manifest
    ]_vars

\* "forcePending blocks further forced admits until a successful commit
\* settles it, so the one-shot override cannot be reused" (publisher.go): one
\* process start commits at most one snapshot the shrink guard had rejected.
ForcedOnce ==
  \A a, b \in commits : a.forced /\ b.forced /\ a.run = b.run => a = b
==============================================================================
