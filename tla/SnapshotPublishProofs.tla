------------------------ MODULE SnapshotPublishProofs ------------------------
(***************************************************************************)
(* Theorems about SnapshotPublish, for every set of crawlers, networks and *)
(* counts and every value of the bounds; and about the query engine that   *)
(* reads what the crawlers publish: the served table is of one generation, *)
(* and with an atomic PutIfVersion publishers and engine implement the     *)
(* feed.                                                                   *)
(***************************************************************************)
EXTENDS QueryRefresh, FiniteSetTheorems, TLAPS

\* The sentinel is not a manifest, and has generation 0.
LEMMA NoManifestFacts ==
  /\ NoManifest \notin Manifests
  /\ NoManifest.gen = 0 /\ NoManifest.run = 0
  /\ \A m \in ManifestOrNone : m.gen \in Nat /\ m.run \in Nat /\ m.sum \in Nat
  /\ \A m \in ManifestOrNone : m.forced \in BOOLEAN
  /\ \A m \in Manifests : m.gen > 0 /\ m.run > 0 /\ m.sum > 0 /\ m.id \in Crawlers
  /\ \A m \in ManifestOrNone : m # NoManifest => m \in Manifests
  <1>1. /\ NoManifest.gen = 0 /\ NoManifest.run = 0 /\ NoManifest.sum = 0
        /\ NoManifest.forced \in BOOLEAN
    BY DEF NoManifest
  <1>2. \A m \in Manifests :
          /\ m.gen \in Nat /\ m.run \in Nat /\ m.sum \in Nat
          /\ m.gen > 0 /\ m.run > 0 /\ m.sum > 0 /\ m.id \in Crawlers
    BY DEF Manifests
  <1>3. \A m \in Manifests : m.forced \in BOOLEAN
    BY DEF Manifests
  <1>4. NoManifest \notin Manifests
    BY <1>1, <1>2
  <1>5. QED
    BY <1>1, <1>2, <1>3, <1>4 DEF ManifestOrNone

LEMMA DeadType == Dead \in Procs
  BY DEF Dead, Procs, Labels, ManifestOrNone

\* The records the publisher's helpers build are publisher states.
LEMMA HelperTypes ==
  ASSUME NEW p \in Procs
  PROVE  /\ \A pc \in Labels : Returned(p, pc) \in Procs
         /\ Settle(p) \in Procs
         /\ Unsettled(p) \in Procs
         /\ Published(p) \in Procs
         /\ \A b \in {"idle", "stopped"} : ToCleanup(p, b) \in Procs
  <1>1. \A q \in Procs, pc \in Labels : Returned(q, pc) \in Procs
    BY ZenonT(60) DEF Returned, Dead, Procs, ManifestOrNone
  <1>2. Settle(p) \in Procs
    BY NoManifestFacts DEF Settle, Procs
  <1>3. Unsettled(p) \in Procs
    BY NoManifestFacts DEF Unsettled, Procs
  <1>4. Published(p) \in Procs
    <2>1. Returned(Settle(p), "prune") \in Procs
      BY <1>1, <1>2 DEF Labels
    <2>2. QED
      BY <2>1 DEF Published, Procs
  <1>5. \A b \in {"idle", "stopped"} : ToCleanup(p, b) \in Procs
    <2>1. {Key(n, p.next) : n \in Networks} \in SUBSET Keys
      BY NoManifestFacts DEF Key, Keys, Procs
    <2>2. QED
      BY <2>1 DEF ToCleanup, Procs, Labels
  <1>6. QED
    BY <1>1, <1>2, <1>3, <1>4, <1>5

\* The store's sets stay finite: Put adds one object, Delete adds none.
LEMMA StoreTypes ==
  ASSUME objs \in SUBSET [net: Networks, gen: Nat, sum: Nat], IsFiniteSet(objs)
  PROVE  /\ \A o \in [net: Networks, gen: Nat, sum: Nat] :
              /\ Stored(o) \in SUBSET [net: Networks, gen: Nat, sum: Nat]
              /\ IsFiniteSet(Stored(o))
         /\ \A k : /\ Without(k) \in SUBSET [net: Networks, gen: Nat, sum: Nat]
                   /\ IsFiniteSet(Without(k))
  <1>1. \A k : Without(k) \subseteq objs /\ IsFiniteSet(Without(k))
    BY FS_Subset DEF Without
  <1>2. \A o : Stored(o) = Without(KeyOf(o)) \cup {o}
    BY DEF Stored, Without
  <1>3. \A o : IsFiniteSet(Stored(o))
    BY <1>1, <1>2, FS_AddElement
  <1>4. QED
    BY <1>1, <1>2, <1>3

\* The manifest of an attempt is a manifest.
LEMMA BuildType ==
  ASSUME TypeOK, NEW c \in Crawlers, proc[c].run > 0,
         NEW now \in WallClock(proc[c]), NEW n \in Counts, NEW f \in BOOLEAN
  PROVE  /\ Build(c, now, n, f) \in Manifests
         /\ Build(c, now, n, f).gen > proc[c].prev.gen
         /\ Build(c, now, n, f).id = c
         /\ Build(c, now, n, f).run = proc[c].run
         /\ Build(c, now, n, f).forced = f
         /\ Build(c, now, n, f).sum = clock + 1
  <1>1. /\ now \in Nat \ {0}
        /\ proc[c].prev \in ManifestOrNone /\ proc[c].run \in Nat /\ clock \in Nat
    BY DEF TypeOK, WallClock, Procs
  <1>2. /\ GenerationTime(proc[c], now) \in Nat \ {0}
        /\ GenerationTime(proc[c], now) > proc[c].prev.gen
    BY <1>1, NoManifestFacts DEF GenerationTime
  <1>3. QED
    BY <1>1, <1>2 DEF Build, Manifests

-----------------------------------------------------------------------------
(* Type correctness *)

\* What a process knows about the publish under way.  The expected version is
\* older than the manifest that would replace it, and is one that
\* WriteConditional may replace.
Active == {"upload", "getVersion", "put", "precheck", "putBlind", "readBack",
           "reconcile", "cleanup", "delete"}

PublishOK(c, p) ==
  /\ p.pc # "down" => p.run > 0
  /\ p.pc \in Active =>
       /\ p.next \in Manifests /\ p.next.id = c
       /\ p.next.gen > p.prev.gen
  /\ p.pc \in {"precheck", "putBlind", "readBack"} => Verified
  /\ p.pc = "put" =>
       /\ p.next.gen > p.expect.gen
       /\ \/ p.expect = NoManifest
          \/ p.expect.run = p.next.run
          \/ IsPrevious(p, p.expect)

RunningOK == \A c \in Crawlers : PublishOK(c, proc[c])

\* Setting one crawler's state to a publisher state keeps the types.
LEMMA SetType ==
  ASSUME proc \in [Crawlers -> Procs], NEW c \in Crawlers, NEW p \in Procs,
         Set(c, p)
  PROVE  proc' \in [Crawlers -> Procs]
  BY DEF Set

LEMMA FailedType ==
  ASSUME proc \in [Crawlers -> Procs], NEW c \in Crawlers,
         \E e \in {"conflict", "competitor", "other"} : Failed(c, e)
  PROVE  proc' \in [Crawlers -> Procs]
  <1>1. \A e \in {"conflict", "competitor", "other"} :
          [proc[c] EXCEPT !.pc = "reconcile", !.err = e] \in Procs
    <2>1. proc[c] \in Procs /\ "reconcile" \in Labels
      BY DEF Labels
    <2>2. QED
      BY <2>1 DEF Procs
  <1>2. PICK e \in {"conflict", "competitor", "other"} :
          Set(c, [proc[c] EXCEPT !.pc = "reconcile", !.err = e])
    BY DEF Failed
  <1>3. QED
    BY <1>1, <1>2, SetType

\* Delayed writes carry the manifest of the publish that lost them.
LEMMA DelayedType ==
  ASSUME late \in SUBSET [cond: BOOLEAN, expect: ManifestOrNone, m: Manifests],
         NEW p \in Procs, p.next \in Manifests, NEW cond \in BOOLEAN,
         NEW l \in Delayed(p, cond)
  PROVE  l \in SUBSET [cond: BOOLEAN, expect: ManifestOrNone, m: Manifests]
  <1>1. [cond |-> cond, expect |-> p.expect, m |-> p.next]
          \in [cond: BOOLEAN, expect: ManifestOrNone, m: Manifests]
    BY DEF Procs
  <1>2. QED
    BY <1>1 DEF Delayed

\* The five outcomes of Reconcile.
LEMMA ReconcileCases ==
  ASSUME NEW c \in Crawlers, Reconcile(c)
  PROVE  \E stored \in {manifest, NoManifest} :
           \/ StoredIsOwn(proc[c], stored) /\ Set(c, Published(proc[c]))
           \/ /\ AdoptsEarlier(proc[c], stored)
              /\ Set(c, [Returned(Settle(proc[c]), "idle") EXCEPT
                           !.prev = stored])
           \/ Set(c, Returned(Unsettled(proc[c]), "idle"))
           \/ Set(c, ToCleanup(proc[c], "stopped"))
           \/ Set(c, ToCleanup(Unsettled(proc[c]), "idle"))
  BY DEF Reconcile

LEMMA ReconcileType ==
  ASSUME proc \in [Crawlers -> Procs], manifest \in ManifestOrNone,
         NEW c \in Crawlers, Reconcile(c)
  PROVE  proc' \in [Crawlers -> Procs]
  <1>1. proc[c] \in Procs /\ "idle" \in Labels
    BY DEF Labels
  <1>2. \A stored \in {manifest, NoManifest} :
          [Returned(Settle(proc[c]), "idle") EXCEPT !.prev = stored] \in Procs
    <2>1. Returned(Settle(proc[c]), "idle") \in Procs
      BY <1>1, HelperTypes
    <2>2. \A stored \in {manifest, NoManifest} : stored \in ManifestOrNone
      BY DEF ManifestOrNone
    <2>3. QED
      BY <2>1, <2>2 DEF Procs
  <1>3. /\ Published(proc[c]) \in Procs
        /\ Returned(Unsettled(proc[c]), "idle") \in Procs
        /\ ToCleanup(proc[c], "stopped") \in Procs
        /\ ToCleanup(Unsettled(proc[c]), "idle") \in Procs
    BY <1>1, HelperTypes
  <1>4. QED
    BY <1>2, <1>3, ReconcileCases, SetType

LEMMA TypeInit == Init => TypeOK /\ RunningOK
  <1> SUFFICES ASSUME Init PROVE TypeOK /\ RunningOK
    OBVIOUS
  <1>1. TypeOK
    BY DeadType, FS_EmptySet DEF Init, TypeOK, ManifestOrNone
  <1>2. RunningOK
    BY DEF Init, RunningOK, PublishOK, Active, Dead
  <1>3. QED
    BY <1>1, <1>2

LEMMA TypeNext == TypeOK /\ RunningOK /\ [Next]_vars => TypeOK'
  <1> SUFFICES ASSUME TypeOK, RunningOK, [Next]_vars PROVE TypeOK'
    OBVIOUS
  <1> USE DEF TypeOK
  <1>a. \A c \in Crawlers : proc[c] \in Procs
    OBVIOUS
  <1>1. ASSUME NEW c \in Crawlers, Restart(c) PROVE TypeOK'
    <2>1. [Dead EXCEPT !.pc = "prune", !.run = runs + 1, !.prev = manifest,
                       !.todo = Networks] \in Procs
      <3>1. runs + 1 \in Nat /\ manifest \in ManifestOrNone /\ "prune" \in Labels
        BY DEF Labels
      <3>2. QED
        <4> HIDE DEF TypeOK
        <4>1. QED
          BY <3>1 DEF Procs, Dead, ManifestOrNone
    <2>2. QED
      BY <1>1, <2>1, SetType DEF Restart
  <1>2. ASSUME NEW c \in Crawlers, Crash(c) PROVE TypeOK'
    BY <1>2, DeadType, SetType DEF Crash
  <1>3. ASSUME NEW c \in Crawlers, Admit(c) PROVE TypeOK'
    <2>1. PICK now \in WallClock(proc[c]), n \in Counts, f \in BOOLEAN :
            Set(c, [proc[c] EXCEPT !.pc = "upload",
                      !.next = Build(c, now, n, f), !.todo = Networks])
      BY <1>3 DEF Admit
    <2>2. Build(c, now, n, f) \in Manifests
      BY <1>3, BuildType DEF Admit, RunningOK, PublishOK, Active
    <2>3. [proc[c] EXCEPT !.pc = "upload", !.next = Build(c, now, n, f),
                          !.todo = Networks] \in Procs
      <3> DEFINE m == Build(c, now, n, f)
      <3>1. m \in ManifestOrNone /\ "upload" \in Labels /\ proc[c] \in Procs
        BY <1>a, <2>2 DEF Labels, ManifestOrNone
      <3> HIDE DEF m, TypeOK
      <3>2. [proc[c] EXCEPT !.pc = "upload", !.next = m, !.todo = Networks]
              \in Procs
        BY <3>1 DEF Procs
      <3>3. QED
        BY <3>2 DEF m
    <2>4. proc' \in [Crawlers -> Procs]
      BY <2>1, <2>3, SetType
    <2>5. QED
      BY <1>3, <2>4 DEF Admit
  <1>4. ASSUME NEW c \in Crawlers, Quarantine(c) PROVE TypeOK'
    BY <1>4 DEF Quarantine
  <1>5. ASSUME NEW c \in Crawlers, UploadOK(c) PROVE TypeOK'
    <2>1. PICK n \in proc[c].todo :
            /\ objs' = Stored(Obj(n, proc[c].next))
            /\ Set(c, [proc[c] EXCEPT !.todo = proc[c].todo \ {n},
                 !.pc = IF proc[c].todo \ {n} = {} THEN "getVersion"
                                                  ELSE "upload"])
      BY <1>5 DEF UploadOK
    <2>2. Obj(n, proc[c].next) \in [net: Networks, gen: Nat, sum: Nat]
      BY <1>a, NoManifestFacts DEF Obj, Procs
    <2>3. proc' \in [Crawlers -> Procs]
      BY <1>a, <2>1, SetType, ZenonT(60) DEF Procs, Labels
    <2>4. QED
      BY <1>5, <2>1, <2>2, <2>3, StoreTypes DEF UploadOK
  <1>6. ASSUME NEW c \in Crawlers, UploadFailed(c) PROVE TypeOK'
    <2>1. PICK n \in proc[c].todo :
            /\ objs' \in {objs, Stored(Obj(n, proc[c].next))}
            /\ Set(c, [proc[c] EXCEPT !.pc = "cleanup", !.back = "idle",
                 !.doomed = {Key(k, proc[c].next) :
                               k \in (Networks \ proc[c].todo) \cup {n}}])
      BY <1>6 DEF UploadFailed
    <2>2. Obj(n, proc[c].next) \in [net: Networks, gen: Nat, sum: Nat]
      BY <1>a, NoManifestFacts DEF Obj, Procs
    <2>3. {Key(k, proc[c].next) : k \in (Networks \ proc[c].todo) \cup {n}}
            \in SUBSET Keys
      BY <1>a, NoManifestFacts DEF Key, Keys, Procs
    <2>4. proc' \in [Crawlers -> Procs]
      <3> DEFINE keys == {Key(k, proc[c].next) :
                            k \in (Networks \ proc[c].todo) \cup {n}}
      <3>1. keys \in SUBSET Keys /\ "cleanup" \in Labels /\ proc[c] \in Procs
        BY <1>a, <2>3 DEF Labels
      <3>2. Set(c, [proc[c] EXCEPT !.pc = "cleanup", !.back = "idle",
                                   !.doomed = keys])
        BY <2>1
      <3> HIDE DEF keys
      <3>3. [proc[c] EXCEPT !.pc = "cleanup", !.back = "idle", !.doomed = keys]
              \in Procs
        BY <3>1 DEF Procs
      <3>4. QED
        BY <3>2, <3>3, SetType
    <2>5. QED
      BY <1>6, <2>1, <2>2, <2>4, StoreTypes DEF UploadFailed
  <1>7. ASSUME NEW c \in Crawlers, GetVersion(c) PROVE TypeOK'
    <2>1. proc' \in [Crawlers -> Procs]
      <3>1. \A l \in {"put", "precheck"} :
              [proc[c] EXCEPT !.pc = l, !.expect = manifest] \in Procs
        <4>1. \A l \in {"put", "precheck"} : l \in Labels
          BY DEF Labels
        <4>2. proc[c] \in Procs /\ manifest \in ManifestOrNone
          BY <1>a
        <4> HIDE DEF TypeOK
        <4>3. QED
          BY <4>1, <4>2 DEF Procs
      <3>2. \/ \E l \in {"put", "precheck"} :
                 Set(c, [proc[c] EXCEPT !.pc = l, !.expect = manifest])
            \/ \E e \in {"conflict", "competitor", "other"} : Failed(c, e)
        BY <1>7 DEF GetVersion
      <3>3. CASE \E e \in {"conflict", "competitor", "other"} : Failed(c, e)
        BY <3>3, FailedType
      <3>4. CASE \E l \in {"put", "precheck"} :
                   Set(c, [proc[c] EXCEPT !.pc = l, !.expect = manifest])
        BY <3>1, <3>4, SetType
      <3>5. QED
        BY <3>2, <3>3, <3>4
    <2>2. QED
      BY <1>7, <2>1 DEF GetVersion
  <1>8. ASSUME NEW c \in Crawlers, PutIfVersion(c) PROVE TypeOK'
    <2>1. proc' \in [Crawlers -> Procs]
      BY <1>a, <1>8, HelperTypes, SetType DEF PutIfVersion
    <2>2. proc[c].next \in Manifests
      BY <1>8 DEF PutIfVersion, RunningOK, PublishOK, Active
    <2>3. QED
      BY <1>8, <2>1, <2>2 DEF PutIfVersion, Commit, ManifestOrNone
  <1>9. ASSUME NEW c \in Crawlers, PutIfVersionRefused(c) PROVE TypeOK'
    <2>1. proc' \in [Crawlers -> Procs]
      BY <1>a, <1>9, FailedType DEF PutIfVersionRefused
    <2>2. QED
      BY <1>9, <2>1 DEF PutIfVersionRefused
  <1>10. ASSUME NEW c \in Crawlers, PutIfVersionAmbiguous(c) PROVE TypeOK'
    <2>1. proc' \in [Crawlers -> Procs]
      BY <1>a, <1>10, FailedType DEF PutIfVersionAmbiguous
    <2>2. proc[c].next \in Manifests
      BY <1>10 DEF PutIfVersionAmbiguous, RunningOK, PublishOK, Active
    <2>3. QED
      BY <1>10, <2>1, <2>2 DEF PutIfVersionAmbiguous, Commit, ManifestOrNone
  <1>11. ASSUME NEW c \in Crawlers, PutIfVersionFailed(c) PROVE TypeOK'
    <2>1. proc' \in [Crawlers -> Procs]
      BY <1>a, <1>11, FailedType DEF PutIfVersionFailed
    <2>2. proc[c].next \in Manifests
      BY <1>11 DEF PutIfVersionFailed, RunningOK, PublishOK, Active
    <2>3. late' \in SUBSET [cond: BOOLEAN, expect: ManifestOrNone, m: Manifests]
      BY <1>11, <2>2, <1>a, DelayedType DEF PutIfVersionFailed
    <2>4. QED
      BY <1>11, <2>1, <2>3 DEF PutIfVersionFailed
  <1>12. ASSUME NEW c \in Crawlers, Precheck(c) PROVE TypeOK'
    <2>1. proc' \in [Crawlers -> Procs]
      BY <1>a, <1>12, SetType, FailedType DEF Precheck, Procs, Labels
    <2>2. QED
      BY <1>12, <2>1 DEF Precheck
  <1>13. ASSUME NEW c \in Crawlers, PutBlind(c) PROVE TypeOK'
    <2>1. proc' \in [Crawlers -> Procs]
      BY <1>a, <1>13, SetType, FailedType DEF PutBlind, Procs, Labels
    <2>2. proc[c].next \in Manifests
      BY <1>13 DEF PutBlind, RunningOK, PublishOK, Active
    <2>3. late' \in SUBSET [cond: BOOLEAN, expect: ManifestOrNone, m: Manifests]
      BY <1>13, <2>2, <1>a, DelayedType DEF PutBlind
    <2>4. QED
      BY <1>13, <2>1, <2>2, <2>3 DEF PutBlind, Commit, ManifestOrNone
  <1>14. ASSUME NEW c \in Crawlers, ReadBack(c) PROVE TypeOK'
    <2>1. proc' \in [Crawlers -> Procs]
      BY <1>a, <1>14, HelperTypes, SetType, FailedType DEF ReadBack
    <2>2. QED
      BY <1>14, <2>1 DEF ReadBack
  <1>15. ASSUME NEW c \in Crawlers, Reconcile(c) PROVE TypeOK'
    <2>1. proc' \in [Crawlers -> Procs]
      BY <1>a, <1>15, ReconcileType
    <2>2. QED
      BY <1>15, <2>1 DEF Reconcile
  <1>16. ASSUME NEW c \in Crawlers, CleanupRead(c) PROVE TypeOK'
    <2>1. proc' \in [Crawlers -> Procs]
      BY <1>a, <1>16, SetType DEF CleanupRead, Procs, Labels
    <2>2. QED
      BY <1>16, <2>1 DEF CleanupRead
  <1>17. ASSUME NEW c \in Crawlers, CleanupDelete(c) PROVE TypeOK'
    <2>1. proc' \in [Crawlers -> Procs]
      BY <1>a, <1>17, SetType, ZenonT(60) DEF CleanupDelete, Procs
    <2>2. QED
      BY <1>17, <2>1, StoreTypes DEF CleanupDelete
  <1>18. ASSUME NEW c \in Crawlers, CleanupDone(c) PROVE TypeOK'
    <2>1. proc[c].back \in Labels
      BY <1>a DEF Procs, Labels
    <2>2. proc' \in [Crawlers -> Procs]
      BY <1>a, <1>18, <2>1, HelperTypes, SetType DEF CleanupDone
    <2>3. QED
      BY <1>18, <2>2 DEF CleanupDone
  <1>19. ASSUME NEW c \in Crawlers, PruneList(c) PROVE TypeOK'
    <2>1. PICK n \in proc[c].todo :
            LET p == [proc[c] EXCEPT !.todo = @ \ {n}]
                listed == {o \in objs : o.net = n} IN
            \/ /\ Cardinality(listed) > Keep
               /\ Set(c, [p EXCEPT !.pc = "pruneDelete",
                    !.doomed = {KeyOf(o) : o \in listed} \ {Key(n, p.prev)},
                    !.quota = Cardinality(listed) - Keep])
            \/ Set(c, p)
      BY <1>19 DEF PruneList
    <2> DEFINE p == [proc[c] EXCEPT !.todo = @ \ {n}]
               listed == {o \in objs : o.net = n}
               keys == {KeyOf(o) : o \in listed} \ {Key(n, p.prev)}
    <2>2. p \in Procs
      BY <1>a DEF Procs
    <2>3. Cardinality(listed) \in Nat
      BY FS_Subset, FS_CardinalityType
    <2>4. keys \in SUBSET Keys
      BY DEF Keys, KeyOf
    <2>5. Keep \in Nat
      BY ConstantsAssumption
    <2>6. proc' \in [Crawlers -> Procs]
      <3>1. CASE Set(c, p)
        BY <2>2, <3>1, SetType
      <3>2. CASE /\ Cardinality(listed) > Keep
                 /\ Set(c, [p EXCEPT !.pc = "pruneDelete", !.doomed = keys,
                                     !.quota = Cardinality(listed) - Keep])
        <4> HIDE DEF listed, keys, p
        <4>1. [p EXCEPT !.pc = "pruneDelete", !.doomed = keys,
                        !.quota = Cardinality(listed) - Keep] \in Procs
          <5> DEFINE q == Cardinality(listed) - Keep
          <5>1. q \in Nat /\ "pruneDelete" \in Labels
            BY <2>3, <2>5, <3>2 DEF Labels
          <5> HIDE DEF q, TypeOK
          <5>2. [p EXCEPT !.pc = "pruneDelete", !.doomed = keys, !.quota = q]
                  \in Procs
            BY <2>2, <2>4, <5>1 DEF Procs
          <5>3. QED
            BY <5>2 DEF q
        <4>2. QED
          BY <3>2, <4>1, SetType
      <3>3. QED
        BY <2>1, <3>1, <3>2
    <2>7. QED
      BY <1>19, <2>6 DEF PruneList
  <1>20. ASSUME NEW c \in Crawlers, PruneDelete(c) PROVE TypeOK'
    <2>1. proc' \in [Crawlers -> Procs]
      <3>1. PICK k \in proc[c].doomed :
              LET p == [proc[c] EXCEPT !.doomed = @ \ {k}] IN
              Set(c, [p EXCEPT !.quota = @ - 1]) \/ Set(c, p)
        BY <1>20 DEF PruneDelete
      <3> DEFINE p == [proc[c] EXCEPT !.doomed = @ \ {k}]
      <3>2. p \in Procs /\ p.quota = proc[c].quota
        BY <1>a DEF Procs
      <3>3. p.quota - 1 \in Nat
        BY <1>a, <1>20, <3>2 DEF PruneDelete, Procs
      <3> HIDE DEF p
      <3>4. [p EXCEPT !.quota = @ - 1] \in Procs
        BY <3>2, <3>3 DEF Procs
      <3>5. Set(c, [p EXCEPT !.quota = @ - 1]) \/ Set(c, p)
        BY <3>1 DEF p
      <3>6. QED
        BY <3>2, <3>4, <3>5, SetType
    <2>2. QED
      BY <1>20, <2>1, StoreTypes DEF PruneDelete
  <1>21. ASSUME NEW c \in Crawlers, PruneNext(c) PROVE TypeOK'
    <2>1. proc' \in [Crawlers -> Procs]
      <3>1. [proc[c] EXCEPT !.pc = "prune", !.doomed = {}, !.quota = 0] \in Procs
        <4>1. ASSUME NEW l \in Labels, NEW keys \in SUBSET Keys, NEW q \in Nat
              PROVE  [proc[c] EXCEPT !.pc = l, !.doomed = keys, !.quota = q] \in Procs
          BY <1>a DEF Procs
        <4>2. {} \in SUBSET Keys /\ 0 \in Nat /\ "prune" \in Labels
          BY DEF Labels
        <4>3. QED
          BY <4>1, <4>2
      <3>2. QED
        BY <1>21, <3>1, SetType DEF PruneNext
    <2>2. QED
      BY <1>21, <2>1 DEF PruneNext
  <1>22. ASSUME NEW c \in Crawlers, PruneDone(c) PROVE TypeOK'
    <2>1. proc' \in [Crawlers -> Procs]
      BY <1>a, <1>22, HelperTypes, SetType DEF PruneDone, Labels
    <2>2. QED
      BY <1>22, <2>1 DEF PruneDone
  <1>23. ASSUME LateWrite PROVE TypeOK'
    BY <1>23 DEF LateWrite, Commit, ManifestOrNone
  <1>24. CASE UNCHANGED vars
    BY <1>24 DEF vars
  <1>25. QED
    BY <1>1, <1>2, <1>3, <1>4, <1>5, <1>6, <1>7, <1>8, <1>9, <1>10, <1>11,
       <1>12, <1>13, <1>14, <1>15, <1>16, <1>17, <1>18, <1>19, <1>20, <1>21,
       <1>22, <1>23, <1>24 DEF Next, Publishing, Writing, Deleting

-----------------------------------------------------------------------------
(* Generations advance *)

\* Only the crawler that takes a step changes its own state.
LEMMA SetRunning ==
  ASSUME proc \in [Crawlers -> Procs], RunningOK, NEW c \in Crawlers,
         NEW p, PublishOK(c, p), Set(c, p)
  PROVE  RunningOK'
  <1>1. \A d \in Crawlers : proc'[d] = IF d = c THEN p ELSE proc[d]
    BY DEF Set
  <1>2. \A d \in Crawlers : PublishOK(d, proc'[d])
    BY <1>1 DEF RunningOK
  <1>3. QED
    BY <1>2 DEF RunningOK

\* An error, a return and the clean-up keep what is known.
LEMMA HelpersRunning ==
  ASSUME NEW c \in Crawlers, NEW p \in Procs, PublishOK(c, p), p.pc \in Active
  PROVE  /\ \A e : PublishOK(c, [p EXCEPT !.pc = "reconcile", !.err = e])
         /\ \A pc \in {"idle", "stopped", "prune"} : PublishOK(c, Returned(p, pc))
         /\ PublishOK(c, Published(p))
         /\ \A m : PublishOK(c, [Returned(Settle(p), "idle") EXCEPT !.prev = m])
         /\ PublishOK(c, Returned(Unsettled(p), "idle"))
         /\ PublishOK(c, ToCleanup(p, "stopped"))
         /\ PublishOK(c, ToCleanup(Unsettled(p), "idle"))
  <1> USE DEF PublishOK, Active, Procs
  <1>1. \A e : PublishOK(c, [p EXCEPT !.pc = "reconcile", !.err = e])
    OBVIOUS
  <1>2. \A pc \in {"idle", "stopped", "prune"} : PublishOK(c, Returned(p, pc))
    BY DEF Returned, Dead
  <1>3. PublishOK(c, Published(p))
    BY DEF Published, Returned, Dead, Settle
  <1>4. \A m : PublishOK(c, [Returned(Settle(p), "idle") EXCEPT !.prev = m])
    BY DEF Returned, Dead, Settle
  <1>5. PublishOK(c, Returned(Unsettled(p), "idle"))
    BY DEF Returned, Dead, Unsettled
  <1>6. PublishOK(c, ToCleanup(p, "stopped"))
    BY DEF ToCleanup
  <1>7. PublishOK(c, ToCleanup(Unsettled(p), "idle"))
    BY DEF ToCleanup, Unsettled
  <1>8. QED
    BY <1>1, <1>2, <1>3, <1>4, <1>5, <1>6, <1>7

LEMMA FailedRunning ==
  ASSUME TypeOK, RunningOK, NEW c \in Crawlers, proc[c].pc \in Active,
         NEW e, Failed(c, e)
  PROVE  RunningOK'
  <1>1. proc \in [Crawlers -> Procs] /\ proc[c] \in Procs
    BY DEF TypeOK
  <1>2. PublishOK(c, proc[c])
    BY DEF RunningOK
  <1>3. PublishOK(c, [proc[c] EXCEPT !.pc = "reconcile", !.err = e])
    BY <1>1, <1>2, HelpersRunning
  <1>4. QED
    BY <1>1, <1>3, SetRunning DEF Failed

LEMMA RunningNext == TypeOK /\ RunningOK /\ [Next]_vars => RunningOK'
  <1> SUFFICES ASSUME TypeOK, RunningOK, [Next]_vars PROVE RunningOK'
    OBVIOUS
  <1>a. proc \in [Crawlers -> Procs] /\ \A c \in Crawlers : proc[c] \in Procs
    BY DEF TypeOK
  <1>b. \A c \in Crawlers : PublishOK(c, proc[c])
    BY DEF RunningOK
  <1>1. ASSUME NEW c \in Crawlers, Restart(c) PROVE RunningOK'
    <2>1. runs + 1 > 0
      BY DEF TypeOK
    <2>2. PublishOK(c, [Dead EXCEPT !.pc = "prune", !.run = runs + 1,
                                    !.prev = manifest, !.todo = Networks])
      BY <2>1 DEF PublishOK, Dead, Active
    <2>3. QED
      BY <1>a, <1>1, <2>2, SetRunning DEF Restart
  <1>2. ASSUME NEW c \in Crawlers, Crash(c) PROVE RunningOK'
    <2>1. PublishOK(c, Dead)
      BY DEF PublishOK, Dead, Active
    <2>2. QED
      BY <1>a, <1>2, <2>1, SetRunning DEF Crash
  <1>3. ASSUME NEW c \in Crawlers, Admit(c) PROVE RunningOK'
    <2>1. PICK now \in WallClock(proc[c]), n \in Counts, f \in BOOLEAN :
            Set(c, [proc[c] EXCEPT !.pc = "upload",
                      !.next = Build(c, now, n, f), !.todo = Networks])
      BY <1>3 DEF Admit
    <2> DEFINE m == Build(c, now, n, f)
    <2>2. proc[c].pc # "down" /\ proc[c].run > 0
      BY <1>3, <1>b DEF Admit, PublishOK
    <2>3. m \in Manifests /\ m.id = c /\ m.gen > proc[c].prev.gen
      BY <2>2, BuildType
    <2> HIDE DEF m
    <2>4. PublishOK(c, [proc[c] EXCEPT !.pc = "upload", !.next = m,
                                       !.todo = Networks])
      BY <1>a, <2>2, <2>3 DEF PublishOK, Procs
    <2>5. QED
      BY <1>a, <2>1, <2>4, SetRunning DEF m
  <1>4. ASSUME NEW c \in Crawlers, Quarantine(c) PROVE RunningOK'
    BY <1>4 DEF Quarantine, RunningOK
  <1>5. ASSUME NEW c \in Crawlers, UploadOK(c) PROVE RunningOK'
    <2>1. PICK n \in proc[c].todo :
            Set(c, [proc[c] EXCEPT !.todo = proc[c].todo \ {n},
                 !.pc = IF proc[c].todo \ {n} = {} THEN "getVersion"
                                                  ELSE "upload"])
      BY <1>5 DEF UploadOK
    <2>2. \A t : \A pc \in {"getVersion", "upload"} :
            PublishOK(c, [proc[c] EXCEPT !.todo = t, !.pc = pc])
      BY <1>a, <1>b, <1>5 DEF UploadOK, PublishOK, Active, Procs
    <2>3. QED
      BY <1>a, <2>1, <2>2, SetRunning
  <1>6. ASSUME NEW c \in Crawlers, UploadFailed(c) PROVE RunningOK'
    <2>1. PICK keys : Set(c, [proc[c] EXCEPT !.pc = "cleanup", !.back = "idle",
                                             !.doomed = keys])
      BY <1>6 DEF UploadFailed
    <2>2. PublishOK(c, [proc[c] EXCEPT !.pc = "cleanup", !.back = "idle",
                                       !.doomed = keys])
      BY <1>a, <1>b, <1>6 DEF UploadFailed, PublishOK, Active, Procs
    <2>3. QED
      BY <1>a, <2>1, <2>2, SetRunning
  <1>7. ASSUME NEW c \in Crawlers, GetVersion(c) PROVE RunningOK'
    <2>1. CASE \E e : Failed(c, e)
      BY <1>7, <2>1, FailedRunning DEF GetVersion, Active
    <2>2. CASE /\ MayReplace(proc[c])
               /\ Set(c, [proc[c] EXCEPT
                    !.pc = IF Verified THEN "precheck" ELSE "put",
                    !.expect = manifest])
      <3>1. /\ proc[c].next \in Manifests /\ proc[c].next.id = c
            /\ proc[c].next.gen > proc[c].prev.gen /\ proc[c].run > 0
        BY <1>7, <1>b DEF GetVersion, PublishOK, Active
      <3>2. /\ proc[c].next.gen > manifest.gen
            /\ \/ manifest = NoManifest
               \/ manifest.run = proc[c].next.run
               \/ IsPrevious(proc[c], manifest)
        BY <2>2, <3>1, NoManifestFacts DEF MayReplace, OwnWrite, IsPrevious
      <3>3. CASE Verified
        <4>1. PublishOK(c, [proc[c] EXCEPT !.pc = "precheck",
                                           !.expect = manifest])
          BY <1>a, <3>1, <3>3 DEF PublishOK, Procs
        <4>2. QED
          BY <1>a, <2>2, <3>3, <4>1, SetRunning
      <3>4. CASE ~Verified
        <4> DEFINE q == [proc[c] EXCEPT !.pc = "put", !.expect = manifest]
        <4>1. /\ q.pc = "put" /\ q.run = proc[c].run /\ q.prev = proc[c].prev
              /\ q.next = proc[c].next /\ q.expect = manifest
          BY <1>a DEF Procs
        <4>2. IsPrevious(proc[c], manifest) => IsPrevious(q, manifest)
          BY <4>1 DEF IsPrevious
        <4> HIDE DEF q
        <4>3. PublishOK(c, q)
          BY <3>1, <3>2, <4>1, <4>2 DEF PublishOK
        <4>4. QED
          BY <1>a, <2>2, <3>4, <4>3, SetRunning DEF q
      <3>5. QED
        BY <3>3, <3>4
    <2>3. QED
      BY <1>7, <2>1, <2>2 DEF GetVersion
  <1>8. ASSUME NEW c \in Crawlers, PutIfVersion(c) PROVE RunningOK'
    BY <1>a, <1>b, <1>8, HelpersRunning, SetRunning DEF PutIfVersion, Active
  <1>9. ASSUME NEW c \in Crawlers, PutIfVersionRefused(c) PROVE RunningOK'
    BY <1>9, FailedRunning DEF PutIfVersionRefused, Active
  <1>10. ASSUME NEW c \in Crawlers, PutIfVersionAmbiguous(c) PROVE RunningOK'
    BY <1>10, FailedRunning DEF PutIfVersionAmbiguous, Active
  <1>11. ASSUME NEW c \in Crawlers, PutIfVersionFailed(c) PROVE RunningOK'
    BY <1>11, FailedRunning DEF PutIfVersionFailed, Active
  <1>12. ASSUME NEW c \in Crawlers, Precheck(c) PROVE RunningOK'
    <2>1. PublishOK(c, [proc[c] EXCEPT !.pc = "putBlind"])
      BY <1>a, <1>b, <1>12 DEF Precheck, PublishOK, Active, Procs
    <2>2. QED
      BY <1>a, <1>12, <2>1, SetRunning, FailedRunning DEF Precheck, Active
  <1>13. ASSUME NEW c \in Crawlers, PutBlind(c) PROVE RunningOK'
    <2>1. PublishOK(c, [proc[c] EXCEPT !.pc = "readBack"])
      BY <1>a, <1>b, <1>13 DEF PutBlind, PublishOK, Active, Procs
    <2>2. QED
      BY <1>a, <1>13, <2>1, SetRunning, FailedRunning DEF PutBlind, Active
  <1>14. ASSUME NEW c \in Crawlers, ReadBack(c) PROVE RunningOK'
    BY <1>a, <1>b, <1>14, HelpersRunning, SetRunning, FailedRunning
       DEF ReadBack, Active
  <1>15. ASSUME NEW c \in Crawlers, Reconcile(c) PROVE RunningOK'
    <2>1. proc[c].pc \in Active
      BY <1>15 DEF Reconcile, Active
    <2>2. QED
      BY <1>a, <1>b, <1>15, <2>1, ReconcileCases, HelpersRunning, SetRunning
  <1>16. ASSUME NEW c \in Crawlers, CleanupRead(c) PROVE RunningOK'
    <2>1. \A keys : PublishOK(c, [proc[c] EXCEPT !.pc = "delete", !.doomed = keys])
      BY <1>a, <1>b, <1>16 DEF CleanupRead, PublishOK, Active, Procs
    <2>2. QED
      BY <1>a, <1>16, <2>1, SetRunning DEF CleanupRead
  <1>17. ASSUME NEW c \in Crawlers, CleanupDelete(c) PROVE RunningOK'
    <2>1. \A keys : PublishOK(c, [proc[c] EXCEPT !.doomed = keys])
      BY <1>a, <1>b, <1>17 DEF CleanupDelete, PublishOK, Active, Procs
    <2>2. \E keys : Set(c, [proc[c] EXCEPT !.doomed = keys])
      BY <1>17 DEF CleanupDelete
    <2>3. QED
      BY <1>a, <2>1, <2>2, SetRunning
  <1>18. ASSUME NEW c \in Crawlers, CleanupDone(c) PROVE RunningOK'
    <2>1. proc[c].back \in {"idle", "stopped"} /\ proc[c].pc \in Active
      BY <1>a, <1>18 DEF CleanupDone, Procs, Active
    <2>2. QED
      BY <1>a, <1>b, <1>18, <2>1, HelpersRunning, SetRunning DEF CleanupDone
  <1>19. ASSUME NEW c \in Crawlers, PruneList(c) PROVE RunningOK'
    <2>1. PICK n, keys, q :
            LET p == [proc[c] EXCEPT !.todo = @ \ {n}] IN
            \/ Set(c, [p EXCEPT !.pc = "pruneDelete", !.doomed = keys, !.quota = q])
            \/ Set(c, p)
      BY <1>19 DEF PruneList
    <2> DEFINE p == [proc[c] EXCEPT !.todo = @ \ {n}]
               r == [p EXCEPT !.pc = "pruneDelete", !.doomed = keys, !.quota = q]
    <2>2. p.pc = "prune" /\ p.run = proc[c].run
      BY <1>a, <1>19 DEF PruneList, Procs
    <2>3. r.pc = "pruneDelete" /\ r.run = proc[c].run
      BY <1>a DEF Procs
    <2>4. Set(c, p) \/ Set(c, r)
      BY <2>1
    <2>5. proc[c].run > 0
      BY <1>b, <1>19 DEF PruneList, PublishOK
    <2> HIDE DEF p, r
    <2>6. PublishOK(c, p) /\ PublishOK(c, r)
      BY <2>2, <2>3, <2>5 DEF PublishOK, Active
    <2>7. QED
      BY <1>a, <2>4, <2>6, SetRunning
  <1>20. ASSUME NEW c \in Crawlers, PruneDelete(c) PROVE RunningOK'
    <2>1. PICK k :
            LET p == [proc[c] EXCEPT !.doomed = @ \ {k}] IN
            Set(c, [p EXCEPT !.quota = @ - 1]) \/ Set(c, p)
      BY <1>20 DEF PruneDelete
    <2> DEFINE p == [proc[c] EXCEPT !.doomed = @ \ {k}]
               r == [p EXCEPT !.quota = @ - 1]
    <2>2. /\ p.pc = "pruneDelete" /\ p.run = proc[c].run
          /\ r.pc = "pruneDelete" /\ r.run = proc[c].run
      BY <1>a, <1>20 DEF PruneDelete, Procs
    <2>3. Set(c, p) \/ Set(c, r)
      BY <2>1
    <2>4. proc[c].run > 0
      BY <1>b, <1>20 DEF PruneDelete, PublishOK
    <2> HIDE DEF p, r
    <2>5. PublishOK(c, p) /\ PublishOK(c, r)
      BY <2>2, <2>4 DEF PublishOK, Active
    <2>6. QED
      BY <1>a, <2>3, <2>5, SetRunning
  <1>21. ASSUME NEW c \in Crawlers, PruneNext(c) PROVE RunningOK'
    <2>1. PublishOK(c, [proc[c] EXCEPT !.pc = "prune", !.doomed = {}, !.quota = 0])
      BY <1>a, <1>b, <1>21 DEF PruneNext, PublishOK, Active, Procs
    <2>2. QED
      BY <1>a, <1>21, <2>1, SetRunning DEF PruneNext
  <1>22. ASSUME NEW c \in Crawlers, PruneDone(c) PROVE RunningOK'
    <2>1. PublishOK(c, Returned(proc[c], "idle"))
      BY <1>a, <1>b, <1>22 DEF PruneDone, PublishOK, Active, Returned, Dead, Procs
    <2>2. QED
      BY <1>a, <1>22, <2>1, SetRunning DEF PruneDone
  <1>23. CASE LateWrite \/ UNCHANGED vars
    BY <1>23 DEF LateWrite, vars, RunningOK
  <1>24. QED
    BY <1>1, <1>2, <1>3, <1>4, <1>5, <1>6, <1>7, <1>8, <1>9, <1>10, <1>11,
       <1>12, <1>13, <1>14, <1>15, <1>16, <1>17, <1>18, <1>19, <1>20, <1>21,
       <1>22, <1>23 DEF Next, Publishing, Writing, Deleting

\* Every variable keeps its type through every interleaving of publishes,
\* crashes, restarts, failed and late writes.
THEOREM TypeCorrect == Spec => []TypeOK
  <1>1. Init => TypeOK /\ RunningOK
    BY TypeInit
  <1>2. TypeOK /\ RunningOK /\ [Next]_vars => (TypeOK /\ RunningOK)'
    BY TypeNext, RunningNext
  <1>3. QED
    BY <1>1, <1>2, PTL DEF Spec

-----------------------------------------------------------------------------
(* Generations advance, and no commit is lost, where PutIfVersion is atomic *)

\* Every delayed write is conditional on an older version.
LateOK == \A w \in late : w.cond /\ w.m.gen > w.expect.gen

\* The four actions that may change the manifest.
LEMMA ManifestSteps ==
  ASSUME [Next]_vars, manifest' # manifest
  PROVE  \/ \E c \in Crawlers : \/ PutIfVersion(c) \/ PutIfVersionAmbiguous(c)
                                \/ PutBlind(c)
         \/ LateWrite
  <1>1. ASSUME NEW c \in Crawlers, Restart(c) \/ Crash(c) PROVE FALSE
    BY <1>1 DEF Restart, Crash
  <1>2. ASSUME NEW c \in Crawlers,
               Admit(c) \/ Quarantine(c) \/ UploadOK(c) \/ UploadFailed(c)
        PROVE  FALSE
    BY <1>2 DEF Admit, Quarantine, UploadOK, UploadFailed
  <1>3. ASSUME NEW c \in Crawlers, Deleting(c) PROVE FALSE
    BY <1>3 DEF Deleting, CleanupRead, CleanupDelete, CleanupDone, PruneList,
                PruneDelete, PruneNext, PruneDone
  <1>4. ASSUME NEW c \in Crawlers,
               \/ GetVersion(c) \/ PutIfVersionRefused(c)
               \/ PutIfVersionFailed(c) \/ Precheck(c) \/ ReadBack(c)
               \/ Reconcile(c)
        PROVE  FALSE
    BY <1>4 DEF GetVersion, PutIfVersionRefused, PutIfVersionFailed, Precheck,
                ReadBack, Reconcile
  <1>5. QED
    BY <1>1, <1>2, <1>3, <1>4 DEF Next, Publishing, Writing, vars

\* Only a failed or a late write touches the delayed writes.
LEMMA LateNext ==
  ASSUME ~Verified, TypeOK, RunningOK, LateOK, [Next]_vars
  PROVE  LateOK'
  <1>1. CASE late' \subseteq late
    BY <1>1 DEF LateOK
  <1>2. ASSUME NEW c \in Crawlers, PutIfVersionFailed(c) PROVE LateOK'
    <2>1. proc[c].next.gen > proc[c].expect.gen
      BY <1>2 DEF PutIfVersionFailed, RunningOK, PublishOK
    <2>2. \A w \in late' : \/ w \in late
                           \/ w = [cond |-> TRUE, expect |-> proc[c].expect,
                                   m |-> proc[c].next]
      BY <1>2 DEF PutIfVersionFailed, Delayed
    <2>3. QED
      BY <2>1, <2>2 DEF LateOK
  <1>3. ASSUME NEW c \in Crawlers, PutBlind(c) PROVE FALSE
    BY <1>3 DEF PutBlind, RunningOK, PublishOK
  <1>4. ASSUME NEW c \in Crawlers,
               \/ Restart(c) \/ Crash(c) \/ Admit(c) \/ Quarantine(c)
               \/ UploadOK(c) \/ UploadFailed(c)
        PROVE  late' \subseteq late
    BY <1>4 DEF Restart, Crash, Admit, Quarantine, UploadOK, UploadFailed
  <1>5. ASSUME NEW c \in Crawlers, Deleting(c) PROVE late' \subseteq late
    BY <1>5 DEF Deleting, CleanupRead, CleanupDelete, CleanupDone, PruneList,
                PruneDelete, PruneNext, PruneDone
  <1>6. ASSUME NEW c \in Crawlers,
               \/ GetVersion(c) \/ PutIfVersion(c) \/ PutIfVersionRefused(c)
               \/ PutIfVersionAmbiguous(c) \/ Precheck(c) \/ ReadBack(c)
               \/ Reconcile(c)
        PROVE  late' \subseteq late
    BY <1>6 DEF GetVersion, PutIfVersion, PutIfVersionRefused,
                PutIfVersionAmbiguous, Precheck, ReadBack, Reconcile
  <1>7. ASSUME LateWrite PROVE late' \subseteq late
    BY <1>7 DEF LateWrite
  <1>8. ASSUME UNCHANGED vars PROVE late' \subseteq late
    BY <1>8 DEF vars
  <1>9. QED
    BY <1>1, <1>2, <1>3, <1>4, <1>5, <1>6, <1>7, <1>8
       DEF Next, Publishing, Writing

\* Whoever commits, and however late the store applies a write, a committed
\* manifest is only ever replaced by a later generation.  The wall clock may
\* be set back and several crawlers may share the prefix; PutIfVersion must be
\* atomic (the filesystem lock or If-Match).
THEOREM GenerationsOnlyAdvance ==
  ASSUME ~Verified
  PROVE  Spec => GenerationsAdvance
  <1> DEFINE Inv == TypeOK /\ RunningOK /\ LateOK
             Step == manifest' # manifest => manifest'.gen > manifest.gen
  <1>1. Init => Inv
    BY TypeInit DEF Init, LateOK
  <1>2. Inv /\ [Next]_vars => Inv'
    BY TypeNext, RunningNext, LateNext
  <1>3. Inv /\ [Next]_vars => Step
    <2> SUFFICES ASSUME Inv, [Next]_vars, manifest' # manifest
                 PROVE  manifest'.gen > manifest.gen
      OBVIOUS
    <2>1. ASSUME NEW c \in Crawlers, PutIfVersion(c) \/ PutIfVersionAmbiguous(c)
          PROVE  manifest'.gen > manifest.gen
      BY <2>1 DEF PutIfVersion, PutIfVersionAmbiguous, Commit, RunningOK, PublishOK
    <2>2. ASSUME NEW c \in Crawlers, PutBlind(c) PROVE FALSE
      BY <2>2 DEF PutBlind, RunningOK, PublishOK
    <2>3. ASSUME LateWrite PROVE manifest'.gen > manifest.gen
      BY <2>3 DEF LateWrite, Commit, LateOK
    <2>4. QED
      BY <2>1, <2>2, <2>3, ManifestSteps
  <1>4. QED
    BY <1>1, <1>2, <1>3, PTL DEF Spec, GenerationsAdvance

\* WriteConditional: "It prevents last-writer-win corruption".  With
\* an atomic PutIfVersion a crawler replaces the manifest of another run only
\* if it is the one it restored or saw last, or saw when it sent a request
\* that arrives late.
THEOREM NoCommitLost ==
  ASSUME ~Verified
  PROVE  Spec => NoLostCommit
  <1> DEFINE Inv == TypeOK /\ RunningOK /\ LateOK
             Step == manifest' # manifest /\ manifest # NoManifest =>
                       \/ manifest.run = manifest'.run
                       \/ \E c \in Crawlers :
                            c = manifest'.id /\ IsPrevious(proc[c], manifest)
                       \/ \E w \in late : w.m = manifest' /\ w.expect = manifest
  <1>1. Init => Inv
    BY TypeInit DEF Init, LateOK
  <1>2. Inv /\ [Next]_vars => Inv'
    BY TypeNext, RunningNext, LateNext
  <1>3. Inv /\ [Next]_vars => Step
    <2> SUFFICES ASSUME Inv, [Next]_vars, manifest' # manifest,
                        manifest # NoManifest
                 PROVE  Step
      OBVIOUS
    <2>1. ASSUME NEW c \in Crawlers, PutIfVersion(c) \/ PutIfVersionAmbiguous(c)
          PROVE  Step
      <3>1. /\ manifest = proc[c].expect /\ manifest' = proc[c].next
            /\ proc[c].pc = "put"
        BY <2>1 DEF PutIfVersion, PutIfVersionAmbiguous, Commit
      <3>2. /\ proc[c].next.id = c
            /\ \/ manifest.run = proc[c].next.run
               \/ IsPrevious(proc[c], manifest)
        BY <3>1 DEF RunningOK, PublishOK, Active
      <3>3. QED
        BY <3>1, <3>2
    <2>2. ASSUME NEW c \in Crawlers, PutBlind(c) PROVE FALSE
      BY <2>2 DEF PutBlind, RunningOK, PublishOK
    <2>3. ASSUME LateWrite PROVE Step
      BY <2>3 DEF LateWrite, Commit, LateOK
    <2>4. QED
      BY <2>1, <2>2, <2>3, ManifestSteps
  <1>4. QED
    BY <1>1, <1>2, <1>3, PTL DEF Spec, NoLostCommit

-----------------------------------------------------------------------------
(* The committed manifest stays readable.  It needs a wall clock that is   *)
(* not set back, a store that does not apply a manifest write after it     *)
(* reported an error, and either one crawler per prefix or no pruning of   *)
(* generations: without one of them a generation that the manifest names   *)
(* can be overwritten or deleted.                                          *)

\* From the last upload to the verdict on the manifest write.
Uploaded == {"getVersion", "put", "precheck", "putBlind", "readBack",
             "reconcile"}

\* Generation times name attempts: two objects with one key are one object.
StoreOK ==
  /\ \A o \in objs : o.gen = o.sum /\ o.gen <= clock
  /\ manifest.gen = manifest.sum /\ manifest.gen <= clock

\* The generation a process is building.
AttemptOK(p) ==
  /\ p.prev.gen <= clock
  /\ p.next.gen = p.next.sum /\ p.next.gen <= clock
  /\ p.pc \notin Active => p.next = NoManifest
  /\ p.pc = "upload" =>
       \A n \in Networks \ p.todo : Obj(n, p.next) \in objs
  /\ p.pc \in Uploaded => Backed(p.next)

\* What a process is about to delete: its own attempt, once the manifest is
\* known not to name it; or, pruning, never the generation of the manifest.
DoomedOK(p) ==
  /\ p.pc \in {"cleanup", "delete"} => \A k \in p.doomed : k.gen = p.next.gen
  /\ p.pc = "delete" /\ p.doomed # {} => manifest.gen # p.next.gen
  /\ p.pc = "pruneDelete" => Keep > 0 /\ \A k \in p.doomed : k.gen # p.prev.gen
  /\ p.pc \in {"prune", "pruneDelete"} /\ Keep > 0 => p.prev.gen = manifest.gen

\* No two processes build the same generation.
OwnGeneration ==
  \A c, d \in Crawlers : c # d =>
    proc[c].next = NoManifest \/ proc[c].next.gen # proc[d].next.gen

BackInv ==
  /\ late = {}
  /\ ManifestBacked /\ StoreOK /\ OwnGeneration
  /\ \A c \in Crawlers : AttemptOK(proc[c]) /\ DoomedOK(proc[c])

\* The operating conditions of the theorem.
Conditions ==
  /\ ~LateWrites /\ ~ClockStepsBack
  /\ Keep = 0 \/ \A c, d \in Crawlers : c = d

-----------------------------------------------------------------------------
\* A step changes one process; the others keep what held of them if it holds
\* in the new store.
LEMMA BackFrame ==
  ASSUME proc \in [Crawlers -> Procs], NEW c \in Crawlers, NEW p, Set(c, p),
         late' = {}, ManifestBacked', StoreOK',
         AttemptOK(p)', DoomedOK(p)',
         \A d \in Crawlers \ {c} : \A q : q = proc[d] =>
           /\ AttemptOK(q)' /\ DoomedOK(q)'
           /\ q.next = NoManifest \/ q.next.gen # p.next.gen
           /\ p.next = NoManifest \/ q.next.gen # p.next.gen,
         OwnGeneration
  PROVE  BackInv'
  <1>1. \A d \in Crawlers : proc'[d] = IF d = c THEN p ELSE proc[d]
    BY DEF Set
  <1>2. \A d \in Crawlers : \A q : q = proc'[d] => AttemptOK(q)' /\ DoomedOK(q)'
    BY <1>1
  <1>3. \A d \in Crawlers : AttemptOK(proc[d])' /\ DoomedOK(proc[d])'
    BY <1>2 DEF AttemptOK, DoomedOK, Backed
  <1>4. OwnGeneration'
    BY <1>1 DEF OwnGeneration
  <1>5. QED
    BY <1>3, <1>4 DEF BackInv

\* A step that leaves the store alone.
LEMMA BackLocal ==
  ASSUME TypeOK, BackInv, NEW c \in Crawlers, NEW p, Set(c, p),
         UNCHANGED <<objs, manifest, late, clock>>,
         AttemptOK(p), DoomedOK(p),
         p.next = proc[c].next \/ p.next = NoManifest
  PROVE  BackInv'
  <1>1. proc \in [Crawlers -> Procs] /\ OwnGeneration
    BY DEF TypeOK, BackInv
  <1>2. late' = {} /\ ManifestBacked' /\ StoreOK'
    BY DEF BackInv, ManifestBacked, StoreOK, Backed
  <1>3. \A q : (AttemptOK(q) <=> AttemptOK(q)') /\ (DoomedOK(q) <=> DoomedOK(q)')
    BY DEF AttemptOK, DoomedOK, Backed
  <1>4. \A d \in Crawlers \ {c} :
          /\ AttemptOK(proc[d]) /\ DoomedOK(proc[d])
          /\ proc[d].next = NoManifest \/ proc[d].next.gen # p.next.gen
          /\ p.next = NoManifest \/ proc[d].next.gen # p.next.gen
    <2> SUFFICES ASSUME NEW d \in Crawlers \ {c}
                 PROVE  /\ proc[d].next = NoManifest
                             \/ proc[d].next.gen # p.next.gen
                        /\ p.next = NoManifest \/ proc[d].next.gen # p.next.gen
      BY DEF BackInv
    <2>1. /\ proc[d].next = NoManifest \/ proc[d].next.gen # proc[c].next.gen
          /\ proc[c].next = NoManifest \/ proc[d].next.gen # proc[c].next.gen
      BY <1>1 DEF OwnGeneration
    <2>2. proc[d].next \in ManifestOrNone
      BY <1>1 DEF Procs
    <2>3. QED
      BY <2>1, <2>2, NoManifestFacts DEF NoManifest, ManifestOrNone
  <1>5. \A d \in Crawlers \ {c} : \A q : q = proc[d] =>
          /\ AttemptOK(q)' /\ DoomedOK(q)'
          /\ q.next = NoManifest \/ q.next.gen # p.next.gen
          /\ p.next = NoManifest \/ q.next.gen # p.next.gen
    BY <1>3, <1>4
  <1>6. QED
    BY <1>1, <1>2, <1>3, <1>5, BackFrame

\* A process without a publish under way.
LEMMA BackIdle ==
  ASSUME NEW p, p.next = NoManifest, p.prev.gen <= clock, clock \in Nat,
         p.pc \notin Active, p.pc # "pruneDelete",
         p.pc = "prune" /\ Keep > 0 => p.prev.gen = manifest.gen
  PROVE  AttemptOK(p) /\ DoomedOK(p)
  BY DEF AttemptOK, DoomedOK, Active, Uploaded, NoManifest

\* The states in which Publish returns, and the ones in which it cleans up.
LEMMA BackReturns ==
  ASSUME TypeOK, RunningOK, BackInv, NEW c \in Crawlers, proc[c].pc \in Active,
         NEW m \in ManifestOrNone, m.gen <= clock
  PROVE  /\ \A pc \in {"idle", "stopped"} :
              LET p == Returned(proc[c], pc) IN
              AttemptOK(p) /\ DoomedOK(p) /\ p.next = NoManifest
         /\ LET p == Returned(Unsettled(proc[c]), "idle") IN
            AttemptOK(p) /\ DoomedOK(p) /\ p.next = NoManifest
         /\ LET p == [Returned(Settle(proc[c]), "idle") EXCEPT !.prev = m] IN
            AttemptOK(p) /\ DoomedOK(p) /\ p.next = NoManifest
         /\ manifest.gen = proc[c].next.gen =>
            LET p == Published(proc[c]) IN
            AttemptOK(p) /\ DoomedOK(p) /\ p.next = NoManifest
         /\ LET p == ToCleanup(proc[c], "stopped") IN
            AttemptOK(p) /\ DoomedOK(p) /\ p.next = proc[c].next
         /\ LET p == ToCleanup(Unsettled(proc[c]), "idle") IN
            AttemptOK(p) /\ DoomedOK(p) /\ p.next = proc[c].next
  <1>1. /\ proc[c] \in Procs /\ clock \in Nat
        /\ proc[c].prev.gen <= clock
        /\ proc[c].next.gen = proc[c].next.sum /\ proc[c].next.gen <= clock
    BY DEF TypeOK, BackInv, AttemptOK
  <1>2. ASSUME NEW pc \in {"idle", "stopped"}
        PROVE  LET p == Returned(proc[c], pc) IN
               AttemptOK(p) /\ DoomedOK(p) /\ p.next = NoManifest
    <2> DEFINE p == Returned(proc[c], pc)
    <2>1. p.next = NoManifest /\ p.prev = proc[c].prev /\ p.pc = pc
      BY DEF Returned, Dead
    <2> HIDE DEF p
    <2>2. QED
      BY <1>1, <2>1, BackIdle DEF Active, p
  <1>3. LET p == Returned(Unsettled(proc[c]), "idle") IN
        AttemptOK(p) /\ DoomedOK(p) /\ p.next = NoManifest
    <2> DEFINE p == Returned(Unsettled(proc[c]), "idle")
    <2>1. p.next = NoManifest /\ p.prev = proc[c].prev /\ p.pc = "idle"
      BY <1>1 DEF Returned, Dead, Unsettled, Procs
    <2> HIDE DEF p
    <2>2. QED
      BY <1>1, <2>1, BackIdle DEF Active, p
  <1>4. LET p == [Returned(Settle(proc[c]), "idle") EXCEPT !.prev = m] IN
        AttemptOK(p) /\ DoomedOK(p) /\ p.next = NoManifest
    <2> DEFINE p == [Returned(Settle(proc[c]), "idle") EXCEPT !.prev = m]
    <2>1. p.next = NoManifest /\ p.prev = m /\ p.pc = "idle"
      BY DEF Returned, Dead
    <2> HIDE DEF p
    <2>2. QED
      BY <1>1, <2>1, BackIdle DEF Active, p
  <1>5. ASSUME manifest.gen = proc[c].next.gen
        PROVE  LET p == Published(proc[c]) IN
               AttemptOK(p) /\ DoomedOK(p) /\ p.next = NoManifest
    <2> DEFINE p == Published(proc[c])
    <2>1. p.next = NoManifest /\ p.prev = proc[c].next /\ p.pc = "prune"
      BY DEF Published, Returned, Dead
    <2> HIDE DEF p
    <2>2. QED
      BY <1>1, <1>5, <2>1, BackIdle DEF Active, p
  <1>6. ASSUME NEW q \in {proc[c], Unsettled(proc[c])}, NEW b
        PROVE  LET p == ToCleanup(q, b) IN
               AttemptOK(p) /\ DoomedOK(p) /\ p.next = proc[c].next
    <2> DEFINE p == ToCleanup(q, b)
    <2>1. /\ q.next = proc[c].next /\ q.prev = proc[c].prev
      BY <1>1 DEF Unsettled, Procs
    <2>2. /\ p.next = q.next /\ p.prev = q.prev /\ p.pc = "cleanup"
          /\ p.doomed = {Key(n, q.next) : n \in Networks}
      BY <1>1 DEF ToCleanup, Unsettled, Procs
    <2>3. \A k \in p.doomed : k.gen = p.next.gen
      BY <2>2 DEF Key
    <2> HIDE DEF p
    <2>4. QED
      BY <1>1, <2>1, <2>2, <2>3 DEF p, AttemptOK, DoomedOK, Active, Uploaded
  <1>7. QED
    BY <1>2, <1>3, <1>4, <1>5, <1>6

\* An error of WriteConditional leaves the objects of the attempt in place.
LEMMA BackFailed ==
  ASSUME TypeOK, BackInv, NEW c \in Crawlers, proc[c].pc \in Uploaded, NEW e
  PROVE  LET p == [proc[c] EXCEPT !.pc = "reconcile", !.err = e] IN
         AttemptOK(p) /\ DoomedOK(p) /\ p.next = proc[c].next
  <1> DEFINE p == [proc[c] EXCEPT !.pc = "reconcile", !.err = e]
  <1>1. AttemptOK(proc[c]) /\ proc[c] \in Procs
    BY DEF TypeOK, BackInv
  <1>2. p.pc = "reconcile" /\ p.next = proc[c].next /\ p.prev = proc[c].prev
    BY <1>1 DEF Procs
  <1> HIDE DEF p
  <1>3. AttemptOK(p) /\ DoomedOK(p) /\ p.next = proc[c].next
    BY <1>1, <1>2 DEF AttemptOK, DoomedOK, Uploaded, Active
  <1>4. QED
    BY <1>3 DEF p

-----------------------------------------------------------------------------
(* The steps that leave the store alone *)

LEMMA BackWriting ==
  ASSUME Conditions, TypeOK, RunningOK, BackInv, NEW c \in Crawlers,
         \/ GetVersion(c) \/ PutIfVersionRefused(c) \/ PutIfVersionFailed(c)
         \/ Precheck(c) \/ ReadBack(c)
  PROVE  BackInv'
  <1>1. /\ UNCHANGED <<objs, manifest, late, clock>> /\ proc[c].pc \in Uploaded
        /\ proc[c].pc \in Active
    BY DEF GetVersion, PutIfVersionRefused, PutIfVersionFailed, Precheck,
           ReadBack, Delayed, Conditions, Uploaded, Active
  <1>2. AttemptOK(proc[c]) /\ DoomedOK(proc[c]) /\ proc[c] \in Procs
    BY DEF TypeOK, BackInv
  <1>3. CASE \E e : Failed(c, e)
    BY <1>1, <1>3, BackFailed, BackLocal DEF Failed
  <1>4. CASE Set(c, Published(proc[c])) /\ manifest = proc[c].next
    <2>1. manifest \in ManifestOrNone /\ manifest.gen <= clock
      BY DEF TypeOK, BackInv, StoreOK
    <2>2. QED
      BY <1>1, <1>4, <2>1, BackReturns, BackLocal
  <1>5. CASE \E l \in {"put", "precheck"} :
               Set(c, [proc[c] EXCEPT !.pc = l, !.expect = manifest])
    <2>1. PICK l \in {"put", "precheck"} :
            Set(c, [proc[c] EXCEPT !.pc = l, !.expect = manifest])
      BY <1>5
    <2> DEFINE p == [proc[c] EXCEPT !.pc = l, !.expect = manifest]
    <2>2. p.pc = l /\ p.next = proc[c].next /\ p.prev = proc[c].prev
      BY <1>2 DEF Procs
    <2>3. Set(c, p)
      BY <2>1
    <2> HIDE DEF p
    <2>4. AttemptOK(p) /\ DoomedOK(p)
      BY <1>1, <1>2, <2>2 DEF AttemptOK, DoomedOK, Uploaded, Active
    <2>5. QED
      BY <1>1, <2>2, <2>3, <2>4, BackLocal
  <1>6. CASE Set(c, [proc[c] EXCEPT !.pc = "putBlind"])
    <2> DEFINE p == [proc[c] EXCEPT !.pc = "putBlind"]
    <2>1. p.pc = "putBlind" /\ p.next = proc[c].next /\ p.prev = proc[c].prev
      BY <1>2 DEF Procs
    <2>2. Set(c, p)
      BY <1>6
    <2> HIDE DEF p
    <2>3. AttemptOK(p) /\ DoomedOK(p)
      BY <1>1, <1>2, <2>1 DEF AttemptOK, DoomedOK, Uploaded, Active
    <2>4. QED
      BY <1>1, <2>1, <2>2, <2>3, BackLocal
  <1>7. QED
    BY <1>3, <1>4, <1>5, <1>6
       DEF GetVersion, PutIfVersionRefused, PutIfVersionFailed, Precheck, ReadBack

LEMMA BackReconcile ==
  ASSUME Conditions, TypeOK, RunningOK, BackInv, NEW c \in Crawlers, Reconcile(c)
  PROVE  BackInv'
  <1>1. /\ UNCHANGED <<objs, manifest, late, clock>> /\ proc[c].pc \in Active
    BY DEF Reconcile, Active
  <1>2. /\ manifest \in ManifestOrNone /\ manifest.gen <= clock
        /\ NoManifest \in ManifestOrNone /\ NoManifest.gen <= clock
    BY NoManifestFacts DEF TypeOK, BackInv, StoreOK, ManifestOrNone
  <1>3. PICK stored \in {manifest, NoManifest} :
           \/ StoredIsOwn(proc[c], stored) /\ Set(c, Published(proc[c]))
           \/ Set(c, [Returned(Settle(proc[c]), "idle") EXCEPT !.prev = stored])
           \/ Set(c, Returned(Unsettled(proc[c]), "idle"))
           \/ Set(c, ToCleanup(proc[c], "stopped"))
           \/ Set(c, ToCleanup(Unsettled(proc[c]), "idle"))
    BY ReconcileCases
  <1>4. CASE StoredIsOwn(proc[c], stored) /\ Set(c, Published(proc[c]))
    <2>1. proc[c].next.run > 0
      BY <1>1, NoManifestFacts DEF RunningOK, PublishOK
    <2>2. manifest.gen = proc[c].next.gen
      BY <1>4, <2>1, NoManifestFacts DEF StoredIsOwn
    <2>3. QED
      BY <1>1, <1>2, <1>4, <2>2, BackReturns, BackLocal
  <1>5. CASE Set(c, [Returned(Settle(proc[c]), "idle") EXCEPT !.prev = stored])
    <2> DEFINE p == [Returned(Settle(proc[c]), "idle") EXCEPT !.prev = stored]
    <2>1. stored \in ManifestOrNone /\ stored.gen <= clock
      BY <1>2
    <2>2. AttemptOK(p) /\ DoomedOK(p) /\ p.next = NoManifest
      BY <1>1, <2>1, BackReturns
    <2>3. Set(c, p)
      BY <1>5
    <2> HIDE DEF p
    <2>4. QED
      BY <1>1, <2>2, <2>3, BackLocal
  <1>6. CASE Set(c, Returned(Unsettled(proc[c]), "idle"))
    BY <1>1, <1>2, <1>6, BackReturns, BackLocal
  <1>7. CASE Set(c, ToCleanup(proc[c], "stopped"))
    BY <1>1, <1>2, <1>7, BackReturns, BackLocal
  <1>8. CASE Set(c, ToCleanup(Unsettled(proc[c]), "idle"))
    BY <1>1, <1>2, <1>8, BackReturns, BackLocal
  <1>9. QED
    BY <1>3, <1>4, <1>5, <1>6, <1>7, <1>8

LEMMA BackStart ==
  ASSUME Conditions, TypeOK, RunningOK, BackInv, NEW c \in Crawlers,
         Restart(c) \/ Crash(c)
  PROVE  BackInv'
  <1>1. UNCHANGED <<objs, manifest, late, clock>>
    BY DEF Restart, Crash
  <1>2. clock \in Nat /\ manifest.gen <= clock
    BY DEF TypeOK, BackInv, StoreOK
  <1>3. CASE Restart(c)
    <2> DEFINE p == [Dead EXCEPT !.pc = "prune", !.run = runs + 1,
                                 !.prev = manifest, !.todo = Networks]
    <2>1. p.pc = "prune" /\ p.prev = manifest /\ p.next = NoManifest
      BY DEF Dead
    <2>2. Set(c, p)
      BY <1>3 DEF Restart
    <2> HIDE DEF p
    <2>3. AttemptOK(p) /\ DoomedOK(p)
      BY <1>2, <2>1, BackIdle DEF Active
    <2>4. QED
      BY <1>1, <2>1, <2>2, <2>3, BackLocal
  <1>4. CASE Crash(c)
    <2>1. /\ Dead.pc = "down" /\ Dead.prev.gen = 0 /\ Dead.next = NoManifest
      BY NoManifestFacts DEF Dead
    <2>2. AttemptOK(Dead) /\ DoomedOK(Dead)
      BY <1>2, <2>1, BackIdle DEF Active
    <2>3. QED
      BY <1>1, <1>4, <2>1, <2>2, BackLocal DEF Crash
  <1>5. QED
    BY <1>3, <1>4

\* The clean-up reads the manifest before it deletes.
LEMMA BackCleanup ==
  ASSUME Conditions, TypeOK, RunningOK, BackInv, NEW c \in Crawlers,
         CleanupRead(c) \/ CleanupDone(c)
  PROVE  BackInv'
  <1>1. UNCHANGED <<objs, manifest, late, clock>> /\ proc[c].pc \in Active
    BY DEF CleanupRead, CleanupDone, Active
  <1>2. AttemptOK(proc[c]) /\ DoomedOK(proc[c]) /\ proc[c] \in Procs
    BY DEF TypeOK, BackInv
  <1>3. CASE CleanupRead(c)
    <2>1. PICK keys \in {{}, proc[c].doomed \ {Key(n, manifest) : n \in Networks}} :
            Set(c, [proc[c] EXCEPT !.pc = "delete", !.doomed = keys])
      BY <1>3 DEF CleanupRead
    <2> DEFINE p == [proc[c] EXCEPT !.pc = "delete", !.doomed = keys]
    <2>2. /\ p.pc = "delete" /\ p.next = proc[c].next /\ p.prev = proc[c].prev
          /\ p.doomed = keys
      BY <1>2 DEF Procs
    <2>3. \A k \in keys : k.gen = proc[c].next.gen
      BY <1>2, <1>3 DEF DoomedOK, CleanupRead
    <2>4. keys # {} => manifest.gen # proc[c].next.gen
      <3> SUFFICES ASSUME NEW k \in keys, manifest.gen = proc[c].next.gen
                   PROVE  FALSE
        OBVIOUS
      <3>1. k \in Keys /\ k.gen = manifest.gen
        BY <1>2, <2>3 DEF Procs
      <3>2. k = Key(k.net, manifest) /\ k.net \in Networks
        BY <3>1 DEF Key, Keys
      <3>3. QED
        BY <3>2
    <2>5. Set(c, p)
      BY <2>1
    <2> HIDE DEF p
    <2>6. AttemptOK(p) /\ DoomedOK(p)
      BY <1>2, <1>1, <2>2, <2>3, <2>4 DEF AttemptOK, DoomedOK, Uploaded, Active
    <2>7. QED
      BY <1>1, <2>2, <2>5, <2>6, BackLocal
  <1>4. CASE CleanupDone(c)
    <2>1. proc[c].back \in {"idle", "stopped"}
      BY <1>2 DEF Procs
    <2>2. manifest \in ManifestOrNone /\ manifest.gen <= clock
      BY DEF TypeOK, BackInv, StoreOK
    <2> DEFINE p == Returned(proc[c], proc[c].back)
    <2>3. AttemptOK(p) /\ DoomedOK(p) /\ p.next = NoManifest
      BY <1>1, <2>1, <2>2, BackReturns
    <2>4. Set(c, p)
      BY <1>4 DEF CleanupDone
    <2> HIDE DEF p
    <2>5. QED
      BY <1>1, <2>3, <2>4, BackLocal
  <1>5. QED
    BY <1>3, <1>4

\* Pruning lists the keys of one network without the one p.prev names.
LEMMA BackPrune ==
  ASSUME Conditions, TypeOK, RunningOK, BackInv, NEW c \in Crawlers,
         PruneList(c) \/ PruneNext(c) \/ PruneDone(c)
  PROVE  BackInv'
  <1>1. /\ UNCHANGED <<objs, manifest, late, clock>>
        /\ proc[c].pc \in {"prune", "pruneDelete"}
    BY DEF PruneList, PruneNext, PruneDone
  <1>2. /\ AttemptOK(proc[c]) /\ DoomedOK(proc[c]) /\ proc[c] \in Procs
        /\ clock \in Nat /\ Keep \in Nat
    BY ConstantsAssumption DEF TypeOK, BackInv
  <1>3. proc[c].next = NoManifest /\ proc[c].prev.gen <= clock
    BY <1>1, <1>2 DEF AttemptOK, Active
  <1>4. CASE PruneList(c)
    <2>1. PICK n \in proc[c].todo :
            LET p == [proc[c] EXCEPT !.todo = @ \ {n}]
                listed == {o \in objs : o.net = n} IN
            \/ Set(c, [p EXCEPT !.pc = "pruneDelete",
                    !.doomed = {KeyOf(o) : o \in listed} \ {Key(n, p.prev)},
                    !.quota = Cardinality(listed) - Keep])
            \/ Set(c, p)
      BY <1>4 DEF PruneList
    <2> DEFINE p == [proc[c] EXCEPT !.todo = @ \ {n}]
               listed == {o \in objs : o.net = n}
               keys == {KeyOf(o) : o \in listed} \ {Key(n, p.prev)}
               r == [p EXCEPT !.pc = "pruneDelete", !.doomed = keys,
                              !.quota = Cardinality(listed) - Keep]
    <2>2. /\ p.pc = "prune" /\ p.next = NoManifest /\ p.prev = proc[c].prev
      BY <1>2, <1>3, <1>4 DEF Procs, PruneList
    <2>3. \A k \in keys : k.gen # p.prev.gen
      <3> SUFFICES ASSUME NEW o \in listed, KeyOf(o) # Key(n, p.prev),
                          o.gen = p.prev.gen
                   PROVE  FALSE
        BY DEF KeyOf
      <3> QED
        BY DEF KeyOf, Key
    <2>4. Set(c, p) \/ Set(c, r)
      BY <2>1
    <2>5. /\ r.pc = "pruneDelete" /\ r.next = p.next /\ r.prev = p.prev
          /\ r.doomed = keys
      BY <1>2 DEF Procs
    <2>6. Keep > 0 /\ p.prev.gen = manifest.gen
      BY <1>2, <1>4, <2>2 DEF PruneList, DoomedOK
    <2> HIDE DEF p, keys, r
    <2>7. AttemptOK(p) /\ DoomedOK(p)
      BY <1>2, <1>3, <2>2, <2>6, BackIdle DEF Active
    <2>8. AttemptOK(r) /\ DoomedOK(r)
      BY <1>2, <1>3, <2>2, <2>3, <2>5, <2>6
         DEF AttemptOK, DoomedOK, Active, Uploaded, NoManifest
    <2>9. QED
      BY <1>1, <2>2, <2>4, <2>5, <2>7, <2>8, BackLocal
  <1>5. CASE PruneNext(c)
    <2> DEFINE p == [proc[c] EXCEPT !.pc = "prune", !.doomed = {}, !.quota = 0]
    <2>1. /\ p.pc = "prune" /\ p.next = NoManifest /\ p.prev = proc[c].prev
      BY <1>2, <1>3 DEF Procs
    <2>2. Keep > 0 => p.prev.gen = manifest.gen
      BY <1>1, <1>2, <2>1 DEF DoomedOK
    <2>3. Set(c, p)
      BY <1>5 DEF PruneNext
    <2> HIDE DEF p
    <2>4. AttemptOK(p) /\ DoomedOK(p)
      BY <1>2, <1>3, <2>1, <2>2, BackIdle DEF Active
    <2>5. QED
      BY <1>1, <2>1, <2>3, <2>4, BackLocal
  <1>6. CASE PruneDone(c)
    <2> DEFINE p == Returned(proc[c], "idle")
    <2>1. /\ p.pc = "idle" /\ p.next = NoManifest /\ p.prev = proc[c].prev
      BY DEF Returned, Dead
    <2>2. Set(c, p)
      BY <1>6 DEF PruneDone
    <2> HIDE DEF p
    <2>3. AttemptOK(p) /\ DoomedOK(p)
      BY <1>2, <1>3, <2>1, BackIdle DEF Active
    <2>4. QED
      BY <1>1, <2>1, <2>2, <2>3, BackLocal
  <1>7. QED
    BY <1>4, <1>5, <1>6

-----------------------------------------------------------------------------
(* The steps that move the clock or change the store *)

\* The other processes while the clock moves on and objects are added.
LEMMA BackGrows ==
  ASSUME TypeOK, objs \subseteq objs', manifest' = manifest,
         clock' \in Nat, clock <= clock', NEW q \in Procs,
         AttemptOK(q), DoomedOK(q)
  PROVE  AttemptOK(q)' /\ DoomedOK(q)'
  <1>1. /\ q.prev.gen \in Nat /\ q.next.gen \in Nat /\ clock \in Nat
        /\ q.prev.gen <= clock /\ q.next.gen <= clock
    BY NoManifestFacts DEF TypeOK, AttemptOK, Procs
  <1>2. q.prev.gen <= clock' /\ q.next.gen <= clock'
    BY <1>1
  <1>3. AttemptOK(q)'
    BY <1>2 DEF AttemptOK, Backed
  <1>4. DoomedOK(q)'
    BY DEF DoomedOK
  <1>5. QED
    BY <1>3, <1>4

\* The generations of two processes stay apart when one keeps its own.
LEMMA BackApart ==
  ASSUME TypeOK, OwnGeneration, NEW c \in Crawlers, NEW d \in Crawlers \ {c}
  PROVE  /\ proc[d].next = NoManifest \/ proc[d].next.gen # proc[c].next.gen
         /\ proc[c].next = NoManifest \/ proc[d].next.gen # proc[c].next.gen
         /\ proc[d].next = NoManifest \/ proc[d].next.gen # NoManifest.gen
  <1>1. proc[d].next \in ManifestOrNone
    BY DEF TypeOK, Procs
  <1>2. QED
    BY <1>1, NoManifestFacts DEF OwnGeneration

LEMMA BackAttempt ==
  ASSUME Conditions, TypeOK, RunningOK, BackInv, NEW c \in Crawlers,
         Admit(c) \/ Quarantine(c)
  PROVE  BackInv'
  <1>1. /\ clock \in Nat /\ clock' = clock + 1 /\ UNCHANGED <<objs, manifest, late>>
        /\ proc[c].pc = "idle"
    BY DEF Admit, Quarantine, TypeOK
  <1>2. proc \in [Crawlers -> Procs] /\ OwnGeneration /\ late' = {}
    BY <1>1 DEF TypeOK, BackInv
  <1>3. ManifestBacked' /\ StoreOK'
    <2>1. manifest \in ManifestOrNone /\ manifest.gen \in Nat
      BY NoManifestFacts DEF TypeOK
    <2>2. \A o \in objs : o.gen \in Nat
      BY DEF TypeOK
    <2>3. QED
      BY <1>1, <2>1, <2>2 DEF BackInv, ManifestBacked, StoreOK, Backed
  <1>4. \A d \in Crawlers : \A q : q = proc[d] => AttemptOK(q)' /\ DoomedOK(q)'
    <2> SUFFICES ASSUME NEW d \in Crawlers, NEW q, q = proc[d]
                 PROVE  AttemptOK(q)' /\ DoomedOK(q)'
      OBVIOUS
    <2>1. q \in Procs /\ AttemptOK(q) /\ DoomedOK(q)
      BY <1>2 DEF BackInv
    <2>2. objs \subseteq objs' /\ clock' \in Nat /\ clock <= clock'
      BY <1>1
    <2>3. QED
      BY <1>1, <2>1, <2>2, BackGrows
  <1>5. CASE Quarantine(c)
    <2>1. Set(c, proc[c])
      BY <1>2, <1>5 DEF Quarantine, Set
    <2>2. QED
      BY <1>2, <1>3, <1>4, <2>1, BackApart, BackFrame
  <1>6. CASE Admit(c)
    <2>1. PICK now \in WallClock(proc[c]), n \in Counts, f \in BOOLEAN :
            Set(c, [proc[c] EXCEPT !.pc = "upload",
                      !.next = Build(c, now, n, f), !.todo = Networks])
      BY <1>6 DEF Admit
    <2> DEFINE m == Build(c, now, n, f)
    <2>2. now = clock + 1
      BY DEF WallClock, Conditions
    <2>3. /\ proc[c].prev.gen \in Nat /\ proc[c].prev.gen <= clock
      BY <1>2, NoManifestFacts DEF BackInv, AttemptOK, Procs
    <2>4. m.gen = clock + 1 /\ m.sum = clock + 1
      BY <1>1, <2>2, <2>3 DEF Build, GenerationTime
    <2> HIDE DEF m
    <2>p. PICK p : p = [proc[c] EXCEPT !.pc = "upload", !.next = m,
                                       !.todo = Networks]
      OBVIOUS
    <2>5. /\ p.pc = "upload" /\ p.next = m /\ p.todo = Networks
          /\ p.prev = proc[c].prev
      BY <1>2, <2>p DEF Procs
    <2>6. Set(c, p)
      BY <2>1, <2>p DEF m
    <2>7. AttemptOK(p)' /\ DoomedOK(p)'
      BY <1>1, <2>3, <2>4, <2>5 DEF AttemptOK, DoomedOK, Active, Uploaded
    <2>8. \A d \in Crawlers \ {c} : proc[d].next.gen # p.next.gen
      <3> SUFFICES ASSUME NEW d \in Crawlers \ {c}
                   PROVE  proc[d].next.gen # p.next.gen
        OBVIOUS
      <3>1. proc[d].next.gen \in Nat /\ proc[d].next.gen <= clock
        BY <1>2, NoManifestFacts DEF BackInv, AttemptOK, Procs
      <3>2. QED
        BY <1>1, <2>4, <2>5, <3>1
    <2>9. QED
      BY <1>2, <1>3, <1>4, <2>6, <2>7, <2>8, BackFrame
  <1>7. QED
    BY <1>5, <1>6

\* An upload replaces at most the very same object.
LEMMA StoredGrows ==
  ASSUME TypeOK, StoreOK, NEW n \in Networks, NEW m, m.gen = m.sum
  PROVE  objs \subseteq Stored(Obj(n, m)) /\ Obj(n, m) \in Stored(Obj(n, m))
  <1>1. ASSUME NEW o \in objs, KeyOf(o) = KeyOf(Obj(n, m))
        PROVE  o = Obj(n, m)
    <2>1. /\ o \in [net: Networks, gen: Nat, sum: Nat] /\ o.gen = o.sum
      BY DEF TypeOK, StoreOK
    <2>2. o.net = n /\ o.gen = m.gen
      BY <1>1 DEF KeyOf, Obj
    <2>3. QED
      BY <2>1, <2>2 DEF Obj
  <1>2. QED
    BY <1>1 DEF Stored

LEMMA BackUpload ==
  ASSUME Conditions, TypeOK, RunningOK, BackInv, NEW c \in Crawlers,
         UploadOK(c) \/ UploadFailed(c)
  PROVE  BackInv'
  <1>1. UNCHANGED <<manifest, late, clock>> /\ proc[c].pc = "upload"
    BY DEF UploadOK, UploadFailed
  <1>2. /\ proc \in [Crawlers -> Procs] /\ OwnGeneration /\ late' = {}
        /\ proc[c] \in Procs /\ AttemptOK(proc[c]) /\ clock \in Nat
    BY <1>1 DEF TypeOK, BackInv
  <1>3. PICK n \in proc[c].todo : objs' \in {objs, Stored(Obj(n, proc[c].next))}
    BY DEF UploadOK, UploadFailed
  <1>4. proc[c].next.gen = proc[c].next.sum /\ proc[c].next.gen <= clock
    BY <1>2 DEF AttemptOK
  <1>5. objs \subseteq objs'
    BY <1>2, <1>3, <1>4, StoredGrows DEF Procs, BackInv
  <1>6. ManifestBacked' /\ StoreOK'
    <2>1. \A o \in objs' : o \in objs \/ o = Obj(n, proc[c].next)
      BY <1>3 DEF Stored
    <2>2. \A o \in objs' : o.gen = o.sum /\ o.gen <= clock
      BY <1>4, <2>1 DEF Obj, BackInv, StoreOK
    <2>3. QED
      BY <1>1, <1>5, <2>2 DEF BackInv, ManifestBacked, StoreOK, Backed
  <1>7. \A d \in Crawlers : \A q : q = proc[d] => AttemptOK(q)' /\ DoomedOK(q)'
    <2> SUFFICES ASSUME NEW d \in Crawlers, NEW q, q = proc[d]
                 PROVE  AttemptOK(q)' /\ DoomedOK(q)'
      OBVIOUS
    <2>1. q \in Procs /\ AttemptOK(q) /\ DoomedOK(q)
      BY <1>2 DEF BackInv
    <2>2. clock' \in Nat /\ clock <= clock'
      BY <1>1, <1>2
    <2>3. QED
      BY <1>1, <1>5, <2>1, <2>2, BackGrows
  <1>8. CASE UploadOK(c)
    <2>1. PICK k \in proc[c].todo :
            /\ objs' = Stored(Obj(k, proc[c].next))
            /\ Set(c, [proc[c] EXCEPT !.todo = proc[c].todo \ {k},
                 !.pc = IF proc[c].todo \ {k} = {} THEN "getVersion"
                                                  ELSE "upload"])
      BY <1>8 DEF UploadOK
    <2>p. PICK p : p = [proc[c] EXCEPT !.todo = proc[c].todo \ {k},
                          !.pc = IF proc[c].todo \ {k} = {} THEN "getVersion"
                                                           ELSE "upload"]
      OBVIOUS
    <2>2. /\ p.todo = proc[c].todo \ {k} /\ p.next = proc[c].next
          /\ p.prev = proc[c].prev
          /\ p.pc = IF proc[c].todo \ {k} = {} THEN "getVersion" ELSE "upload"
      BY <1>2, <2>p DEF Procs
    <2>3. Obj(k, p.next) \in objs' /\ k \in Networks
      BY <1>2, <1>4, <2>1, <2>2, StoredGrows DEF Procs, BackInv
    <2>4. \A j \in Networks \ p.todo : Obj(j, p.next) \in objs'
      BY <1>1, <1>2, <1>5, <2>2, <2>3 DEF AttemptOK
    <2>5. Set(c, p)
      BY <2>1, <2>p
    <2>6. /\ p.prev.gen <= clock' /\ p.next.gen = p.next.sum
          /\ p.next.gen <= clock'
      BY <1>1, <1>2, <2>2 DEF AttemptOK
    <2>7. AttemptOK(p)' /\ DoomedOK(p)'
      BY <2>2, <2>4, <2>6 DEF AttemptOK, DoomedOK, Active, Uploaded, Backed
    <2>8. QED
      BY <1>2, <1>6, <1>7, <2>2, <2>5, <2>7, BackApart, BackFrame
  <1>9. CASE UploadFailed(c)
    <2>1. PICK attempted \in SUBSET Networks :
            Set(c, [proc[c] EXCEPT !.pc = "cleanup", !.back = "idle",
                      !.doomed = {Key(k, proc[c].next) : k \in attempted}])
      <3>1. PICK k \in proc[c].todo :
              Set(c, [proc[c] EXCEPT !.pc = "cleanup", !.back = "idle",
                        !.doomed = {Key(j, proc[c].next) :
                                      j \in (Networks \ proc[c].todo) \cup {k}}])
        BY <1>9 DEF UploadFailed
      <3>2. (Networks \ proc[c].todo) \cup {k} \in SUBSET Networks
        BY <1>2 DEF Procs
      <3>3. QED
        BY <3>1, <3>2
    <2>p. PICK p : p = [proc[c] EXCEPT !.pc = "cleanup", !.back = "idle",
                          !.doomed = {Key(k, proc[c].next) : k \in attempted}]
      OBVIOUS
    <2>2. /\ p.pc = "cleanup" /\ p.next = proc[c].next /\ p.prev = proc[c].prev
          /\ p.doomed = {Key(k, proc[c].next) : k \in attempted}
      BY <1>2, <2>p DEF Procs
    <2>3. Set(c, p)
      BY <2>1, <2>p
    <2>4. \A k \in p.doomed : k.gen = p.next.gen
      BY <2>2 DEF Key
    <2>5. AttemptOK(p)' /\ DoomedOK(p)'
      BY <1>1, <1>2, <1>4, <2>2, <2>4 DEF AttemptOK, DoomedOK, Active, Uploaded
    <2>6. QED
      BY <1>2, <1>6, <1>7, <2>2, <2>3, <2>5, BackApart, BackFrame
  <1>10. QED
    BY <1>8, <1>9

\* The manifest write commits the attempt, whose objects are all stored.
LEMMA BackCommit ==
  ASSUME Conditions, TypeOK, RunningOK, BackInv, NEW c \in Crawlers,
         proc[c].pc \in Uploaded, Commit(proc[c].next),
         UNCHANGED <<objs, late, clock>>, NEW p, Set(c, p),
         \/ p = Published(proc[c])
         \/ /\ p.pc \in {"reconcile", "readBack"}
            /\ p.next = proc[c].next /\ p.prev = proc[c].prev
  PROVE  BackInv'
  <1>1. /\ proc \in [Crawlers -> Procs] /\ OwnGeneration /\ late' = {}
        /\ proc[c] \in Procs /\ AttemptOK(proc[c]) /\ clock \in Nat
        /\ manifest' = proc[c].next
    BY DEF TypeOK, BackInv, Commit
  <1>2. /\ Backed(proc[c].next) /\ proc[c].next.gen = proc[c].next.sum
        /\ proc[c].next.gen <= clock /\ proc[c].prev.gen <= clock
    BY <1>1 DEF AttemptOK
  <1>3. ManifestBacked' /\ StoreOK'
    BY <1>1, <1>2 DEF BackInv, ManifestBacked, StoreOK, Backed
  <1>4. \A d \in Crawlers \ {c} : \A q : q = proc[d] => AttemptOK(q)' /\ DoomedOK(q)'
    <2> SUFFICES ASSUME NEW d \in Crawlers \ {c}, NEW q, q = proc[d]
                 PROVE  AttemptOK(q)' /\ DoomedOK(q)'
      OBVIOUS
    <2>0. ~(Keep > 0)
      <3>1. Keep = 0
        BY DEF Conditions
      <3>2. QED
        BY <3>1
    <2>1. AttemptOK(q) /\ DoomedOK(q)
      BY DEF BackInv
    <2>2. AttemptOK(q)'
      BY <2>1 DEF AttemptOK, Backed
    <2>3. q.pc = "delete" => manifest'.gen # q.next.gen
      <3>1. q.pc = "delete" => q.next # NoManifest
        BY NoManifestFacts DEF RunningOK, PublishOK, Active
      <3>2. q.next = NoManifest \/ q.next.gen # proc[c].next.gen
        BY <1>1, BackApart
      <3>3. QED
        BY <1>1, <3>1, <3>2
    <2>4. DoomedOK(q)'
      BY <2>0, <2>1, <2>3 DEF DoomedOK
    <2>5. QED
      BY <2>2, <2>4
  <1>5. CASE p = Published(proc[c])
    <2>1. p.next = NoManifest /\ p.prev = proc[c].next /\ p.pc = "prune"
      BY <1>5 DEF Published, Returned, Dead
    <2>2. AttemptOK(p)' /\ DoomedOK(p)'
      <3>0. NoManifest.gen = 0 /\ NoManifest.sum = 0
        BY DEF NoManifest
      <3>1. NoManifest.gen = NoManifest.sum /\ NoManifest.gen <= clock
        BY <1>1, <3>0
      <3>2. AttemptOK(p)'
        BY <1>2, <2>1, <3>1 DEF AttemptOK, Active, Uploaded
      <3>3. DoomedOK(p)'
        BY <1>1, <2>1 DEF DoomedOK
      <3>4. QED
        BY <3>2, <3>3
    <2>3. QED
      BY <1>1, <1>3, <1>4, <2>1, <2>2, BackApart, BackFrame
  <1>6. CASE p.pc \in {"reconcile", "readBack"} /\ p.next = proc[c].next
             /\ p.prev = proc[c].prev
    <2>1. AttemptOK(p)' /\ DoomedOK(p)'
      BY <1>1, <1>2, <1>6 DEF AttemptOK, DoomedOK, Active, Uploaded, Backed
    <2>2. QED
      BY <1>1, <1>3, <1>4, <1>6, <2>1, BackApart, BackFrame
  <1>7. QED
    BY <1>5, <1>6

\* A deletion removes neither the manifest's objects nor another attempt's.
LEMMA BackDelete ==
  ASSUME Conditions, TypeOK, RunningOK, BackInv, NEW c \in Crawlers,
         CleanupDelete(c) \/ PruneDelete(c)
  PROVE  BackInv'
  <1>1. UNCHANGED <<manifest, late, clock>>
    BY DEF CleanupDelete, PruneDelete
  <1>2. /\ proc \in [Crawlers -> Procs] /\ OwnGeneration /\ late' = {}
        /\ proc[c] \in Procs /\ AttemptOK(proc[c]) /\ DoomedOK(proc[c])
        /\ clock \in Nat
    BY <1>1 DEF TypeOK, BackInv
  <1>3. PICK k, p :
          /\ k \in proc[c].doomed
          /\ objs' \in {objs, Without(k)} /\ Set(c, p)
          /\ p.pc = proc[c].pc /\ p.next = proc[c].next /\ p.prev = proc[c].prev
          /\ p.doomed = proc[c].doomed \ {k}
    <2>1. CASE CleanupDelete(c)
      <3>1. PICK k \in proc[c].doomed :
              /\ objs' \in {objs, Without(k)}
              /\ Set(c, [proc[c] EXCEPT !.doomed = @ \ {k}])
        BY <2>1 DEF CleanupDelete
      <3> DEFINE p == [proc[c] EXCEPT !.doomed = @ \ {k}]
      <3>2. /\ p.pc = proc[c].pc /\ p.next = proc[c].next /\ p.prev = proc[c].prev
            /\ p.doomed = proc[c].doomed \ {k}
        BY <1>2 DEF Procs
      <3>3. Set(c, p)
        BY <3>1
      <3> HIDE DEF p
      <3>4. QED
        BY <3>1, <3>2, <3>3
    <2>2. CASE PruneDelete(c)
      <3>1. PICK k \in proc[c].doomed :
              /\ objs' \in {objs, Without(k)}
              /\ LET p == [proc[c] EXCEPT !.doomed = @ \ {k}] IN
                 Set(c, [p EXCEPT !.quota = @ - 1]) \/ Set(c, p)
        BY <2>2 DEF PruneDelete
      <3> DEFINE p == [proc[c] EXCEPT !.doomed = @ \ {k}]
                 r == [p EXCEPT !.quota = @ - 1]
      <3>2. /\ p.pc = proc[c].pc /\ p.next = proc[c].next /\ p.prev = proc[c].prev
            /\ p.doomed = proc[c].doomed \ {k}
            /\ r.pc = proc[c].pc /\ r.next = proc[c].next /\ r.prev = proc[c].prev
            /\ r.doomed = proc[c].doomed \ {k}
        BY <1>2 DEF Procs
      <3>3. Set(c, p) \/ Set(c, r)
        BY <3>1
      <3> HIDE DEF p, r
      <3>4. QED
        BY <3>1, <3>2, <3>3
    <2>3. QED
      BY <2>1, <2>2
  <1>4. /\ proc[c].pc \in {"delete", "pruneDelete"}
        /\ proc[c].pc = "delete" => k.gen = proc[c].next.gen
        /\ proc[c].pc = "pruneDelete" =>
             Keep > 0 /\ k.gen # manifest.gen /\ \A d \in Crawlers : c = d
    <2>1. proc[c].pc \in {"delete", "pruneDelete"}
      BY DEF CleanupDelete, PruneDelete
    <2>2. QED
      BY <1>2, <1>3, <2>1 DEF DoomedOK, Conditions
  <1>5. k.gen # manifest.gen
    BY <1>2, <1>3, <1>4 DEF DoomedOK
  <1>6. /\ objs' \subseteq objs
        /\ \A n, m : Obj(n, m) \in objs /\ m.gen # k.gen => Obj(n, m) \in objs'
    BY <1>3 DEF Without, KeyOf, Obj
  <1>7. ManifestBacked' /\ StoreOK'
    <2>1. Backed(manifest) => \A n \in Networks : Obj(n, manifest) \in objs'
      BY <1>5, <1>6 DEF Backed
    <2>2. QED
      BY <1>1, <1>6, <2>1 DEF BackInv, ManifestBacked, StoreOK, Backed
  <1>8. \A d \in Crawlers \ {c} : \A q : q = proc[d] => AttemptOK(q)' /\ DoomedOK(q)'
    <2> SUFFICES ASSUME NEW d \in Crawlers \ {c}, NEW q, q = proc[d]
                 PROVE  AttemptOK(q)' /\ DoomedOK(q)'
      OBVIOUS
    <2>1. AttemptOK(q) /\ DoomedOK(q)
      BY DEF BackInv
    <2>2. q.pc \in Active => q.next.gen # k.gen
      <3>1. q.pc \in Active => q.next # NoManifest
        BY NoManifestFacts DEF RunningOK, PublishOK, Active
      <3>2. QED
        BY <1>2, <1>4, <3>1, BackApart
    <2>3. AttemptOK(q)'
      BY <1>1, <1>6, <2>1, <2>2 DEF AttemptOK, Backed, Active, Uploaded
    <2>4. DoomedOK(q)'
      BY <1>1, <2>1 DEF DoomedOK
    <2>5. QED
      BY <2>3, <2>4
  <1>9. AttemptOK(p)' /\ DoomedOK(p)'
    BY <1>1, <1>2, <1>3, <1>4 DEF AttemptOK, DoomedOK, Uploaded, Active
  <1>10. QED
    BY <1>2, <1>3, <1>7, <1>8, <1>9, BackApart, BackFrame

-----------------------------------------------------------------------------
LEMMA BackInit == Init => BackInv
  <1> SUFFICES ASSUME Init PROVE BackInv
    OBVIOUS
  <1>1. /\ Dead.next = NoManifest /\ Dead.prev.gen = 0 /\ Dead.pc = "down"
        /\ NoManifest.gen = 0 /\ NoManifest.sum = 0 /\ clock = 0
    BY DEF Init, Dead, NoManifest
  <1>2. AttemptOK(Dead) /\ DoomedOK(Dead)
    BY <1>1, BackIdle DEF Active
  <1>3. \A c \in Crawlers : proc[c] = Dead
    BY DEF Init
  <1>4. OwnGeneration /\ StoreOK /\ ManifestBacked
    BY <1>1, <1>3 DEF Init, OwnGeneration, StoreOK, ManifestBacked
  <1>5. QED
    BY <1>2, <1>3, <1>4 DEF BackInv, Init

LEMMA BackNext ==
  ASSUME Conditions, TypeOK, RunningOK, BackInv, [Next]_vars
  PROVE  BackInv'
  <1>1. ASSUME NEW c \in Crawlers, Writing(c) PROVE BackInv'
    <2>a. proc[c] \in Procs
      BY DEF TypeOK
    <2>b. \A e : LET p == [proc[c] EXCEPT !.pc = "reconcile", !.err = e] IN
            p.pc = "reconcile" /\ p.next = proc[c].next /\ p.prev = proc[c].prev
      BY <2>a DEF Procs
    <2>c. LET p == [proc[c] EXCEPT !.pc = "readBack"] IN
            p.pc = "readBack" /\ p.next = proc[c].next /\ p.prev = proc[c].prev
      BY <2>a DEF Procs
    <2>1. CASE PutIfVersion(c)
      BY <2>1, BackCommit DEF PutIfVersion, Uploaded
    <2>2. CASE PutIfVersionAmbiguous(c)
      <3>1. PICK e \in {"other", "conflict"} :
              Set(c, [proc[c] EXCEPT !.pc = "reconcile", !.err = e])
        BY <2>2 DEF PutIfVersionAmbiguous, Failed
      <3>2. /\ Commit(proc[c].next) /\ UNCHANGED <<objs, late, clock>>
            /\ proc[c].pc \in Uploaded
        BY <2>2 DEF PutIfVersionAmbiguous, Uploaded
      <3>3. QED
        BY <2>b, <3>1, <3>2, BackCommit
    <2>3. CASE PutBlind(c)
      <3>1. UNCHANGED <<objs, late, clock>> /\ proc[c].pc \in Uploaded
        BY <2>3 DEF PutBlind, Delayed, Conditions, Uploaded
      <3>2. CASE /\ Commit(proc[c].next)
                 /\ Set(c, [proc[c] EXCEPT !.pc = "readBack"])
        BY <2>c, <3>1, <3>2, BackCommit
      <3>3. CASE Commit(proc[c].next) /\ Failed(c, "other")
        BY <2>b, <3>1, <3>3, BackCommit DEF Failed
      <3>4. CASE Failed(c, "other") /\ UNCHANGED manifest
        BY <3>1, <3>4, BackFailed, BackLocal DEF Failed
      <3>5. QED
        BY <2>3, <3>2, <3>3, <3>4 DEF PutBlind
    <2>4. QED
      BY <1>1, <2>1, <2>2, <2>3, BackWriting, BackReconcile DEF Writing
  <1>2. ASSUME NEW c \in Crawlers, Deleting(c) PROVE BackInv'
    BY <1>2, BackCleanup, BackPrune, BackDelete DEF Deleting
  <1>3. ~LateWrite
    BY DEF LateWrite, BackInv
  <1>4. CASE UNCHANGED vars
    BY <1>4 DEF vars, BackInv, ManifestBacked, StoreOK, OwnGeneration, AttemptOK,
                DoomedOK, Backed
  <1>5. QED
    BY <1>1, <1>2, <1>3, <1>4, BackStart, BackAttempt, BackUpload
       DEF Next, Publishing

\* Under the operating conditions the committed manifest names only objects
\* that are stored with the digests it records: whatever fails, is retried,
\* crashes or is pruned, readers can load it and a crawler can restart.
THEOREM ManifestStaysBacked ==
  ASSUME Conditions
  PROVE  Spec => []ManifestBacked
  <1> DEFINE Inv == TypeOK /\ RunningOK /\ BackInv
  <1>1. Init => Inv
    BY TypeInit, BackInit
  <1>2. Inv /\ [Next]_vars => Inv'
    BY TypeNext, RunningNext, BackNext
  <1>3. Inv => ManifestBacked
    BY DEF BackInv
  <1>4. QED
    BY <1>1, <1>2, <1>3, PTL DEF Spec

-----------------------------------------------------------------------------
(* The one-shot override                                                   *)

\* Manifests whose write was applied, or was sent and may still be.
Issued == commits \cup {w.m : w \in late}

Attempting == Active \ {"cleanup", "delete"}

\* An attempt is of its own run, and is only forced by an unused override.
NextOK(p) ==
  /\ p.pc \in Active => p.next.run = p.run
  /\ p.pc \in Attempting /\ p.next.forced => ~p.used /\ ~p.pending

\* After manifest m was issued by force, the process cannot force another one:
\* the override is used or pending, or m's outcome is still to be learned, or
\* the process is to stop.
Spent(p, m) ==
  \/ p.used \/ p.pending
  \/ p.pc \in {"readBack", "reconcile"} /\ m = p.next
  \/ p.pc = "stopped"
  \/ p.pc \in {"cleanup", "delete"} /\ p.back = "stopped"

Running(c) == proc[c].pc # "down"

RunsOK ==
  /\ \A c \in Crawlers : Running(c) => proc[c].run <= runs
  /\ \A c, d \in Crawlers : Running(c) /\ Running(d) /\ proc[c].run = proc[d].run => c = d
  /\ \A m \in Issued : m.run <= runs

AttemptsOK == \A c \in Crawlers : NextOK(proc[c])

AllSpent ==
  \A c \in Crawlers, m \in Issued :
    Running(c) /\ m.forced /\ m.run = proc[c].run => Spent(proc[c], m)

IssuedOnce ==
  \A a, b \in Issued : a.forced /\ b.forced /\ a.run = b.run => a = b

ForceInv == TypeOK /\ RunningOK /\ RunsOK /\ AttemptsOK /\ AllSpent /\ IssuedOnce

\* What a step of a running process may make of its state p.
Carries(p, q) ==
  /\ p.pc # "down" /\ q.pc # "down" /\ q.run = p.run /\ NextOK(q)
  /\ \A m \in Manifests : m.forced /\ Spent(p, m) => Spent(q, m)

\* A step within an attempt.
LEMMA WithinAttempt ==
  ASSUME NEW p \in Procs, NEW q, NextOK(p), p.pc \in Active,
         q.run = p.run, q.next = p.next, q.used = p.used, q.pending = p.pending,
         \/ q.pc \in Attempting /\ p.pc \in Attempting \ {"readBack", "reconcile"}
         \/ q.pc = "reconcile" /\ p.pc = "readBack"
         \/ q.pc \in {"cleanup", "delete"} /\ p.pc \in {"cleanup", "delete"} /\ q.back = p.back
         \/ q.pc \in {"cleanup", "delete"} /\ p.pc = "upload"
  PROVE  Carries(p, q)
  BY DEF Carries, NextOK, Spent, Active, Attempting

\* The publisher's helpers, by the fields that matter here.
LEMMA ReturnedFields ==
  ASSUME NEW p, NEW l
  PROVE  /\ Returned(p, l).pc = l /\ Returned(p, l).run = p.run
         /\ Returned(p, l).used = p.used /\ Returned(p, l).pending = p.pending
  BY DEF Returned, Dead

LEMMA SettleFields ==
  ASSUME NEW p \in Procs
  PROVE  /\ Settle(p).run = p.run /\ ~Settle(p).pending
         /\ Settle(p).used <=> p.used \/ p.next.forced \/ p.pending
  BY DEF Procs, Settle

LEMMA UnsettledFields ==
  ASSUME NEW p \in Procs
  PROVE  /\ Unsettled(p).run = p.run /\ Unsettled(p).next = p.next
         /\ Unsettled(p).used <=> p.used
         /\ Unsettled(p).pending <=> p.pending \/ p.next.forced
  BY DEF Procs, Unsettled

LEMMA ToCleanupFields ==
  ASSUME NEW p \in Procs, NEW b
  PROVE  /\ ToCleanup(p, b).pc = "cleanup" /\ ToCleanup(p, b).back = b
         /\ ToCleanup(p, b).run = p.run /\ ToCleanup(p, b).next = p.next
         /\ ToCleanup(p, b).used = p.used /\ ToCleanup(p, b).pending = p.pending
  BY DEF Procs, ToCleanup

ForceParts == RunsOK /\ AttemptsOK /\ AllSpent /\ IssuedOnce

\* A step of one process that carries its override along, and issues at most
\* the manifest of its own attempt.
LEMMA CarriedStep ==
  ASSUME ForceInv, TypeOK', NEW c \in Crawlers, NEW q, Set(c, q), Carries(proc[c], q),
         runs' = runs,
         \/ Issued' \subseteq Issued
         \/ /\ Issued' \subseteq Issued \cup {proc[c].next}
            /\ proc[c].pc \in {"put", "putBlind"}
            /\ proc[c].next.forced => Spent(q, proc[c].next)
  PROVE  ForceParts'
  <1> DEFINE p == proc[c]
  <1>1. /\ p \in Procs /\ p.pc # "down" /\ q.pc # "down" /\ q.run = p.run /\ NextOK(q)
        /\ \A m \in Manifests : m.forced /\ Spent(p, m) => Spent(q, m)
    BY DEF ForceInv, TypeOK, Carries
  <1>2. \A d \in Crawlers : proc'[d] = IF d = c THEN q ELSE proc[d]
    BY DEF ForceInv, TypeOK, Set
  <1>3. proc'[c] = q /\ \A d \in Crawlers : d # c => proc'[d] = proc[d]
    BY <1>2
  <1>4. Issued \subseteq Manifests /\ Issued' \subseteq Manifests
    BY DEF ForceInv, TypeOK, Issued
  <1>5. \A m \in Issued' : \/ m \in Issued
                           \/ /\ m = p.next /\ p.pc \in {"put", "putBlind"} /\ m.run = p.run
                              /\ m.forced => Spent(q, m)
    BY DEF ForceInv, AttemptsOK, NextOK, Active
  <1>6. \A m \in Issued' \ Issued : \A b \in Issued :
          ~(m.forced /\ b.forced /\ b.run = m.run)
    <2> SUFFICES ASSUME NEW m \in Issued', m \notin Issued, NEW b \in Issued,
                        m.forced, b.forced, b.run = m.run
                 PROVE  FALSE
      OBVIOUS
    <2>1. m = p.next /\ p.pc \in {"put", "putBlind"} /\ m.run = p.run
      BY <1>5
    <2>2. Spent(p, b)
      BY <1>1, <2>1 DEF ForceInv, AllSpent, Running
    <2>3. ~p.used /\ ~p.pending
      BY <2>1 DEF ForceInv, AttemptsOK, NextOK, Attempting, Active
    <2>4. QED
      BY <2>1, <2>2, <2>3 DEF Spent
  <1>7. RunsOK'
    <2>1. \A d \in Crawlers : Running(d)' => Running(d) /\ proc'[d].run = proc[d].run
      BY <1>1, <1>3 DEF Running
    <2>2. p.run <= runs /\ \A m \in Issued : m.run <= runs
      BY <1>1 DEF ForceInv, RunsOK, Running
    <2>3. \A m \in Issued' : m.run <= runs
      BY <1>5, <2>2
    <2>4. QED
      BY <2>1, <2>3 DEF ForceInv, RunsOK
  <1>8. AttemptsOK'
    BY <1>1, <1>3 DEF ForceInv, AttemptsOK
  <1>9. AllSpent'
    <2> SUFFICES ASSUME NEW d \in Crawlers, NEW m \in Issued',
                        Running(d)', m.forced, m.run = proc'[d].run
                 PROVE  Spent(proc'[d], m)
      BY DEF AllSpent
    <2>1. CASE d = c
      <3>1. m \in Issued => Spent(p, m)
        BY <1>1, <1>3, <2>1 DEF ForceInv, AllSpent, Running
      <3>2. Spent(q, m)
        BY <1>1, <1>4, <1>5, <3>1
      <3>3. QED
        BY <1>3, <2>1, <3>2
    <2>2. CASE d # c
      <3>1. Running(d) /\ proc'[d] = proc[d] /\ proc[d].run # p.run
        BY <1>1, <1>3, <2>2 DEF Running, ForceInv, RunsOK
      <3>2. m \in Issued
        BY <1>5, <3>1
      <3>3. QED
        BY <3>1, <3>2 DEF ForceInv, AllSpent
    <2>3. QED
      BY <2>1, <2>2
  <1>10. IssuedOnce'
    <2>1. \A m, b \in Issued' \ Issued : m = b
      BY <1>5
    <2>2. QED
      BY <1>6, <2>1 DEF ForceInv, IssuedOnce
  <1>11. QED
    BY <1>7, <1>8, <1>9, <1>10 DEF ForceParts

\* No step of a process: nothing new is issued.
LEMMA StoreStep ==
  ASSUME ForceInv, UNCHANGED <<proc, runs>>, Issued' \subseteq Issued
  PROVE  ForceParts'
  <1>1. RunsOK'
    BY DEF ForceInv, RunsOK, Running
  <1>2. AttemptsOK'
    BY DEF ForceInv, AttemptsOK
  <1>3. AllSpent'
    BY DEF ForceInv, AllSpent, Running
  <1>4. IssuedOnce'
    BY DEF ForceInv, IssuedOnce
  <1>5. QED
    BY <1>1, <1>2, <1>3, <1>4 DEF ForceParts

LEMMA CrashStep ==
  ASSUME ForceInv, NEW c \in Crawlers, Crash(c)
  PROVE  ForceParts'
  <1>1. \A d \in Crawlers : proc'[d] = IF d = c THEN Dead ELSE proc[d]
    BY DEF ForceInv, TypeOK, Crash, Set
  <1>2. runs' = runs /\ Issued' = Issued
    BY DEF Crash, Issued
  <1>3. \A d \in Crawlers : Running(d)' => Running(d) /\ proc'[d] = proc[d]
    BY <1>1 DEF Running, Dead
  <1>4. NextOK(Dead)
    BY DEF NextOK, Dead, Active, Attempting
  <1>5. RunsOK'
    BY <1>2, <1>3 DEF ForceInv, RunsOK
  <1>6. AttemptsOK'
    BY <1>1, <1>4 DEF ForceInv, AttemptsOK
  <1>7. AllSpent'
    BY <1>2, <1>3 DEF ForceInv, AllSpent
  <1>8. IssuedOnce'
    BY <1>2 DEF ForceInv, IssuedOnce
  <1>9. QED
    BY <1>5, <1>6, <1>7, <1>8 DEF ForceParts

\* A new run has issued nothing.
LEMMA RestartStep ==
  ASSUME ForceInv, NEW c \in Crawlers, Restart(c)
  PROVE  ForceParts'
  <1> DEFINE q == [Dead EXCEPT !.pc = "prune", !.run = runs + 1, !.prev = manifest,
                               !.todo = Networks]
  <1>1. q.pc = "prune" /\ q.run = runs + 1
    BY DEF Dead
  <1>2. /\ \A d \in Crawlers : proc'[d] = IF d = c THEN q ELSE proc[d]
        /\ runs' = runs + 1 /\ Issued' = Issued /\ runs \in Nat
    BY DEF ForceInv, TypeOK, Restart, Set, Issued
  <1> HIDE DEF q
  <1>3. /\ \A m \in Issued : m.run \in Nat /\ m.run <= runs
        /\ \A d \in Crawlers : proc[d].run \in Nat /\ (Running(d) => proc[d].run <= runs)
    BY DEF ForceInv, TypeOK, Issued, Manifests, Procs, RunsOK
  <1>4. \A d \in Crawlers : d # c => proc'[d] = proc[d] /\ (Running(d)' <=> Running(d))
    BY <1>2 DEF Running
  <1>5. proc'[c] = q
    BY <1>2
  <1>6. RunsOK'
    <2>1. \A d \in Crawlers : Running(d)' => proc'[d].run <= runs'
      BY <1>1, <1>2, <1>3, <1>4, <1>5
    <2>2. \A d, e \in Crawlers :
            Running(d)' /\ Running(e)' /\ proc'[d].run = proc'[e].run => d = e
      <3> SUFFICES ASSUME NEW d \in Crawlers, NEW e \in Crawlers, Running(d)', Running(e)',
                          proc'[d].run = proc'[e].run
                   PROVE  d = e
        OBVIOUS
      <3>1. CASE d # c /\ e # c
        BY <1>4, <3>1 DEF ForceInv, RunsOK
      <3>2. CASE d = c /\ e # c
        BY <1>1, <1>2, <1>3, <1>4, <1>5, <3>2
      <3>3. CASE d # c /\ e = c
        BY <1>1, <1>2, <1>3, <1>4, <1>5, <3>3
      <3>4. QED
        BY <3>1, <3>2, <3>3
    <2>3. \A m \in Issued' : m.run <= runs'
      BY <1>2, <1>3
    <2>4. QED
      BY <2>1, <2>2, <2>3 DEF RunsOK
  <1>7. AttemptsOK'
    <2>1. NextOK(q)
      BY <1>1 DEF NextOK, Active, Attempting
    <2>2. QED
      BY <1>2, <2>1 DEF ForceInv, AttemptsOK
  <1>8. AllSpent'
    <2> SUFFICES ASSUME NEW d \in Crawlers, NEW m \in Issued, Running(d)', m.forced,
                        m.run = proc'[d].run
                 PROVE  Spent(proc'[d], m)
      BY <1>2 DEF AllSpent
    <2>1. d # c
      BY <1>1, <1>3, <1>2, <1>5
    <2>2. QED
      BY <1>4, <2>1 DEF ForceInv, AllSpent
  <1>9. IssuedOnce'
    BY <1>2 DEF ForceInv, IssuedOnce
  <1>10. QED
    BY <1>6, <1>7, <1>8, <1>9 DEF ForceParts

\* An error of WriteConditional leaves the verdict to Reconcile.
LEMMA FailedCarries ==
  ASSUME ForceInv, NEW c \in Crawlers, NEW e, Failed(c, e), proc[c].pc \in Active,
         proc[c].pc \notin {"upload", "reconcile", "cleanup", "delete"}
  PROVE  \E q : /\ Set(c, q) /\ Carries(proc[c], q)
                /\ q.pc = "reconcile" /\ q.next = proc[c].next
  <1> DEFINE q == [proc[c] EXCEPT !.pc = "reconcile", !.err = e]
  <1>1. proc[c] \in Procs /\ NextOK(proc[c])
    BY DEF ForceInv, TypeOK, AttemptsOK
  <1>2. /\ q.pc = "reconcile" /\ q.run = proc[c].run /\ q.next = proc[c].next
        /\ q.used = proc[c].used /\ q.pending = proc[c].pending
    BY <1>1 DEF Procs
  <1>3. Set(c, q)
    BY DEF Failed
  <1> HIDE DEF q
  <1>4. Carries(proc[c], q)
    BY <1>1, <1>2, WithinAttempt DEF Active, Attempting
  <1>5. QED
    BY <1>2, <1>3, <1>4

\* The publish succeeded.
LEMMA PublishedCarries ==
  ASSUME ForceInv, NEW c \in Crawlers, proc[c].pc \in {"put", "readBack", "reconcile"}
  PROVE  /\ Carries(proc[c], Published(proc[c]))
         /\ proc[c].next.forced => Published(proc[c]).used
  <1> DEFINE p == proc[c]
             q == Published(p)
  <1>1. p \in Procs /\ NextOK(p)
    BY DEF ForceInv, TypeOK, AttemptsOK
  <1>2. /\ q.pc = "prune" /\ q.run = p.run
        /\ q.used <=> p.used \/ p.next.forced \/ p.pending
    <2>1. q.pc = "prune" /\ q.run = Settle(p).run /\ q.used = Settle(p).used
      BY DEF Published, Returned, Dead
    <2>2. QED
      BY <1>1, <2>1, SettleFields
  <1> HIDE DEF q
  <1>3. Carries(p, q)
    BY <1>1, <1>2 DEF Carries, NextOK, Spent, Active, Attempting
  <1>4. QED
    BY <1>2, <1>3 DEF q

\* The other verdicts of Reconcile.
LEMMA VerdictCarries ==
  ASSUME ForceInv, NEW c \in Crawlers, proc[c].pc = "reconcile"
  PROVE  /\ \A stored : Carries(proc[c], [Returned(Settle(proc[c]), "idle") EXCEPT !.prev = stored])
         /\ Carries(proc[c], Returned(Unsettled(proc[c]), "idle"))
         /\ Carries(proc[c], ToCleanup(proc[c], "stopped"))
         /\ Carries(proc[c], ToCleanup(Unsettled(proc[c]), "idle"))
  <1> DEFINE p == proc[c]
             s == Settle(p)
             u == Unsettled(p)
  <1>1. p \in Procs /\ NextOK(p) /\ s \in Procs /\ u \in Procs
    BY HelperTypes DEF ForceInv, TypeOK, AttemptsOK
  <1>2. s.run = p.run /\ (s.used <=> p.used \/ p.next.forced \/ p.pending)
    BY <1>1, SettleFields
  <1>3. /\ u.run = p.run /\ u.next = p.next /\ (u.used <=> p.used)
        /\ u.pending <=> p.pending \/ p.next.forced
    BY <1>1, UnsettledFields
  <1> HIDE DEF s, u
  <1>4. ASSUME NEW stored
        PROVE  Carries(p, [Returned(s, "idle") EXCEPT !.prev = stored])
    <2> DEFINE q == [Returned(s, "idle") EXCEPT !.prev = stored]
    <2>1. q.pc = "idle" /\ q.run = p.run /\ q.used = s.used
      BY <1>1, <1>2 DEF Returned, Dead
    <2> HIDE DEF q
    <2>2. Carries(p, q)
      BY <1>1, <1>2, <2>1 DEF Carries, NextOK, Spent, Active, Attempting
    <2>3. QED
      BY <2>2 DEF q
  <1>5. Carries(p, Returned(u, "idle"))
    <2> DEFINE q == Returned(u, "idle")
    <2>1. q.pc = "idle" /\ q.run = p.run /\ q.used = u.used /\ q.pending = u.pending
      BY <1>3, ReturnedFields
    <2> HIDE DEF q
    <2>2. Carries(p, q)
      BY <1>1, <1>3, <2>1 DEF Carries, NextOK, Spent, Active, Attempting
    <2>3. QED
      BY <2>2 DEF q
  <1>6. Carries(p, ToCleanup(p, "stopped"))
    <2> DEFINE q == ToCleanup(p, "stopped")
    <2>1. /\ q.pc = "cleanup" /\ q.back = "stopped" /\ q.run = p.run /\ q.next = p.next
      BY <1>1, ToCleanupFields
    <2> HIDE DEF q
    <2>2. Carries(p, q)
      BY <1>1, <2>1 DEF Carries, NextOK, Spent, Active, Attempting
    <2>3. QED
      BY <2>2 DEF q
  <1>7. Carries(p, ToCleanup(u, "idle"))
    <2> DEFINE q == ToCleanup(u, "idle")
    <2>1. /\ q.pc = "cleanup" /\ q.back = "idle" /\ q.run = p.run /\ q.next = p.next
          /\ q.used = u.used /\ q.pending = u.pending
      BY <1>1, <1>3, ToCleanupFields
    <2> HIDE DEF q
    <2>2. Carries(p, q)
      BY <1>1, <1>3, <2>1 DEF Carries, NextOK, Spent, Active, Attempting
    <2>3. QED
      BY <2>2 DEF q
  <1>8. QED
    BY <1>4, <1>5, <1>6, <1>7 DEF s, u

\* Every other step of a running process carries its override along.
LEMMA OtherCarries ==
  ASSUME ForceInv, NEW c \in Crawlers,
         \/ Admit(c) \/ UploadOK(c) \/ UploadFailed(c) \/ GetVersion(c)
         \/ PutIfVersionRefused(c) \/ Precheck(c) \/ ReadBack(c) \/ Reconcile(c) \/ Deleting(c)
  PROVE  \E q : Set(c, q) /\ Carries(proc[c], q)
  <1> DEFINE p == proc[c]
             Done == \E q : Set(c, q) /\ Carries(p, q)
  <1>0. p \in Procs /\ NextOK(p) /\ PublishOK(c, p)
    BY DEF ForceInv, TypeOK, AttemptsOK, RunningOK
  <1>1. CASE Admit(c)
    <2>1. PICK now \in WallClock(proc[c]), n \in Counts, f \in BOOLEAN :
            /\ f => MayForce(proc[c])
            /\ Set(c, [proc[c] EXCEPT !.pc = "upload",
                      !.next = Build(c, now, n, f), !.todo = Networks])
      BY <1>1 DEF Admit
    <2> DEFINE m == Build(c, now, n, f)
               q == [proc[c] EXCEPT !.pc = "upload", !.next = m, !.todo = Networks]
    <2>2. m.run = p.run /\ m.forced = f
      BY DEF Build
    <2> HIDE DEF m
    <2>3. /\ q.pc = "upload" /\ q.next = m /\ q.run = p.run
          /\ q.used = p.used /\ q.pending = p.pending
      BY <1>0 DEF Procs
    <2>4. Set(c, q) /\ p.pc = "idle" /\ (f => ~p.used /\ ~p.pending)
      BY <1>1, <2>1 DEF m, Admit, MayForce
    <2> HIDE DEF q
    <2>5. Carries(p, q)
      BY <2>2, <2>3, <2>4 DEF Carries, NextOK, Spent
    <2>6. QED
      BY <2>4, <2>5
  <1>2. CASE UploadOK(c)
    <2>1. PICK t : \E k \in {"getVersion", "upload"} :
            Set(c, [proc[c] EXCEPT !.todo = t, !.pc = k])
      BY <1>2 DEF UploadOK
    <2>2. PICK l \in {"getVersion", "upload"} : Set(c, [proc[c] EXCEPT !.todo = t, !.pc = l])
      BY <2>1
    <2> DEFINE q == [proc[c] EXCEPT !.todo = t, !.pc = l]
    <2>3. /\ q.pc = l /\ q.next = p.next /\ q.run = p.run
          /\ q.used = p.used /\ q.pending = p.pending
      BY <1>0 DEF Procs
    <2>4. Set(c, q) /\ p.pc = "upload"
      BY <1>2, <2>2 DEF UploadOK
    <2> HIDE DEF q
    <2>5. Carries(p, q)
      BY <1>0, <2>3, <2>4, WithinAttempt DEF Active, Attempting
    <2>6. QED
      BY <2>4, <2>5
  <1>3. CASE UploadFailed(c)
    <2>1. PICK keys : Set(c, [proc[c] EXCEPT !.pc = "cleanup", !.back = "idle", !.doomed = keys])
      BY <1>3 DEF UploadFailed
    <2> DEFINE q == [proc[c] EXCEPT !.pc = "cleanup", !.back = "idle", !.doomed = keys]
    <2>2. /\ q.pc = "cleanup" /\ q.next = p.next /\ q.run = p.run
          /\ q.used = p.used /\ q.pending = p.pending
      BY <1>0 DEF Procs
    <2>3. Set(c, q) /\ p.pc = "upload"
      BY <1>3, <2>1 DEF UploadFailed
    <2> HIDE DEF q
    <2>4. Carries(p, q)
      BY <1>0, <2>2, <2>3, WithinAttempt DEF Active, Attempting
    <2>5. QED
      BY <2>3, <2>4
  <1>4. CASE GetVersion(c)
    <2>1. p.pc = "getVersion"
      BY <1>4 DEF GetVersion
    <2>2. CASE \E e : Failed(c, e)
      BY <2>1, <2>2, FailedCarries DEF Active
    <2>3. CASE \E l \in {"put", "precheck"} :
                 Set(c, [proc[c] EXCEPT !.pc = l, !.expect = manifest])
      <3>1. PICK l \in {"put", "precheck"} :
              Set(c, [proc[c] EXCEPT !.pc = l, !.expect = manifest])
        BY <2>3
      <3> DEFINE q == [proc[c] EXCEPT !.pc = l, !.expect = manifest]
      <3>2. /\ q.pc = l /\ q.next = p.next /\ q.run = p.run
            /\ q.used = p.used /\ q.pending = p.pending
        BY <1>0 DEF Procs
      <3>3. Set(c, q)
        BY <3>1
      <3> HIDE DEF q
      <3>4. Carries(p, q)
        BY <1>0, <2>1, <3>2, WithinAttempt DEF Active, Attempting
      <3>5. QED
        BY <3>3, <3>4
    <2>4. QED
      BY <1>4, <2>2, <2>3 DEF GetVersion
  <1>5. CASE PutIfVersionRefused(c)
    BY <1>5, FailedCarries DEF PutIfVersionRefused, Active
  <1>6. CASE Precheck(c)
    <2>1. p.pc = "precheck"
      BY <1>6 DEF Precheck
    <2>2. CASE \E e : Failed(c, e)
      BY <2>1, <2>2, FailedCarries DEF Active
    <2>3. CASE Set(c, [proc[c] EXCEPT !.pc = "putBlind"])
      <3> DEFINE q == [proc[c] EXCEPT !.pc = "putBlind"]
      <3>2. /\ q.pc = "putBlind" /\ q.next = p.next /\ q.run = p.run
            /\ q.used = p.used /\ q.pending = p.pending
        BY <1>0 DEF Procs
      <3>3. Set(c, q)
        BY <2>3
      <3> HIDE DEF q
      <3>4. Carries(p, q)
        BY <1>0, <2>1, <3>2, WithinAttempt DEF Active, Attempting
      <3>5. QED
        BY <3>3, <3>4
    <2>4. QED
      BY <1>6, <2>2, <2>3 DEF Precheck
  <1>7. CASE ReadBack(c)
    <2>1. p.pc = "readBack"
      BY <1>7 DEF ReadBack
    <2>2. CASE \E e : Failed(c, e)
      BY <2>1, <2>2, FailedCarries DEF Active
    <2>3. CASE Set(c, Published(p))
      BY <2>1, <2>3, PublishedCarries
    <2>4. QED
      BY <1>7, <2>2, <2>3 DEF ReadBack
  <1>8. CASE Reconcile(c)
    <2>1. p.pc = "reconcile"
      BY <1>8 DEF Reconcile
    <2>2. Carries(p, Published(p))
      BY <2>1, PublishedCarries
    <2>3. QED
      BY <1>8, <2>1, <2>2, ReconcileCases, VerdictCarries
  <1>9. CASE Deleting(c)
    <2>1. CASE CleanupRead(c) \/ CleanupDelete(c)
      <3>1. PICK keys : \/ Set(c, [proc[c] EXCEPT !.pc = "delete", !.doomed = keys])
                        \/ Set(c, [proc[c] EXCEPT !.doomed = keys]) /\ p.pc = "delete"
        BY <2>1 DEF CleanupRead, CleanupDelete
      <3> DEFINE q == [proc[c] EXCEPT !.pc = "delete", !.doomed = keys]
      <3>2. Set(c, q) /\ p.pc \in {"cleanup", "delete"}
        <4>1. p.pc = "delete" => q = [proc[c] EXCEPT !.doomed = keys]
          BY <1>0 DEF Procs
        <4>2. QED
          BY <2>1, <3>1, <4>1 DEF CleanupRead, CleanupDelete
      <3>3. /\ q.pc = "delete" /\ q.next = p.next /\ q.run = p.run /\ q.back = p.back
            /\ q.used = p.used /\ q.pending = p.pending
        BY <1>0 DEF Procs
      <3> HIDE DEF q
      <3>4. Carries(p, q)
        BY <1>0, <3>2, <3>3, WithinAttempt DEF Active
      <3>5. QED
        BY <3>2, <3>4
    <2>2. CASE CleanupDone(c)
      <3> DEFINE q == Returned(p, p.back)
      <3>1. Set(c, q) /\ p.pc = "delete" /\ p.back \in {"idle", "stopped"}
        BY <1>0, <2>2 DEF CleanupDone, Procs
      <3>2. q.pc = p.back /\ q.run = p.run /\ q.used = p.used /\ q.pending = p.pending
        BY ReturnedFields
      <3> HIDE DEF q
      <3>3. Carries(p, q)
        BY <3>1, <3>2 DEF Carries, NextOK, Spent, Active, Attempting
      <3>4. QED
        BY <3>1, <3>3
    <2>3. CASE PruneList(c) \/ PruneDelete(c) \/ PruneNext(c) \/ PruneDone(c)
      <3>1. \E q : /\ Set(c, q) /\ q.pc \in {"prune", "pruneDelete", "idle"}
                   /\ q.run = p.run /\ q.used = p.used /\ q.pending = p.pending
        <4>1. CASE PruneList(c)
          <5>1. PICK n, keys, k :
                  LET r == [proc[c] EXCEPT !.todo = @ \ {n}] IN
                  \/ Set(c, [r EXCEPT !.pc = "pruneDelete", !.doomed = keys, !.quota = k])
                  \/ Set(c, r)
            BY <4>1 DEF PruneList
          <5> DEFINE r == [proc[c] EXCEPT !.todo = @ \ {n}]
                     q == [r EXCEPT !.pc = "pruneDelete", !.doomed = keys, !.quota = k]
          <5>2. /\ r.pc = "prune" /\ r.run = p.run /\ r.used = p.used /\ r.pending = p.pending
                /\ q.pc = "pruneDelete" /\ q.run = p.run /\ q.used = p.used
                /\ q.pending = p.pending
            BY <1>0, <4>1 DEF PruneList, Procs
          <5>3. Set(c, r) \/ Set(c, q)
            BY <5>1
          <5> HIDE DEF r, q
          <5>4. QED
            BY <5>2, <5>3
        <4>2. CASE PruneDelete(c)
          <5>1. PICK k : LET r == [proc[c] EXCEPT !.doomed = @ \ {k}] IN
                         Set(c, [r EXCEPT !.quota = @ - 1]) \/ Set(c, r)
            BY <4>2 DEF PruneDelete
          <5> DEFINE r == [proc[c] EXCEPT !.doomed = @ \ {k}]
                     q == [r EXCEPT !.quota = @ - 1]
          <5>2. /\ r.pc = "pruneDelete" /\ r.run = p.run /\ r.used = p.used
                /\ r.pending = p.pending
                /\ q.pc = "pruneDelete" /\ q.run = p.run /\ q.used = p.used
                /\ q.pending = p.pending
            BY <1>0, <4>2 DEF PruneDelete, Procs
          <5>3. Set(c, r) \/ Set(c, q)
            BY <5>1
          <5> HIDE DEF r, q
          <5>4. QED
            BY <5>2, <5>3
        <4>3. CASE PruneNext(c)
          <5> DEFINE q == [proc[c] EXCEPT !.pc = "prune", !.doomed = {}, !.quota = 0]
          <5>1. q.pc = "prune" /\ q.run = p.run /\ q.used = p.used /\ q.pending = p.pending
            BY <1>0 DEF Procs
          <5>2. Set(c, q)
            BY <4>3 DEF PruneNext
          <5> HIDE DEF q
          <5>3. QED
            BY <5>1, <5>2
        <4>4. CASE PruneDone(c)
          BY <4>4, ReturnedFields DEF PruneDone
        <4>5. QED
          BY <2>3, <4>1, <4>2, <4>3, <4>4
      <3>2. p.pc \in {"prune", "pruneDelete"}
        BY <2>3 DEF PruneList, PruneDelete, PruneNext, PruneDone
      <3>3. PICK q : /\ Set(c, q) /\ q.pc \in {"prune", "pruneDelete", "idle"}
                     /\ q.run = p.run /\ q.used = p.used /\ q.pending = p.pending
        BY <3>1
      <3>4. Carries(p, q)
        BY <3>2, <3>3 DEF Carries, NextOK, Spent, Active, Attempting
      <3>5. QED
        BY <3>3, <3>4
    <2>4. QED
      BY <1>9, <2>1, <2>2, <2>3 DEF Deleting
  <1>10. QED
    BY <1>1, <1>2, <1>3, <1>4, <1>5, <1>6, <1>7, <1>8, <1>9

\* The steps that send a manifest.
LEMMA IssuingStep ==
  ASSUME ForceInv, NEW c \in Crawlers,
         \/ PutIfVersion(c) \/ PutIfVersionAmbiguous(c) \/ PutIfVersionFailed(c) \/ PutBlind(c)
  PROVE  /\ proc[c].pc \in {"put", "putBlind"} /\ runs' = runs
         /\ Issued' \subseteq Issued \cup {proc[c].next}
         /\ \E q : /\ Set(c, q) /\ Carries(proc[c], q)
                   /\ proc[c].next.forced => Spent(q, proc[c].next)
  <1>1. proc[c].pc \in {"put", "putBlind"} /\ runs' = runs
    BY DEF PutIfVersion, PutIfVersionAmbiguous, PutIfVersionFailed, PutBlind
  <1>2. Issued' \subseteq Issued \cup {proc[c].next}
    <2>1. \/ commits' = commits
          \/ commits' = commits \cup {proc[c].next}
      BY DEF PutIfVersion, PutIfVersionAmbiguous, PutIfVersionFailed, PutBlind, Commit
    <2>2. \/ late' = late
          \/ \E b : late' \in Delayed(proc[c], b)
      BY DEF PutIfVersion, PutIfVersionAmbiguous, PutIfVersionFailed, PutBlind
    <2>3. \A w \in late' : w \in late \/ w.m = proc[c].next
      BY <2>2 DEF Delayed
    <2>4. QED
      BY <2>1, <2>3 DEF Issued
  <1>3. CASE \E e : Failed(c, e)
    <2>1. PICK q : /\ Set(c, q) /\ Carries(proc[c], q)
                   /\ q.pc = "reconcile" /\ q.next = proc[c].next
      BY <1>1, <1>3, FailedCarries DEF Active
    <2>2. Spent(q, proc[c].next)
      BY <2>1 DEF Spent
    <2>3. QED
      BY <1>1, <1>2, <2>1, <2>2
  <1>4. CASE PutIfVersion(c)
    <2>1. Set(c, Published(proc[c])) /\ proc[c].pc = "put"
      BY <1>4 DEF PutIfVersion
    <2>2. /\ Carries(proc[c], Published(proc[c]))
          /\ proc[c].next.forced => Spent(Published(proc[c]), proc[c].next)
      BY <2>1, PublishedCarries DEF Spent
    <2>3. QED
      BY <1>1, <1>2, <2>1, <2>2
  <1>5. CASE PutBlind(c) /\ Set(c, [proc[c] EXCEPT !.pc = "readBack"])
    <2> DEFINE q == [proc[c] EXCEPT !.pc = "readBack"]
    <2>1. proc[c] \in Procs /\ NextOK(proc[c]) /\ proc[c].pc = "putBlind"
      BY <1>5 DEF ForceInv, TypeOK, AttemptsOK, PutBlind
    <2>2. /\ q.pc = "readBack" /\ q.next = proc[c].next /\ q.run = proc[c].run
          /\ q.used = proc[c].used /\ q.pending = proc[c].pending
      BY <2>1 DEF Procs
    <2>3. Set(c, q)
      BY <1>5
    <2> HIDE DEF q
    <2>4. Carries(proc[c], q) /\ Spent(q, proc[c].next)
      BY <2>1, <2>2, WithinAttempt DEF Active, Attempting, Spent
    <2>5. QED
      BY <1>1, <1>2, <2>3, <2>4
  <1>6. QED
    BY <1>3, <1>4, <1>5 DEF PutIfVersionAmbiguous, PutIfVersionFailed, PutBlind

LEMMA ForceNext == ForceInv /\ [Next]_vars => ForceInv'
  <1> SUFFICES ASSUME ForceInv, [Next]_vars PROVE ForceInv'
    OBVIOUS
  <1>0. TypeOK' /\ RunningOK'
    BY TypeNext, RunningNext DEF ForceInv
  <1>1. SUFFICES ForceParts'
    BY <1>0 DEF ForceInv, ForceParts
  <1>2. ASSUME NEW c \in Crawlers, Restart(c) \/ Crash(c) PROVE ForceParts'
    BY <1>2, RestartStep, CrashStep
  <1>3. ASSUME NEW c \in Crawlers,
               \/ PutIfVersion(c) \/ PutIfVersionAmbiguous(c) \/ PutIfVersionFailed(c)
               \/ PutBlind(c)
        PROVE  ForceParts'
    <2>1. /\ proc[c].pc \in {"put", "putBlind"} /\ runs' = runs
          /\ Issued' \subseteq Issued \cup {proc[c].next}
          /\ \E q : /\ Set(c, q) /\ Carries(proc[c], q)
                    /\ proc[c].next.forced => Spent(q, proc[c].next)
      BY <1>3, IssuingStep
    <2>2. QED
      BY <1>0, <2>1, CarriedStep
  <1>4. ASSUME NEW c \in Crawlers,
               \/ Admit(c) \/ UploadOK(c) \/ UploadFailed(c) \/ GetVersion(c)
               \/ PutIfVersionRefused(c) \/ Precheck(c) \/ ReadBack(c) \/ Reconcile(c)
               \/ Deleting(c)
        PROVE  ForceParts'
    <2>1. UNCHANGED <<commits, late, runs>>
      BY <1>4 DEF Admit, UploadOK, UploadFailed, GetVersion, PutIfVersionRefused, Precheck,
                  ReadBack, Reconcile, Deleting, CleanupRead, CleanupDelete, CleanupDone,
                  PruneList, PruneDelete, PruneNext, PruneDone
    <2>2. Issued' \subseteq Issued /\ runs' = runs
      BY <2>1 DEF Issued
    <2>3. PICK q : Set(c, q) /\ Carries(proc[c], q)
      BY <1>4, OtherCarries
    <2>4. QED
      BY <1>0, <2>2, <2>3, CarriedStep
  <1>5. CASE LateWrite \/ UNCHANGED vars \/ \E c \in Crawlers : Quarantine(c)
    <2>1. UNCHANGED <<proc, runs>>
      BY <1>5 DEF LateWrite, vars, Quarantine
    <2>2. Issued' \subseteq Issued
      BY <1>5 DEF LateWrite, vars, Quarantine, Issued, Commit
    <2>3. QED
      BY <2>1, <2>2, StoreStep
  <1>6. QED
    BY <1>2, <1>3, <1>4, <1>5 DEF Next, Publishing, Writing

\* "the one-shot override cannot be reused" (publisher.go): a process commits at
\* most one snapshot that the shrink guard had rejected, also when the outcome of
\* the write stays unknown, when it arrives late, when the store is not atomic,
\* and when other crawlers write the same manifest.
THEOREM OverrideUsedOnce == Spec => []ForcedOnce
  <1>1. Init => ForceInv
    <2> SUFFICES ASSUME Init PROVE ForceInv
      OBVIOUS
    <2>1. TypeOK /\ RunningOK
      BY TypeInit
    <2>2. Issued = {} /\ \A c \in Crawlers : proc[c].pc = "down"
      BY DEF Init, Issued, Dead
    <2>3. QED
      BY <2>1, <2>2 DEF ForceInv, RunsOK, AttemptsOK, NextOK, AllSpent, IssuedOnce, Running,
                        Active, Attempting
  <1>2. ForceInv => ForcedOnce
    BY DEF ForceInv, IssuedOnce, ForcedOnce, Issued
  <1>3. QED
    BY <1>1, <1>2, ForceNext, PTL DEF Spec

-----------------------------------------------------------------------------
(* The query engine *)

Engines ==
  [pc: {"idle", "load"}, m: ManifestOrNone, staged: SUBSET [net: Networks, gen: Nat, sum: Nat],
   served: ManifestOrNone, tables: SUBSET [net: Networks, gen: Nat, sum: Nat], faults: Nat]

\* What is staged was verified against the manifest that was read.
StagedOK ==
  /\ engine \in Engines
  /\ engine.pc = "load" => \A o \in engine.staged : o = Obj(o.net, engine.m)
  /\ engine.pc = "idle" => engine.staged = {}

\* Every manifest is recorded when it is committed, and none before it is as new.
Recorded ==
  /\ manifest # NoManifest => manifest \in commits
  /\ \A m \in commits : m.gen < manifest.gen \/ m = manifest

\* A refresh under way reads a committed manifest newer than the served one.
ReadOK ==
  /\ engine.served # NoManifest => engine.served \in commits
  /\ engine.pc = "load" => engine.m \in commits /\ engine.m.gen > engine.served.gen

TablesInv == TypeOK /\ RunningOK /\ StagedOK /\ TablesMatchServed
FeedInv == ~Verified /\ TypeOK /\ RunningOK /\ LateOK /\ StagedOK /\ Recorded /\ ReadOK

-----------------------------------------------------------------------------
(* The served table *)

LEMMA AbandonedEngine ==
  ASSUME engine \in Engines
  PROVE  /\ Abandoned \in Engines /\ Abandoned.pc = "idle" /\ Abandoned.staged = {}
         /\ Abandoned.served = engine.served /\ Abandoned.tables = engine.tables
  BY DEF Engines, Abandoned, ManifestOrNone

LEMMA FaultCounted ==
  ASSUME NEW e \in Engines, NEW f, f = [e EXCEPT !.faults = e.faults + 1]
  PROVE  /\ f \in Engines /\ f.pc = e.pc /\ f.staged = e.staged
         /\ f.served = e.served /\ f.tables = e.tables
  BY DEF Engines

\* The steps of a refresh, by what they do to the engine.
LEMMA RefreshSteps ==
  ASSUME TypeOK, StagedOK, Refresh
  PROVE  /\ UNCHANGED vars /\ engine' \in Engines
         /\ \/ \* RefreshRead
               /\ engine.pc = "idle" /\ manifest # NoManifest /\ Identity(manifest) # Identity(engine.served)
               /\ engine'.pc = "load" /\ engine'.m = manifest /\ engine'.staged = {}
               /\ engine'.served = engine.served /\ engine'.tables = engine.tables
            \/ \* RefreshLoad
               /\ engine.pc = "load" /\ engine'.pc = "load" /\ engine'.m = engine.m
               /\ \E n \in Networks : engine'.staged = engine.staged \cup {Obj(n, engine.m)}
               /\ engine'.served = engine.served /\ engine'.tables = engine.tables
            \/ \* RefreshMissing, RefreshFailed
               /\ engine'.pc = "idle" /\ engine'.staged = {}
               /\ engine'.served = engine.served /\ engine'.tables = engine.tables
            \/ \* RefreshCommit
               /\ engine.pc = "load" /\ \A n \in Networks : \E o \in engine.staged : o.net = n
               /\ engine'.pc = "idle" /\ engine'.staged = {}
               /\ engine'.served = engine.m /\ engine'.tables = engine.staged
  <1>0. engine \in Engines
    BY DEF StagedOK
  <1>1. CASE RefreshRead
    <2>1. manifest \in ManifestOrNone /\ engine.staged = {}
      BY <1>1 DEF TypeOK, StagedOK, RefreshRead
    <2>2. /\ engine' \in Engines /\ engine'.pc = "load" /\ engine'.m = manifest
          /\ engine'.staged = {} /\ engine'.served = engine.served /\ engine'.tables = engine.tables
      BY <1>0, <1>1, <2>1 DEF RefreshRead, Engines
    <2>3. QED
      BY <1>1, <2>2 DEF RefreshRead
  <1>2. ASSUME NEW n \in Networks, RefreshLoad(n)
        PROVE  /\ UNCHANGED vars /\ engine' \in Engines
               /\ engine.pc = "load" /\ engine'.pc = "load" /\ engine'.m = engine.m
               /\ engine'.staged = engine.staged \cup {Obj(n, engine.m)}
               /\ engine'.served = engine.served /\ engine'.tables = engine.tables
    <2>1. Obj(n, engine.m) \in [net: Networks, gen: Nat, sum: Nat]
      BY <1>0, NoManifestFacts DEF Obj, Engines
    <2>2. engine' = [engine EXCEPT !.staged = engine.staged \cup {Obj(n, engine.m)}]
      BY <1>2 DEF RefreshLoad, Verifies
    <2> DEFINE o == Obj(n, engine.m)
    <2> HIDE DEF o
    <2>3. /\ engine' \in Engines /\ engine'.pc = engine.pc /\ engine'.m = engine.m
          /\ engine'.staged = engine.staged \cup {o}
          /\ engine'.served = engine.served /\ engine'.tables = engine.tables
      <3>1. o \in [net: Networks, gen: Nat, sum: Nat]
        BY <2>1 DEF o
      <3>2. engine' = [engine EXCEPT !.staged = engine.staged \cup {o}]
        BY <2>2 DEF o
      <3>3. QED
        BY <1>0, <3>1, <3>2 DEF Engines
    <2>4. QED
      BY <1>2, <2>3 DEF RefreshLoad, o
  <1> DEFINE a == Abandoned
  <1>3. /\ a \in Engines /\ a.pc = "idle" /\ a.staged = {}
        /\ a.served = engine.served /\ a.tables = engine.tables
    BY <1>0, AbandonedEngine
  <1>4. ASSUME NEW n \in Networks, RefreshMissing(n)
        PROVE  UNCHANGED vars /\ engine' = a
    BY <1>4 DEF RefreshMissing
  <1>5. CASE RefreshFailed
    <2>1. engine' = [a EXCEPT !.faults = a.faults + 1] /\ UNCHANGED vars
      BY <1>0, <1>5 DEF RefreshFailed, Abandoned, Engines
    <2> HIDE DEF a
    <2>2. /\ engine' \in Engines /\ engine'.pc = "idle" /\ engine'.staged = {}
          /\ engine'.served = engine.served /\ engine'.tables = engine.tables
      BY <1>3, <2>1, FaultCounted
    <2>3. QED
      BY <2>1, <2>2
  <1>6. CASE RefreshCommit
    <2>1. engine' = [a EXCEPT !.served = engine.m, !.tables = engine.staged] /\ UNCHANGED vars
      BY <1>6 DEF RefreshCommit
    <2>2. engine.m \in ManifestOrNone /\ engine.staged \in SUBSET [net: Networks, gen: Nat, sum: Nat]
      BY <1>0 DEF Engines
    <2> HIDE DEF a
    <2>3. /\ engine' \in Engines /\ engine'.pc = "idle" /\ engine'.staged = {}
          /\ engine'.served = engine.m /\ engine'.tables = engine.staged
      <3> DEFINE m == engine.m
                 t == engine.staged
      <3>1. /\ m \in ManifestOrNone /\ t \in SUBSET [net: Networks, gen: Nat, sum: Nat]
            /\ engine' = [a EXCEPT !.served = m, !.tables = t]
        BY <2>1, <2>2
      <3> HIDE DEF m, t
      <3>2. /\ engine' \in Engines /\ engine'.pc = a.pc /\ engine'.staged = a.staged
            /\ engine'.served = m /\ engine'.tables = t
        BY <1>3, <3>1 DEF Engines
      <3>3. QED
        BY <1>3, <3>2 DEF m, t
    <2>4. QED
      BY <1>6, <2>1, <2>3 DEF RefreshCommit
  <1>7. QED
    BY <1>1, <1>2, <1>3, <1>4, <1>5, <1>6 DEF Refresh

\* What a refresh stages is of one manifest.
LEMMA StagedStep ==
  ASSUME TypeOK, StagedOK, [ReadNext]_readVars
  PROVE  StagedOK'
  <1>1. CASE Refresh
    <2> DEFINE e == engine'
    <2>1. \A n \in Networks : Obj(n, engine.m).net = n
      BY DEF Obj
    <2>2. engine' \in Engines
      BY <1>1, RefreshSteps
    <2>3. engine'.pc = "load" => \A o \in engine'.staged : o = Obj(o.net, engine'.m)
      BY <1>1, <2>1, RefreshSteps DEF StagedOK
    <2>4. engine'.pc = "idle" => engine'.staged = {}
      BY <1>1, RefreshSteps
    <2>5. QED
      BY <2>2, <2>3, <2>4 DEF StagedOK
  <1>2. CASE UNCHANGED engine
    BY <1>2 DEF StagedOK
  <1>3. QED
    BY <1>1, <1>2 DEF ReadNext, readVars

LEMMA TablesStep ==
  ASSUME TypeOK, StagedOK, TablesMatchServed, [ReadNext]_readVars
  PROVE  TablesMatchServed'
  <1>1. CASE engine'.served = engine.served /\ engine'.tables = engine.tables
    BY <1>1 DEF TablesMatchServed, Obj
  <1>2. CASE /\ engine.pc = "load" /\ \A n \in Networks : \E o \in engine.staged : o.net = n
             /\ engine'.served = engine.m /\ engine'.tables = engine.staged
    <2>1. engine.staged = {Obj(n, engine.m) : n \in Networks}
      <3>1. \A o \in engine.staged : o.net \in Networks /\ o = Obj(o.net, engine.m)
        BY <1>2 DEF StagedOK, Engines
      <3>2. QED
        BY <1>2, <3>1
    <2>2. QED
      BY <1>2, <2>1 DEF TablesMatchServed, Obj
  <1>3. CASE Refresh
    BY <1>1, <1>2, <1>3, RefreshSteps
  <1>4. QED
    BY <1>1, <1>3 DEF ReadNext, readVars

\* Steps of the engine are no steps of the publishers.
LEMMA PublisherStep == [ReadNext]_readVars /\ TypeOK /\ StagedOK => [Next]_vars
  BY RefreshSteps DEF ReadNext, readVars

LEMMA ReadInitOK == ReadInit => TypeOK /\ RunningOK /\ StagedOK /\ TablesMatchServed
  <1> SUFFICES ASSUME ReadInit PROVE TypeOK /\ RunningOK /\ StagedOK /\ TablesMatchServed
    OBVIOUS
  <1>1. TypeOK /\ RunningOK
    BY TypeInit DEF ReadInit
  <1>2. StagedOK /\ TablesMatchServed
    BY DEF ReadInit, StagedOK, Engines, TablesMatchServed, ManifestOrNone
  <1>3. QED
    BY <1>1, <1>2

\* Whatever crawlers commit, overwrite, prune or lose while a refresh reads, the
\* served table holds for every network exactly the object that the served manifest
\* vouches for: never two generations at once.
THEOREM ServedTableIsOneGeneration == ReadSpec => []TablesMatchServed
  <1>1. TablesInv /\ [ReadNext]_readVars => TablesInv'
    BY PublisherStep, TypeNext, RunningNext, StagedStep, TablesStep DEF TablesInv
  <1>2. ReadInit => TablesInv
    BY ReadInitOK DEF TablesInv
  <1>3. TablesInv => TablesMatchServed
    BY DEF TablesInv
  <1>4. QED
    BY <1>1, <1>2, <1>3, PTL DEF ReadSpec

-----------------------------------------------------------------------------
(* The feed *)

\* With an atomic PutIfVersion a commit is of a newer manifest, and nothing else
\* records one.
LEMMA CommitStep ==
  ASSUME ~Verified, TypeOK, RunningOK, LateOK, [Next]_vars
  PROVE  \/ UNCHANGED <<manifest, commits>>
         \/ /\ manifest' \in Manifests /\ manifest'.gen > manifest.gen
            /\ commits' = commits \cup {manifest'}
  <1>1. ASSUME NEW c \in Crawlers, PutIfVersion(c) \/ PutIfVersionAmbiguous(c)
        PROVE  /\ manifest' \in Manifests /\ manifest'.gen > manifest.gen
               /\ commits' = commits \cup {manifest'}
    BY <1>1 DEF PutIfVersion, PutIfVersionAmbiguous, Commit, RunningOK, PublishOK, Active
  <1>2. ASSUME NEW c \in Crawlers, PutBlind(c) PROVE FALSE
    BY <1>2 DEF PutBlind, RunningOK, PublishOK
  <1>3. CASE LateWrite
    <2>1. PICK w \in late : IF w.cond /\ manifest # w.expect THEN UNCHANGED <<manifest, commits>>
                                                             ELSE Commit(w.m)
      BY <1>3 DEF LateWrite
    <2>2. w.cond /\ w.m.gen > w.expect.gen /\ w.m \in Manifests
      BY <2>1 DEF LateOK, TypeOK
    <2>3. QED
      BY <2>1, <2>2 DEF Commit
  <1>4. ASSUME NEW c \in Crawlers, Restart(c) \/ Crash(c) PROVE UNCHANGED <<manifest, commits>>
    BY <1>4 DEF Restart, Crash
  <1>5. ASSUME NEW c \in Crawlers,
               Admit(c) \/ Quarantine(c) \/ UploadOK(c) \/ UploadFailed(c)
        PROVE  UNCHANGED <<manifest, commits>>
    BY <1>5 DEF Admit, Quarantine, UploadOK, UploadFailed
  <1>6. ASSUME NEW c \in Crawlers, Deleting(c) PROVE UNCHANGED <<manifest, commits>>
    BY <1>6 DEF Deleting, CleanupRead, CleanupDelete, CleanupDone, PruneList,
                PruneDelete, PruneNext, PruneDone
  <1>7. ASSUME NEW c \in Crawlers,
               \/ GetVersion(c) \/ PutIfVersionRefused(c)
               \/ PutIfVersionFailed(c) \/ Precheck(c) \/ ReadBack(c)
               \/ Reconcile(c)
        PROVE  UNCHANGED <<manifest, commits>>
    BY <1>7 DEF GetVersion, PutIfVersionRefused, PutIfVersionFailed, Precheck,
                ReadBack, Reconcile
  <1>8. QED
    BY <1>1, <1>2, <1>3, <1>4, <1>5, <1>6, <1>7 DEF Next, Publishing, Writing, vars

LEMMA ManifestGens ==
  ASSUME TypeOK, StagedOK
  PROVE  /\ manifest.gen \in Nat /\ (manifest # NoManifest => manifest.gen > 0)
         /\ engine.served.gen \in Nat /\ engine.m.gen \in Nat
         /\ NoManifest.gen = 0
         /\ \A m \in commits : m.gen \in Nat /\ m.gen > 0 /\ m # NoManifest
  <1>1. \A m \in ManifestOrNone : m.gen \in Nat /\ (m # NoManifest => m.gen > 0)
    BY NoManifestFacts DEF ManifestOrNone, Manifests
  <1>2. manifest \in ManifestOrNone /\ commits \subseteq Manifests
    BY DEF TypeOK
  <1>3. engine.served \in ManifestOrNone /\ engine.m \in ManifestOrNone
    BY DEF StagedOK, Engines
  <1>4. NoManifest.gen = 0
    BY NoManifestFacts
  <1>5. \A m \in Manifests : m.gen > 0 /\ m.gen \in Nat
    BY DEF Manifests
  <1>6. QED
    BY <1>1, <1>2, <1>3, <1>4, <1>5

\* Every step is one of the feed's, and the next state is as good.
LEMMA FeedStep ==
  ASSUME FeedInv, [ReadNext]_readVars
  PROVE  FeedInv' /\ [Feed!Next]_(Feed!feedVars)
  <1>0. /\ ~Verified /\ TypeOK /\ RunningOK /\ LateOK /\ StagedOK /\ Recorded /\ ReadOK
        /\ [Next]_vars
    BY PublisherStep DEF FeedInv
  <1>1. TypeOK' /\ RunningOK' /\ LateOK' /\ StagedOK'
    BY <1>0, TypeNext, RunningNext, LateNext, StagedStep
  <1>2. CASE UNCHANGED engine
    <2>1. CASE UNCHANGED <<manifest, commits>>
      BY <1>0, <1>1, <1>2, <2>1 DEF FeedInv, Recorded, ReadOK, Feed!feedVars
    <2>2. CASE /\ manifest' \in Manifests /\ manifest'.gen > manifest.gen
               /\ commits' = commits \cup {manifest'}
      <3>1. Recorded'
        <4>1. \A m \in commits : m.gen \in Nat /\ m.gen < manifest'.gen
          <5>1. manifest.gen \in Nat /\ manifest'.gen \in Nat
            BY <1>0, <2>2, ManifestGens DEF Manifests
          <5>2. ASSUME NEW m \in commits PROVE m.gen \in Nat /\ m.gen <= manifest.gen
            BY <1>0, <5>1, ManifestGens DEF Recorded
          <5>3. QED
            BY <2>2, <5>1, <5>2
        <4>2. QED
          BY <2>2, <4>1 DEF Recorded
      <3>2. ReadOK'
        BY <1>0, <1>2, <2>2 DEF ReadOK
      <3>3. Feed!Publish
        BY <1>2, <2>2 DEF Feed!Publish
      <3>4. QED
        BY <1>0, <1>1, <3>1, <3>2, <3>3 DEF FeedInv, Feed!Next
    <2>3. QED
      BY <1>0, <2>1, <2>2, CommitStep
  <1>3. CASE Refresh
    <2>1. UNCHANGED <<manifest, commits>>
      BY <1>0, <1>3, RefreshSteps DEF vars
    <2>2. Recorded'
      BY <1>0, <2>1 DEF Recorded
    <2>3. CASE /\ engine.pc = "idle" /\ manifest # NoManifest /\ Identity(manifest) # Identity(engine.served)
               /\ engine'.pc = "load" /\ engine'.m = manifest
               /\ engine'.served = engine.served
      <3>1. engine.served # manifest
        BY <2>3 DEF Identity
      <3>2. manifest.gen > engine.served.gen
        BY <1>0, <2>3, <3>1, ManifestGens DEF Recorded, ReadOK
      <3>3. ReadOK'
        BY <1>0, <2>1, <2>3, <3>2 DEF ReadOK, Recorded
      <3>4. QED
        BY <1>0, <1>1, <2>1, <2>2, <2>3, <3>3 DEF FeedInv, Feed!feedVars
    <2>4. CASE /\ engine.pc = "load" /\ engine'.pc = "load" /\ engine'.m = engine.m
               /\ engine'.served = engine.served
      <3>1. ReadOK'
        BY <1>0, <2>1, <2>4 DEF ReadOK
      <3>2. QED
        BY <1>0, <1>1, <2>1, <2>2, <2>4, <3>1 DEF FeedInv, Feed!feedVars
    <2>5. CASE engine'.pc = "idle" /\ engine'.served = engine.served
      <3>1. ReadOK'
        BY <1>0, <2>1, <2>5 DEF ReadOK
      <3>2. QED
        BY <1>0, <1>1, <2>1, <2>2, <2>5, <3>1 DEF FeedInv, Feed!feedVars
    <2>6. CASE engine.pc = "load" /\ engine'.pc = "idle" /\ engine'.served = engine.m
      <3>1. engine.m \in commits /\ engine.m.gen > engine.served.gen
        BY <1>0, <2>6 DEF ReadOK
      <3>2. ReadOK'
        BY <2>1, <2>6, <3>1 DEF ReadOK
      <3>3. Feed!Show
        BY <2>1, <2>6, <3>1 DEF Feed!Show
      <3>4. QED
        BY <1>0, <1>1, <2>2, <3>2, <3>3 DEF FeedInv, Feed!Next
    <2>7. QED
      BY <1>0, <1>3, <2>3, <2>4, <2>5, <2>6, RefreshSteps
  <1>4. QED
    BY <1>2, <1>3 DEF ReadNext, readVars

\* Publishers and query engine implement the feed, if PutIfVersion is atomic: the
\* manifest and the served table only ever move to newer snapshots, and only snapshots
\* that were committed are served.
THEOREM EngineImplementsFeed ==
  ASSUME ~Verified
  PROVE  ReadSpec => ImplementsFeed
  <1>1. ReadInit => FeedInv
    BY ReadInitOK DEF ReadInit, Init, FeedInv, LateOK, Recorded, ReadOK
  <1>2. ReadInit => Feed!Init
    BY DEF ReadInit, Init, Feed!Init
  <1>3. FeedInv /\ [ReadNext]_readVars => FeedInv' /\ [Feed!Next]_(Feed!feedVars)
    BY FeedStep
  <1>4. QED
    BY <1>1, <1>2, <1>3, PTL DEF ReadSpec, ImplementsFeed, Feed!Spec
==============================================================================
