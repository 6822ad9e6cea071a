----------------------------- MODULE QueryRefresh -----------------------------
(***************************************************************************)
(* The API's query engine (internal/query, Engine.Refresh) reading the     *)
(* snapshots the crawlers publish.  A refresh reads the manifest once,     *)
(* fetches and verifies every network's object, loads them into a staging  *)
(* table and swaps that table in.  Crawlers commit, prune and crash        *)
(* between any two of these steps.                                         *)
(***************************************************************************)
EXTENDS SnapshotPublish

CONSTANT MaxReadFaults  \* bound: reads of the engine that fail

ASSUME ReadFaultsAssumption == MaxReadFaults \in Nat

VARIABLE engine  \* the refresh under way and the served table

readVars == <<vars, engine>>

ReadInit ==
  /\ Init
  /\ engine = [pc |-> "idle", m |-> NoManifest, staged |-> {},
               served |-> NoManifest, tables |-> {}, faults |-> 0]

\* Mutant: an abandoned refresh is resumed with the manifest it read.
AbandonedResumed == [engine EXCEPT !.staged = {}]

\* A refresh that returns leaves the served table alone.
Abandoned == [engine EXCEPT !.pc = "idle", !.m = NoManifest, !.staged = {}]

\* manifestIdentity: generation time, and key and digest of every network.
Identity(m) == <<m.gen, m.sum>>

\* Refresh up to the first object: no manifest, or the one already loaded,
\* ends it.
RefreshRead ==
  /\ engine.pc = "idle"
  /\ manifest # NoManifest
  /\ Identity(manifest) # Identity(engine.served)
  /\ engine' = [engine EXCEPT !.pc = "load", !.m = manifest]
  /\ UNCHANGED vars

\* Mutant: whatever is stored under the key is loaded.
VerifiesKeyOnly(n, m) == {o \in objs : KeyOf(o) = Key(n, m)}

\* The object under the key of network n that passes VerifyGeneration.
Verifies(n, m) == {o \in objs : o = Obj(n, m)}

\* store.Get and VerifyGeneration of one network, into the staging area.
RefreshLoad(n) ==
  /\ engine.pc = "load"
  /\ \A o \in engine.staged : o.net # n
  /\ \E o \in Verifies(n, engine.m) :
       engine' = [engine EXCEPT !.staged = @ \cup {o}]
  /\ UNCHANGED vars

\* The object was pruned or replaced since the manifest was read.
RefreshMissing(n) ==
  /\ engine.pc = "load"
  /\ \A o \in engine.staged : o.net # n
  /\ Verifies(n, engine.m) = {}
  /\ engine' = Abandoned
  /\ UNCHANGED vars

\* Any read or query of the refresh fails, or its context is cancelled.
RefreshFailed ==
  /\ engine.pc = "load" /\ engine.faults < MaxReadFaults
  /\ engine' = [Abandoned EXCEPT !.faults = @ + 1]
  /\ UNCHANGED vars

\* Every network is staged and the row counts agree: the swap, atomic for
\* queries under publishMu.
RefreshCommit ==
  /\ engine.pc = "load"
  /\ \A n \in Networks : \E o \in engine.staged : o.net = n
  /\ engine' = [Abandoned EXCEPT !.served = engine.m, !.tables = engine.staged]
  /\ UNCHANGED vars

Refresh ==
  \/ RefreshRead \/ RefreshFailed \/ RefreshCommit
  \/ \E n \in Networks : RefreshLoad(n) \/ RefreshMissing(n)

ReadNext == (Next /\ UNCHANGED engine) \/ Refresh

ReadSpec == ReadInit /\ [][ReadNext]_readVars

\* The refresh loop runs on a ticker, whatever the crawlers do: a refresh step
\* that stays possible is taken.  Failures are not fair, and are bounded.
Progress ==
  \/ RefreshRead \/ RefreshCommit
  \/ \E n \in Networks : RefreshLoad(n) \/ RefreshMissing(n)

FairReadSpec == ReadSpec /\ WF_readVars(Progress)

-----------------------------------------------------------------------------
(* Properties *)

\* The served table holds, for every network, exactly the rows the served
\* manifest's digest vouches for: never two generations mixed, never an
\* object that a later attempt stored under the same key.
TablesMatchServed ==
  engine.served # NoManifest =>
    engine.tables = {Obj(n, engine.served) : n \in Networks}

Feed == INSTANCE SnapshotFeed
          WITH Snapshots <- Manifests, Nothing <- NoManifest,
               current <- manifest, history <- commits, shown <- engine.served

\* The publisher and the query engine implement the feed: the manifest and the
\* served table only move to newer snapshots, and only committed ones are
\* served.
ImplementsFeed == Feed!Spec

\* A committed generation is eventually served, or a newer one: neither pruning
\* nor failed refreshes strand the API on an old table.  The one excuse is a
\* manifest whose objects a later attempt overwrote (a clock set back).
CatchesUp ==
  \A g \in 1..MaxClock :
    (manifest.gen = g) ~> (engine.served.gen >= g \/ ~ManifestBacked)
===============================================================================
