------------------------------ MODULE DnsPublish ------------------------------
(***************************************************************************)
(* The DNS publisher (cmd/dnspublisher) of one network.  A cycle selects a *)
(* tree per capability from the newest snapshot, gates all of them, writes *)
(* their artifacts, and then syncs each one into the zone: new entries     *)
(* first, then the root that names them, then the deletion of stale        *)
(* records, then the .published artifact the next cycle measures against.  *)
(* Each of these writes is a step; it may fail, fail after it was applied, *)
(* or be the last one before the process dies.                             *)
(***************************************************************************)
EXTENDS Integers, Sequences, FiniteSets

CONSTANTS
  Capabilities,  \* the sequence of capabilities, a tree of its own for each
  Entries,       \* names of tree entries (the name is the content's hash)
  Picks,         \* possible selections: [nodes, entries]
  MinTreeNodes,  \* --min-tree-nodes, a floor for the first capability
  MaxDropPct,    \* --max-drop-pct
  ForkTimes,     \* instants at which a fork of the tree's layer activates
  MaxSnapshotAge,\* --max-snapshot-age, in publish intervals
  MaxCycles,     \* bound: publish cycles
  MaxFaults,     \* bound: failed calls and crashes
  MaxGen         \* bound: the clock of the snapshots, in publish intervals

ASSUME DnsAssumption ==
  /\ Capabilities \in Seq(STRING) /\ Capabilities # <<>>
  /\ \A i, j \in 1..Len(Capabilities) :
       Capabilities[i] = Capabilities[j] => i = j
  /\ Picks \subseteq [nodes: Nat, entries: SUBSET Entries]
  /\ MinTreeNodes \in Nat /\ MaxDropPct \in 0..100 /\ ForkTimes \subseteq Nat
  /\ MaxSnapshotAge \in Nat
  /\ MaxCycles \in Nat /\ MaxFaults \in Nat /\ MaxGen \in Nat

Domains == {Capabilities[i] : i \in 1..Len(Capabilities)}

VARIABLES
  gen,        \* generation time of the committed snapshot
  zone,       \* per domain: the root served and the entries in the zone
  built,      \* per domain: the artifact of the last tree built
  published,  \* per domain: the .published artifact
  repo,       \* per domain: the tree in the git repository
  prior,      \* history, per domain: the root served before the present one
  cycle,      \* the process: the publish cycle under way
  issued,     \* the process: the last sequence issued, per domain
  cycles,     \* cycles started so far
  faults      \* faults so far

dnsVars == <<gen, zone, built, published, repo, prior, cycle, issued, cycles,
             faults>>

\* A tree: its sequence, the snapshot it was built from, its size and the names
\* of its entries; and, as history, the forks that had been active for a cycle
\* when it was built, and whether it is the safe part, near a cancelled fork, of
\* a full selection that had not collapsed.
Trees == [seq: Nat \ {0}, gen: Nat \ {0}, nodes: Nat, entries: SUBSET Entries,
          forks: SUBSET ForkTimes, safe: BOOLEAN]

NoTree == [seq |-> 0, gen |-> 0, nodes |-> 0, entries |-> {}, forks |-> {},
           safe |-> FALSE]

\* A tree another tool published into the zone before this one took it over.
Foreign(es) == [NoTree EXCEPT !.entries = es]

\* No cycle under way.
Rest == [pc |-> "rest", i |-> 1, trees |-> [d \in Domains |-> NoTree],
         retain |-> [d \in Domains |-> NoTree], write |-> {}, stale |-> {},
         clean |-> FALSE]

Init ==
  /\ gen = 1
  /\ \E es \in SUBSET Entries :
       /\ zone = [d \in Domains |-> [root |-> Foreign(es), entries |-> es]]
       /\ prior = [d \in Domains |-> Foreign(es)]
  /\ built = [d \in Domains |-> NoTree]
  /\ published = [d \in Domains |-> NoTree]
  /\ repo = [d \in Domains |-> NoTree]
  /\ cycle = Rest
  /\ issued = [d \in Domains |-> 0]
  /\ cycles = 0 /\ faults = 0

\* The crawler commits a newer snapshot.  Any number of cycles, none included,
\* may build from one.
NewSnapshot ==
  /\ gen < MaxGen
  /\ gen' = gen + 1
  /\ UNCHANGED <<zone, built, published, repo, prior, cycle, issued, cycles,
                 faults>>

-----------------------------------------------------------------------------
(* buildNetworkTrees *)

\* Mutant: the generation time alone.
TreeSequenceOfGeneration(generatedAt, previousSeq) == generatedAt

TreeSequence(generatedAt, previousSeq) ==
  IF generatedAt <= previousSeq THEN previousSeq + 1 ELSE generatedAt

Larger(a, b) == IF a < b THEN b ELSE a

Collapsed(current, previous) ==
  MaxDropPct > 0 /\ previous > 0 /\ current * 100 < previous * (100 - MaxDropPct)

\* gateTree: the selection may be published in domain d.  The collapse baseline
\* is the published tree.
GateTree(d, pick, exempt) ==
  /\ pick.nodes > 0
  /\ d = Capabilities[1] => pick.nodes >= MinTreeNodes
  /\ exempt \/ ~Collapsed(pick.nodes, published[d].nodes)

\* The forks that activated at least one cycle before now.
ForksSettled(now) == {t \in ForkTimes : t <= now - 1}

\* Mutant: the bound of the last publish is dropped.
ExemptEver(d, now) == published[d] # NoTree /\ ForksSettled(now) # {}

\* A fork activated since the last publish, at least one cycle before now.
Exempt(d, now) ==
  published[d] # NoTree /\ \E t \in ForksSettled(now) : published[d].seq < t

\* The selection for domain d: near an activation the ready-only selection
\* where the guards accept it (near a cancelled fork it may shrink when the
\* full one passes), otherwise the full one.
Selected(d, full, ready, near, cancelNear, now) ==
  LET exempt == Exempt(d, now)
      readyExempt == exempt \/ (cancelNear /\ GateTree(d, full, exempt))
      readyOnly == near /\ GateTree(d, ready, readyExempt)
  IN [pick |-> IF readyOnly THEN ready ELSE full,
      exempt |-> IF readyOnly THEN readyExempt ELSE exempt,
      forks |-> ForksSettled(now),
      safe |-> /\ readyOnly /\ cancelNear
               /\ ~Collapsed(full.nodes, published[d].nodes)]

Tree(d, s) ==
  [seq |-> TreeSequence(gen, Larger(built[d].seq, issued[d])), gen |-> gen,
   nodes |-> s.pick.nodes, entries |-> s.pick.entries, forks |-> s.forks,
   safe |-> s.safe]

\* Every domain's selection, from one snapshot and at one reading of the
\* publisher's own clock.
Selections ==
  {[d \in Domains |-> Selected(d, full[d], ready[d], near, cancelNear, now)] :
     full \in [Domains -> Picks], ready \in [Domains -> Picks],
     near \in BOOLEAN, cancelNear \in BOOLEAN, now \in gen..(gen + MaxSnapshotAge)}

\* Both trees pass the guards: the cycle goes on with them.
Build ==
  /\ cycle.pc = "rest" /\ cycles < MaxCycles
  /\ \E s \in Selections :
       /\ \A d \in Domains : GateTree(d, s[d].pick, s[d].exempt)
       /\ cycle' = [Rest EXCEPT !.pc = "emit", !.clean = TRUE,
                                !.trees = [d \in Domains |-> Tree(d, s[d])],
                                !.retain = published]
  /\ cycles' = cycles + 1
  /\ UNCHANGED <<gen, zone, built, published, repo, prior, issued, faults>>

\* A guard fires on one of them, and neither is written.
Skip ==
  /\ cycle.pc = "rest" /\ cycles < MaxCycles
  /\ \E s \in Selections, d \in Domains : ~GateTree(d, s[d].pick, s[d].exempt)
  /\ cycle' = Rest
  /\ cycles' = cycles + 1
  /\ UNCHANGED <<gen, zone, built, published, repo, prior, issued, faults>>

\* The manifest, the rows or a baseline cannot be read, or the snapshot is
\* too old.
SkipUnread ==
  /\ cycle.pc = "rest" /\ cycles < MaxCycles /\ faults < MaxFaults
  /\ cycle' = Rest
  /\ cycles' = cycles + 1 /\ faults' = faults + 1
  /\ UNCHANGED <<gen, zone, built, published, repo, prior, issued>>

-----------------------------------------------------------------------------
(* The steps of a cycle *)

Domain == Capabilities[cycle.i]
Wanted == cycle.trees[Domain]

Fault == faults < MaxFaults /\ faults' = faults + 1

\* Go on with the next domain, or with the first domain of the next phase.
Proceed(pc, after) ==
  IF cycle.i < Len(Capabilities)
    THEN [cycle EXCEPT !.pc = pc, !.i = @ + 1]
    ELSE [cycle EXCEPT !.pc = after, !.i = 1]

\* The push of this network failed; git follows all the same.
PushFailed == [cycle EXCEPT !.pc = "git", !.i = 1, !.clean = FALSE]

\* The artifact of one tree.
Emit ==
  /\ cycle.pc = "emit"
  /\ built' = [built EXCEPT ![Domain] = Wanted]
  /\ issued' = [issued EXCEPT ![Domain] = Wanted.seq]
  /\ cycle' = Proceed("emit", "list")
  /\ UNCHANGED <<gen, zone, published, repo, prior, cycles, faults>>

\* An artifact that cannot be written ends the cycle.
EmitFailed ==
  /\ cycle.pc = "emit" /\ Fault
  /\ built' \in {built, [built EXCEPT ![Domain] = Wanted]}
  /\ cycle' = Rest
  /\ UNCHANGED <<gen, zone, published, repo, prior, issued, cycles>>

\* Mutant: what is not wanted now is stale.
StaleUnretained(have, want, retain) == have \ want

\* planSync: names to delete.  Without a published artifact the zone may serve
\* a tree of another tool, and nothing is stale.
Stale(have, want, retain) ==
  IF retain = NoTree THEN {} ELSE have \ (want \cup retain.entries)

\* Sync: list the zone and plan.
List ==
  /\ cycle.pc = "list"
  /\ LET have == zone[Domain].entries IN
     cycle' = [cycle EXCEPT
       !.pc = "entries", !.write = Wanted.entries \ have,
       !.stale = Stale(have, Wanted.entries, cycle.retain[Domain])]
  /\ UNCHANGED <<gen, zone, built, published, repo, prior, issued, cycles, faults>>

ListFailed ==
  /\ cycle.pc = "list" /\ Fault
  /\ cycle' = PushFailed
  /\ UNCHANGED <<gen, zone, built, published, repo, prior, issued, cycles>>

\* One batch of entries.
WriteEntries ==
  /\ cycle.pc = "entries"
  /\ \E batch \in SUBSET cycle.write \ {{}} :
       /\ zone' = [zone EXCEPT ![Domain].entries = @ \cup batch]
       /\ cycle' = [cycle EXCEPT !.write = @ \ batch]
  /\ UNCHANGED <<gen, built, published, repo, prior, issued, cycles, faults>>

\* A batch fails, or the entries do not become resolvable in time.
WriteEntriesFailed ==
  /\ cycle.pc = "entries" /\ Fault
  /\ \E batch \in SUBSET cycle.write :
       zone' = [zone EXCEPT ![Domain].entries = @ \cup batch]
  /\ cycle' = PushFailed
  /\ UNCHANGED <<gen, built, published, repo, prior, issued, cycles>>

\* Mutant: the root goes with the first batch of entries.
EntriesWrittenSkipped ==
  /\ cycle.pc = "entries"
  /\ cycle' = [cycle EXCEPT !.pc = "root"]
  /\ UNCHANGED <<gen, zone, built, published, repo, prior, issued, cycles, faults>>

\* All entries are written and have settled.
EntriesWritten ==
  /\ cycle.pc = "entries" /\ cycle.write = {}
  /\ cycle' = [cycle EXCEPT !.pc = "root"]
  /\ UNCHANGED <<gen, zone, built, published, repo, prior, issued, cycles, faults>>

ServeWanted ==
  /\ zone' = [zone EXCEPT ![Domain].root = Wanted]
  /\ prior' = [prior EXCEPT ![Domain] = zone[Domain].root]

WriteRoot ==
  /\ cycle.pc = "root"
  /\ ServeWanted
  /\ cycle' = [cycle EXCEPT !.pc = "prune"]
  /\ UNCHANGED <<gen, built, published, repo, issued, cycles, faults>>

\* Mutant: the error of the root write is dropped.
WriteRootFailedUnnoticed ==
  /\ cycle.pc = "root" /\ Fault
  /\ cycle' = [cycle EXCEPT !.pc = "prune"]
  /\ UNCHANGED <<gen, zone, built, published, repo, prior, issued, cycles>>

\* The root write fails; the response may have been lost after it was applied.
WriteRootFailed ==
  /\ cycle.pc = "root" /\ Fault
  /\ UNCHANGED <<zone, prior>> \/ ServeWanted
  /\ cycle' = PushFailed
  /\ UNCHANGED <<gen, built, published, repo, issued, cycles>>

\* One batch of deletions.
Prune ==
  /\ cycle.pc = "prune"
  /\ \E batch \in SUBSET cycle.stale \ {{}} :
       /\ zone' = [zone EXCEPT ![Domain].entries = @ \ batch]
       /\ cycle' = [cycle EXCEPT !.stale = @ \ batch]
  /\ UNCHANGED <<gen, built, published, repo, prior, issued, cycles, faults>>

\* A failed batch leaves records in place and does not fail the publish.
PruneFailed ==
  /\ cycle.pc = "prune" /\ Fault
  /\ \E batch \in SUBSET cycle.stale :
       zone' = [zone EXCEPT ![Domain].entries = @ \ batch]
  /\ cycle' = [cycle EXCEPT !.pc = "commit", !.clean = FALSE]
  /\ UNCHANGED <<gen, built, published, repo, prior, issued, cycles>>

Pruned ==
  /\ cycle.pc = "prune" /\ cycle.stale = {}
  /\ cycle' = [cycle EXCEPT !.pc = "commit"]
  /\ UNCHANGED <<gen, zone, built, published, repo, prior, issued, cycles, faults>>

\* Mutant: the .published artifact is left as it was.
CommitPublishedSkipped ==
  /\ cycle.pc = "commit"
  /\ cycle' = Proceed("list", "git")
  /\ UNCHANGED <<gen, zone, built, published, repo, prior, issued, cycles, faults>>

\* The .published artifact of the tree that is now in the zone.
CommitPublished ==
  /\ cycle.pc = "commit"
  /\ published' = [published EXCEPT ![Domain] = Wanted]
  /\ cycle' = Proceed("list", "git")
  /\ UNCHANGED <<gen, zone, built, repo, prior, issued, cycles, faults>>

CommitPublishedFailed ==
  /\ cycle.pc = "commit" /\ Fault
  /\ published' \in {published, [published EXCEPT ![Domain] = Wanted]}
  /\ cycle' = PushFailed
  /\ UNCHANGED <<gen, zone, built, repo, prior, issued, cycles>>

\* One commit with every tree of the cycle, pushed to a fresh clone.
PushGit ==
  /\ cycle.pc = "git"
  /\ repo' = cycle.trees
  /\ cycle' = [Rest EXCEPT !.clean = cycle.clean, !.trees = cycle.trees,
                           !.retain = cycle.retain]
  /\ UNCHANGED <<gen, zone, built, published, prior, issued, cycles, faults>>

\* A failed push only warns; it may have reached the remote.
PushGitFailed ==
  /\ cycle.pc = "git" /\ Fault
  /\ repo' \in {repo, cycle.trees}
  /\ cycle' = Rest
  /\ UNCHANGED <<gen, zone, built, published, prior, issued, cycles>>

\* The process dies and is started again: the issued sequences are gone.
Restart ==
  /\ Fault
  /\ cycle' = Rest
  /\ issued' = [d \in Domains |-> 0]
  /\ UNCHANGED <<gen, zone, built, published, repo, prior, cycles>>

Cycle ==
  \/ Build \/ Skip \/ SkipUnread \/ Emit \/ EmitFailed
  \/ List \/ ListFailed \/ WriteEntries \/ WriteEntriesFailed \/ EntriesWritten
  \/ WriteRoot \/ WriteRootFailed \/ Prune \/ PruneFailed \/ Pruned
  \/ CommitPublished \/ CommitPublishedFailed \/ PushGit \/ PushGitFailed

Next == NewSnapshot \/ Cycle \/ Restart

Spec == Init /\ [][Next]_dnsVars

-----------------------------------------------------------------------------
(* Properties *)

TreeOrForeign == Trees \cup {Foreign(es) : es \in SUBSET Entries}

Cycling ==
  [pc: {"rest", "emit", "list", "entries", "root", "prune", "commit", "git"},
   i: 1..Len(Capabilities), trees: [Domains -> TreeOrForeign],
   retain: [Domains -> TreeOrForeign], write: SUBSET Entries,
   stale: SUBSET Entries, clean: BOOLEAN]

\* Every variable keeps its type.
TypeOK ==
  /\ gen \in Nat \ {0} /\ cycles \in Nat /\ faults \in Nat
  /\ zone \in [Domains -> [root: TreeOrForeign, entries: SUBSET Entries]]
  /\ built \in [Domains -> TreeOrForeign]
  /\ published \in [Domains -> TreeOrForeign]
  /\ repo \in [Domains -> TreeOrForeign]
  /\ prior \in [Domains -> TreeOrForeign]
  /\ cycle \in Cycling
  /\ issued \in [Domains -> Nat]

\* "a resolver never follows a new root into a subtree that does not exist
\* yet" (Sync): whatever fails or crashes, every entry of the root in the zone
\* is in the zone.
RootResolvable == \A d \in Domains : zone[d].root.entries \subseteq zone[d].entries

\* "a client still holding the previous root can finish its walk" (Sync,
\* planSync): once the root of the tree that the cycle retains is replaced, that
\* tree stays whole, through failed deletions, crashes and whatever the other
\* domain does.
RetainedWalk ==
  \A d \in Domains :
    cycle.retain[d] = prior[d] => prior[d].entries \subseteq zone[d].entries

\* treeSequence "keeps the published sequence strictly increasing per domain",
\* across failed pushes, restarts and snapshots of one second: a root of this
\* publisher is only replaced by one with a larger sequence.
SequenceIncreases ==
  [][\A d \in Domains :
       zone'[d].root # zone[d].root => zone'[d].root.seq > zone[d].root.seq]_dnsVars

\* What may explain that a tree collapsed against one of sequence seq: a fork
\* that activated between the two, or the cancellation of one.
Explained(tree, seq) == (\E t \in tree.forks : seq < t) \/ tree.safe

\* The collapse guard: where the baseline is the tree the zone serves, that tree
\* is not replaced by one that dropped further than --max-drop-pct, unless a
\* fork that activated since it was served, a cycle before the new tree was
\* built, or the cancellation of one explains the drop.
DropNeedsFork ==
  [][\A d \in Domains :
       (/\ zone'[d].root # zone[d].root /\ published[d] = zone[d].root
        /\ Collapsed(zone'[d].root.nodes, zone[d].root.nodes))
         => Explained(zone'[d].root, zone[d].root.seq)]_dnsVars

\* publishNetwork commits "only after every push succeeds": the collapse
\* baseline is a tree the zone has served, and no newer than what it serves.
BaselineServed ==
  \A d \in Domains :
    /\ published[d].seq <= zone[d].root.seq
    /\ published[d].seq = zone[d].root.seq /\ published[d] # NoTree =>
         published[d] = zone[d].root

\* A cycle in which nothing failed heals what earlier ones left behind: the
\* zone serves its trees, the artifacts record them, git carries them, and
\* once there is a retained generation the zone holds nothing else.
CleanCycleHeals ==
  cycle.pc = "rest" /\ cycle.clean =>
    \A d \in Domains :
      LET t == cycle.trees[d] IN
      /\ zone[d].root = t /\ published[d] = t /\ built[d] = t /\ repo[d] = t
      /\ cycle.retain[d] # NoTree =>
           zone[d].entries \subseteq t.entries \cup cycle.retain[d].entries
===============================================================================
