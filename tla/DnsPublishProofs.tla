--------------------------- MODULE DnsPublishProofs ---------------------------
(***************************************************************************)
(* Theorems about DnsPublish, for every sequence of capabilities, every    *)
(* set of selections and every value of the bounds.                        *)
(***************************************************************************)
EXTENDS DnsPublish, TLAPS

\* The sequence of a tree is a number, and its entries are entries.
LEMMA TreeFacts ==
  ASSUME NEW t \in TreeOrForeign
  PROVE  t.seq \in Nat /\ t.gen \in Nat /\ t.nodes \in Nat /\ t.entries \in SUBSET Entries
  BY DEF TreeOrForeign, Trees, Foreign, NoTree

LEMMA NoTreeType == NoTree \in TreeOrForeign
  <1>1. {} \in SUBSET Entries
    OBVIOUS
  <1>2. NoTree = Foreign({})
    BY DEF NoTree, Foreign
  <1>3. QED
    BY <1>1, <1>2 DEF TreeOrForeign

LEMMA IndexFacts ==
  /\ Len(Capabilities) \in Nat \ {0}
  /\ \A i \in 1..Len(Capabilities) : Capabilities[i] \in Domains
  /\ \A d \in Domains : \E i \in 1..Len(Capabilities) : d = Capabilities[i]
  /\ \A i, j \in 1..Len(Capabilities) :
       Capabilities[i] = Capabilities[j] => i = j
  BY DnsAssumption DEF Domains

LEMMA RestType == Rest \in Cycling
  <1>1. 1 \in 1..Len(Capabilities)
    BY IndexFacts
  <1>2. [d \in Domains |-> NoTree] \in [Domains -> TreeOrForeign]
    BY NoTreeType
  <1>3. QED
    BY <1>1, <1>2 DEF Rest, Cycling

\* A gated selection makes a tree whose sequence exceeds what was issued.
LEMMA TreeType ==
  ASSUME TypeOK, NEW s \in Selections, NEW d \in Domains
  PROVE  /\ Tree(d, s[d]) \in Trees
         /\ Tree(d, s[d]).seq > built[d].seq
  <1>1. PICK full \in [Domains -> Picks], ready \in [Domains -> Picks],
             near \in BOOLEAN, cancel \in BOOLEAN, now \in gen..(gen + MaxSnapshotAge) :
          s = [e \in Domains |-> Selected(e, full[e], ready[e], near, cancel, now)]
    BY DEF Selections
  <1>2. s[d] = Selected(d, full[d], ready[d], near, cancel, now)
    BY <1>1
  <1>3. /\ s[d].pick \in Picks
        /\ s[d].forks \in SUBSET ForkTimes /\ s[d].safe \in BOOLEAN
    BY <1>2 DEF Selected, ForksSettled
  <1>4. s[d].pick.nodes \in Nat /\ s[d].pick.entries \in SUBSET Entries
    BY <1>3, DnsAssumption
  <1>5. built[d].seq \in Nat /\ issued[d] \in Nat /\ gen \in Nat \ {0}
    BY TreeFacts DEF TypeOK
  <1>6. /\ TreeSequence(gen, Larger(built[d].seq, issued[d])) \in Nat \ {0}
        /\ TreeSequence(gen, Larger(built[d].seq, issued[d])) > built[d].seq
    BY <1>5 DEF TreeSequence, Larger
  <1>7. QED
    BY <1>3, <1>4, <1>5, <1>6 DEF Tree, Trees

\* The steps within a cycle keep the types.
LEMMA CycleTypes ==
  ASSUME cycle \in Cycling
  PROVE  /\ Domain \in Domains /\ Wanted \in TreeOrForeign
         /\ PushFailed \in Cycling
         /\ Proceed("emit", "list") \in Cycling
         /\ Proceed("list", "git") \in Cycling
         /\ \A pc \in {"root", "prune", "commit"} :
              [cycle EXCEPT !.pc = pc] \in Cycling
         /\ [cycle EXCEPT !.pc = "commit", !.clean = FALSE] \in Cycling
         /\ \A es \in SUBSET Entries : /\ [cycle EXCEPT !.write = es] \in Cycling
                                       /\ [cycle EXCEPT !.stale = es] \in Cycling
  <1>1. cycle.i \in 1..Len(Capabilities) /\ 1 \in 1..Len(Capabilities)
    BY IndexFacts DEF Cycling
  <1>2. Domain \in Domains /\ Wanted \in TreeOrForeign
    BY <1>1, IndexFacts DEF Domain, Wanted, Cycling
  <1>3. PushFailed \in Cycling
    BY <1>1 DEF PushFailed, Cycling
  <1>4. cycle.i < Len(Capabilities) => cycle.i + 1 \in 1..Len(Capabilities)
    BY <1>1, IndexFacts
  <1>5. Proceed("emit", "list") \in Cycling /\ Proceed("list", "git") \in Cycling
    BY <1>1, <1>4 DEF Proceed, Cycling
  <1>6. /\ \A pc \in {"root", "prune", "commit"} : [cycle EXCEPT !.pc = pc] \in Cycling
        /\ [cycle EXCEPT !.pc = "commit", !.clean = FALSE] \in Cycling
        /\ \A es \in SUBSET Entries : /\ [cycle EXCEPT !.write = es] \in Cycling
                                      /\ [cycle EXCEPT !.stale = es] \in Cycling
    BY DEF Cycling
  <1>7. QED
    BY <1>2, <1>3, <1>5, <1>6

LEMMA TypeInit == Init => TypeOK
  <1> SUFFICES ASSUME Init PROVE TypeOK
    OBVIOUS
  <1>1. PICK es \in SUBSET Entries :
          /\ zone = [d \in Domains |-> [root |-> Foreign(es), entries |-> es]]
          /\ prior = [d \in Domains |-> Foreign(es)]
    BY DEF Init
  <1>2. Foreign(es) \in TreeOrForeign
    BY DEF TreeOrForeign
  <1>3. zone \in [Domains -> [root: TreeOrForeign, entries: SUBSET Entries]]
    BY <1>1, <1>2
  <1>4. QED
    BY <1>1, <1>2, <1>3, NoTreeType, RestType DEF Init, TypeOK

LEMMA TypeNext == TypeOK /\ [Next]_dnsVars => TypeOK'
  <1> SUFFICES ASSUME TypeOK, [Next]_dnsVars PROVE TypeOK'
    OBVIOUS
  <1>a. /\ cycle \in Cycling /\ Rest \in Cycling /\ Domain \in Domains
        /\ Wanted \in TreeOrForeign /\ Wanted.seq \in Nat
        /\ Wanted.entries \in SUBSET Entries
        /\ cycle.write \in SUBSET Entries /\ cycle.stale \in SUBSET Entries
    BY RestType, CycleTypes, TreeFacts DEF TypeOK, Cycling
  <1>b. \A es \in SUBSET Entries :
          [zone EXCEPT ![Domain].entries = es]
            \in [Domains -> [root: TreeOrForeign, entries: SUBSET Entries]]
    BY <1>a DEF TypeOK
  <1>c. zone[Domain].entries \in SUBSET Entries
    BY <1>a DEF TypeOK
  <1>1. CASE NewSnapshot
    BY <1>1 DEF NewSnapshot, TypeOK
  <1>2. CASE Build
    <2>1. PICK s \in Selections :
            cycle' = [Rest EXCEPT !.pc = "emit", !.clean = TRUE,
                                  !.trees = [d \in Domains |-> Tree(d, s[d])],
                                  !.retain = published]
      BY <1>2 DEF Build
    <2>2. [d \in Domains |-> Tree(d, s[d])] \in [Domains -> TreeOrForeign]
      BY TreeType DEF TreeOrForeign
    <2>3. cycle' \in Cycling
      <3> DEFINE ts == [d \in Domains |-> Tree(d, s[d])]
      <3>1. ts \in [Domains -> TreeOrForeign] /\ published \in [Domains -> TreeOrForeign]
        BY <2>2 DEF TypeOK
      <3>2. cycle' = [Rest EXCEPT !.pc = "emit", !.clean = TRUE, !.trees = ts,
                                  !.retain = published]
        BY <2>1
      <3> HIDE DEF ts
      <3>3. QED
        BY <1>a, <3>1, <3>2 DEF Cycling
    <2>4. QED
      BY <1>2, <2>3 DEF Build, TypeOK
  <1>3. CASE Skip \/ SkipUnread
    BY <1>a, <1>3 DEF Skip, SkipUnread, TypeOK
  <1>4. CASE Emit
    BY <1>a, <1>4, CycleTypes DEF Emit, TypeOK
  <1>5. CASE EmitFailed
    BY <1>a, <1>5 DEF EmitFailed, Fault, TypeOK
  <1>6. CASE List
    <2>1. Stale(zone[Domain].entries, Wanted.entries, cycle.retain[Domain])
            \in SUBSET Entries
      BY <1>c DEF Stale
    <2>2. Wanted.entries \ zone[Domain].entries \in SUBSET Entries
      BY <1>a
    <2>3. cycle' \in Cycling
      BY <1>a, <1>6, <2>1, <2>2 DEF List, Cycling
    <2>4. QED
      BY <1>6, <2>3 DEF List, TypeOK
  <1>7. CASE ListFailed
    BY <1>a, <1>7, CycleTypes DEF ListFailed, Fault, TypeOK
  <1>8. CASE WriteEntries
    <2>1. PICK batch \in SUBSET cycle.write :
            /\ zone' = [zone EXCEPT ![Domain].entries = @ \cup batch]
            /\ cycle' = [cycle EXCEPT !.write = @ \ batch]
      BY <1>8 DEF WriteEntries
    <2>2. zone' \in [Domains -> [root: TreeOrForeign, entries: SUBSET Entries]]
      BY <1>a, <1>b, <1>c, <2>1
    <2>3. cycle' \in Cycling
      BY <1>a, <2>1, CycleTypes
    <2>4. QED
      BY <1>8, <2>2, <2>3 DEF WriteEntries, TypeOK
  <1>9. CASE WriteEntriesFailed
    <2>1. zone' \in [Domains -> [root: TreeOrForeign, entries: SUBSET Entries]]
      <3>1. PICK batch \in SUBSET cycle.write :
              zone' = [zone EXCEPT ![Domain].entries = @ \cup batch]
        BY <1>9 DEF WriteEntriesFailed
      <3>2. QED
        BY <1>a, <1>b, <1>c, <3>1
    <2>2. QED
      BY <1>a, <1>9, <2>1, CycleTypes DEF WriteEntriesFailed, Fault, TypeOK
  <1>10. CASE EntriesWritten \/ Pruned
    BY <1>a, <1>10, CycleTypes DEF EntriesWritten, Pruned, TypeOK
  <1>11. CASE WriteRoot \/ WriteRootFailed
    <2>1. ASSUME ServeWanted
          PROVE  /\ zone' \in [Domains -> [root: TreeOrForeign, entries: SUBSET Entries]]
                 /\ prior' \in [Domains -> TreeOrForeign]
      BY <1>a, <2>1 DEF ServeWanted, TypeOK
    <2>2. /\ zone' \in [Domains -> [root: TreeOrForeign, entries: SUBSET Entries]]
          /\ prior' \in [Domains -> TreeOrForeign]
      BY <1>11, <2>1 DEF WriteRoot, WriteRootFailed, TypeOK
    <2>3. cycle' \in Cycling
      BY <1>a, <1>11, CycleTypes DEF WriteRoot, WriteRootFailed
    <2>4. faults' \in Nat
      BY <1>11 DEF WriteRoot, WriteRootFailed, Fault, TypeOK
    <2>5. QED
      BY <1>11, <2>2, <2>3, <2>4 DEF WriteRoot, WriteRootFailed, TypeOK
  <1>12. CASE Prune
    <2>1. PICK batch \in SUBSET cycle.stale :
            /\ zone' = [zone EXCEPT ![Domain].entries = @ \ batch]
            /\ cycle' = [cycle EXCEPT !.stale = @ \ batch]
      BY <1>12 DEF Prune
    <2>2. zone' \in [Domains -> [root: TreeOrForeign, entries: SUBSET Entries]]
      BY <1>a, <1>b, <1>c, <2>1
    <2>3. cycle' \in Cycling
      BY <1>a, <2>1, CycleTypes
    <2>4. QED
      BY <1>12, <2>2, <2>3 DEF Prune, TypeOK
  <1>13. CASE PruneFailed
    <2>1. zone' \in [Domains -> [root: TreeOrForeign, entries: SUBSET Entries]]
      <3>1. PICK batch \in SUBSET cycle.stale :
              zone' = [zone EXCEPT ![Domain].entries = @ \ batch]
        BY <1>13 DEF PruneFailed
      <3>2. QED
        BY <1>a, <1>b, <1>c, <3>1
    <2>2. QED
      BY <1>a, <1>13, <2>1, CycleTypes DEF PruneFailed, Fault, TypeOK
  <1>14. CASE CommitPublished
    BY <1>a, <1>14, CycleTypes DEF CommitPublished, TypeOK
  <1>15. CASE CommitPublishedFailed
    BY <1>a, <1>15, CycleTypes DEF CommitPublishedFailed, Fault, TypeOK
  <1>16. CASE PushGit
    <2>1. cycle.trees \in [Domains -> TreeOrForeign] /\ cycle' \in Cycling
      BY <1>a, <1>16 DEF PushGit, Cycling
    <2>2. QED
      BY <1>16, <2>1 DEF PushGit, TypeOK
  <1>17. CASE PushGitFailed
    <2>1. cycle.trees \in [Domains -> TreeOrForeign]
      BY <1>a DEF Cycling
    <2>2. QED
      BY <1>a, <1>17, <2>1 DEF PushGitFailed, Fault, TypeOK
  <1>18. CASE Restart
    BY <1>a, <1>18 DEF Restart, Fault, TypeOK
  <1>19. CASE UNCHANGED dnsVars
    BY <1>19 DEF dnsVars, TypeOK
  <1>20. QED
    BY <1>1, <1>2, <1>3, <1>4, <1>5, <1>6, <1>7, <1>8, <1>9, <1>10, <1>11,
       <1>12, <1>13, <1>14, <1>15, <1>16, <1>17, <1>18, <1>19 DEF Next, Cycle

\* Every variable of the publisher keeps its type, whatever the selections, the
\* faults and the restarts (the state of runMultiTree, Sync and the artifacts).
THEOREM TypeCorrect == Spec => []TypeOK
  <1>1. QED
    BY TypeInit, TypeNext, PTL DEF Spec

-----------------------------------------------------------------------------
(***************************************************************************)
(* RootResolvable is not inductive: it must be known that the root about to *)
(* be written has all its entries in the zone, and that nothing stale       *)
(* belongs to the root served when the deletions begin.                     *)
(***************************************************************************)

\* What is left to write completes the wanted tree; the root is written once
\* the tree is complete.
Completing ==
  /\ cycle.pc = "entries" =>
       Wanted.entries \subseteq zone[Domain].entries \cup cycle.write
  /\ cycle.pc = "root" => Wanted.entries \subseteq zone[Domain].entries

\* The deletions spare the wanted tree, which is served when they begin.
Sparing ==
  /\ cycle.pc \in {"entries", "root", "prune"} =>
       \A e \in cycle.stale : e \notin Wanted.entries
  /\ cycle.pc = "prune" => zone[Domain].root = Wanted

ResolveInv == RootResolvable /\ Completing /\ Sparing

LEMMA ResolveInit == Init => ResolveInv
  <1> SUFFICES ASSUME Init PROVE ResolveInv
    OBVIOUS
  <1>1. PICK es \in SUBSET Entries :
          zone = [d \in Domains |-> [root |-> Foreign(es), entries |-> es]]
    BY DEF Init
  <1>2. RootResolvable
    BY <1>1 DEF RootResolvable, Foreign, NoTree
  <1>3. cycle.pc = "rest"
    BY DEF Init, Rest
  <1>4. QED
    BY <1>2, <1>3 DEF ResolveInv, Completing, Sparing

LEMMA ResolveNext == TypeOK /\ ResolveInv /\ [Next]_dnsVars => ResolveInv'
  <1> SUFFICES ASSUME TypeOK, ResolveInv, [Next]_dnsVars PROVE ResolveInv'
    OBVIOUS
  <1>a. /\ cycle \in Cycling /\ Domain \in Domains
        /\ zone \in [Domains -> [root: TreeOrForeign, entries: SUBSET Entries]]
    BY CycleTypes DEF TypeOK
  <1>b. ASSUME zone' = zone,
               cycle'.pc \notin {"entries", "root", "prune"}
        PROVE  ResolveInv'
    BY <1>b DEF ResolveInv, RootResolvable, Completing, Sparing
  <1>1. CASE NewSnapshot \/ UNCHANGED dnsVars
    BY <1>1 DEF NewSnapshot, dnsVars, ResolveInv, RootResolvable, Completing,
                Sparing, Domain, Wanted
  <1>2. CASE Build \/ Skip \/ SkipUnread
    <2>1. CASE Build
      <3>1. PICK s \in Selections :
              cycle' = [Rest EXCEPT !.pc = "emit", !.clean = TRUE,
                                    !.trees = [d \in Domains |-> Tree(d, s[d])],
                                    !.retain = published]
        BY <2>1 DEF Build
      <3>2. cycle'.pc = "emit"
        BY <3>1 DEF Rest
      <3>3. QED
        BY <1>b, <2>1, <3>2 DEF Build
    <2>2. CASE Skip \/ SkipUnread
      <3>1. cycle'.pc = "rest" /\ zone' = zone
        BY <2>2 DEF Skip, SkipUnread, Rest
      <3>2. QED
        BY <1>b, <3>1
    <2>3. QED
      BY <1>2, <2>1, <2>2
  <1>3. CASE Emit \/ EmitFailed \/ ListFailed \/ PushGit \/ PushGitFailed \/ Restart
    <2>1. /\ Rest.pc = "rest" /\ PushFailed.pc = "git"
          /\ Proceed("emit", "list").pc \in {"emit", "list"}
      BY <1>a DEF Rest, PushFailed, Proceed, Cycling
    <2>2. CASE PushGit
      <3>1. cycle'.pc = "rest"
        BY <2>2 DEF PushGit, Rest
      <3>2. QED
        BY <1>b, <2>2, <3>1 DEF PushGit
    <2>3. CASE Emit \/ EmitFailed \/ ListFailed \/ PushGitFailed \/ Restart
      <3>1. /\ cycle' \in {Rest, PushFailed, Proceed("emit", "list")}
            /\ zone' = zone
        BY <2>3 DEF Emit, EmitFailed, ListFailed, PushGitFailed, Restart
      <3>2. cycle'.pc \notin {"entries", "root", "prune"}
        BY <2>1, <3>1
      <3>3. QED
        BY <1>b, <3>1, <3>2
    <2>4. QED
      BY <1>3, <2>2, <2>3
  <1>4. CASE CommitPublished \/ CommitPublishedFailed
    <2>1. cycle'.pc \in {"list", "git"} /\ zone' = zone
      BY <1>a, <1>4 DEF CommitPublished, CommitPublishedFailed, Proceed, PushFailed,
                        Cycling
    <2>2. QED
      BY <1>b, <2>1
  <1>5. CASE List
    <2>1. /\ zone' = zone /\ Domain' = Domain /\ Wanted' = Wanted
          /\ cycle'.pc = "entries"
          /\ cycle'.write = Wanted.entries \ zone[Domain].entries
          /\ cycle'.stale = Stale(zone[Domain].entries, Wanted.entries,
                                  cycle.retain[Domain])
      BY <1>a, <1>5 DEF List, Cycling, Domain, Wanted
    <2>2. \A e \in cycle'.stale : e \notin Wanted.entries
      BY <2>1 DEF Stale
    <2>3. QED
      BY <2>1, <2>2 DEF ResolveInv, RootResolvable, Completing, Sparing
  <1>6. CASE WriteEntries
    <2>1. PICK batch \in SUBSET cycle.write :
            /\ zone' = [zone EXCEPT ![Domain].entries = @ \cup batch]
            /\ cycle' = [cycle EXCEPT !.write = @ \ batch]
      BY <1>6 DEF WriteEntries
    <2>2. /\ Domain' = Domain /\ Wanted' = Wanted /\ cycle'.pc = "entries"
          /\ cycle'.write = cycle.write \ batch /\ cycle'.stale = cycle.stale
          /\ cycle.pc = "entries"
      BY <1>a, <1>6, <2>1 DEF WriteEntries, Cycling, Domain, Wanted
    <2>3. /\ zone'[Domain].entries = zone[Domain].entries \cup batch
          /\ \A d \in Domains : /\ zone'[d].root = zone[d].root
                                /\ zone[d].entries \subseteq zone'[d].entries
      BY <1>a, <2>1
    <2>4. QED
      BY <2>2, <2>3 DEF ResolveInv, RootResolvable, Completing, Sparing
  <1>7. CASE WriteEntriesFailed
    <2>1. PICK batch \in SUBSET cycle.write :
            zone' = [zone EXCEPT ![Domain].entries = @ \cup batch]
      BY <1>7 DEF WriteEntriesFailed
    <2>2. \A d \in Domains : /\ zone'[d].root = zone[d].root
                             /\ zone[d].entries \subseteq zone'[d].entries
      BY <1>a, <2>1
    <2>3. cycle'.pc = "git"
      BY <1>a, <1>7 DEF WriteEntriesFailed, PushFailed, Cycling
    <2>4. QED
      BY <2>2, <2>3 DEF ResolveInv, RootResolvable, Completing, Sparing
  <1>8. CASE EntriesWritten
    <2>1. /\ zone' = zone /\ Domain' = Domain /\ Wanted' = Wanted
          /\ cycle.pc = "entries" /\ cycle'.pc = "root" /\ cycle.write = {}
          /\ cycle'.stale = cycle.stale
      BY <1>a, <1>8 DEF EntriesWritten, Cycling, Domain, Wanted
    <2>2. QED
      BY <2>1 DEF ResolveInv, RootResolvable, Completing, Sparing
  <1>9. ASSUME ServeWanted, cycle.pc = "root"
        PROVE  /\ RootResolvable'
               /\ zone'[Domain].root = Wanted
    <2>1. /\ zone'[Domain].root = Wanted
          /\ zone'[Domain].entries = zone[Domain].entries
          /\ \A d \in Domains \ {Domain} : zone'[d] = zone[d]
      BY <1>a, <1>9 DEF ServeWanted
    <2>2. QED
      BY <1>9, <2>1 DEF ResolveInv, RootResolvable, Completing
  <1>10. CASE WriteRoot
    <2>1. /\ Domain' = Domain /\ Wanted' = Wanted /\ cycle.pc = "root"
          /\ cycle'.pc = "prune" /\ cycle'.stale = cycle.stale /\ ServeWanted
      BY <1>a, <1>10 DEF WriteRoot, Cycling, Domain, Wanted
    <2>2. QED
      BY <1>9, <2>1 DEF ResolveInv, Completing, Sparing
  <1>11. CASE WriteRootFailed
    <2>1. /\ cycle.pc = "root" /\ cycle'.pc = "git"
          /\ zone' = zone \/ ServeWanted
      BY <1>a, <1>11 DEF WriteRootFailed, PushFailed, Cycling
    <2>2. CASE zone' = zone
      BY <1>b, <2>1, <2>2
    <2>3. CASE ServeWanted
      BY <1>9, <2>1, <2>3 DEF ResolveInv, Completing, Sparing
    <2>4. QED
      BY <2>1, <2>2, <2>3
  <1>12. ASSUME NEW batch \in SUBSET cycle.stale, cycle.pc = "prune",
                zone' = [zone EXCEPT ![Domain].entries = @ \ batch]
         PROVE  RootResolvable' /\ \A d \in Domains : zone'[d].root = zone[d].root
    <2>1. /\ zone'[Domain].entries = zone[Domain].entries \ batch
          /\ \A d \in Domains : zone'[d].root = zone[d].root
          /\ \A d \in Domains \ {Domain} : zone'[d] = zone[d]
      BY <1>a, <1>12
    <2>2. \A e \in batch : e \notin zone[Domain].root.entries
      BY <1>12 DEF ResolveInv, Sparing
    <2>3. QED
      BY <2>1, <2>2 DEF ResolveInv, RootResolvable
  <1>13. CASE Prune
    <2>1. PICK batch \in SUBSET cycle.stale :
            /\ zone' = [zone EXCEPT ![Domain].entries = @ \ batch]
            /\ cycle' = [cycle EXCEPT !.stale = @ \ batch]
      BY <1>13 DEF Prune
    <2>2. /\ Domain' = Domain /\ Wanted' = Wanted /\ cycle.pc = "prune"
          /\ cycle'.pc = "prune" /\ cycle'.stale = cycle.stale \ batch
      BY <1>a, <1>13, <2>1 DEF Prune, Cycling, Domain, Wanted
    <2>3. QED
      BY <1>a, <1>12, <2>1, <2>2 DEF ResolveInv, Completing, Sparing
  <1>14. CASE PruneFailed
    <2>1. PICK batch \in SUBSET cycle.stale :
            zone' = [zone EXCEPT ![Domain].entries = @ \ batch]
      BY <1>14 DEF PruneFailed
    <2>2. cycle.pc = "prune" /\ cycle'.pc = "commit"
      BY <1>a, <1>14 DEF PruneFailed, Cycling
    <2>3. QED
      BY <1>12, <2>1, <2>2 DEF ResolveInv, Completing, Sparing
  <1>15. CASE Pruned
    <2>1. zone' = zone /\ cycle'.pc = "commit"
      BY <1>a, <1>15 DEF Pruned, Cycling
    <2>2. QED
      BY <1>b, <2>1
  <1>16. QED
    BY <1>1, <1>2, <1>3, <1>4, <1>5, <1>6, <1>7, <1>8, <1>10, <1>11, <1>13,
       <1>14, <1>15 DEF Next, Cycle

\* The ordering of Sync (entries, then the root, then deletions) keeps the zone
\* walkable: in every state, whatever failed, was applied without an answer or
\* was cut short by a crash, each entry of the root served is in the zone.
THEOREM RootAlwaysResolvable == Spec => []RootResolvable
  <1>1. ResolveInv => RootResolvable
    BY DEF ResolveInv
  <1>2. QED
    BY <1>1, TypeCorrect, ResolveInit, ResolveNext, PTL DEF Spec

-----------------------------------------------------------------------------
(***************************************************************************)
(* SequenceIncreases rests on the artifacts: whatever the zone serves was   *)
(* emitted before, and a new sequence exceeds the emitted one.              *)
(***************************************************************************)

SyncPhases == {"list", "entries", "root", "prune", "commit", "git"}

\* No root is ahead of the artifact of the last tree built.
RootsEmitted == \A d \in Domains : zone[d].root.seq <= built[d].seq

\* The trees of a cycle are newer than what is emitted, and once they are
\* emitted, newer than the roots they have yet to replace.
TreesNewer ==
  \A j \in 1..Len(Capabilities) :
    LET d == Capabilities[j] IN
    /\ cycle.pc = "emit" /\ cycle.i <= j => built[d].seq < cycle.trees[d].seq
    /\ cycle.pc = "emit" /\ j < cycle.i =>
         /\ built[d].seq = cycle.trees[d].seq
         /\ zone[d].root.seq < cycle.trees[d].seq
    /\ cycle.pc \in SyncPhases => built[d].seq = cycle.trees[d].seq
    /\ cycle.pc \in {"list", "entries", "root"} /\ cycle.i <= j =>
         zone[d].root.seq < cycle.trees[d].seq
    /\ cycle.pc \in {"prune", "commit"} /\ cycle.i < j =>
         zone[d].root.seq < cycle.trees[d].seq

SeqInv == RootsEmitted /\ TreesNewer

\* The numbers the sequence argument compares.
LEMMA SeqFacts ==
  ASSUME TypeOK
  PROVE  /\ \A d \in Domains : /\ zone[d].root.seq \in Nat
                               /\ built[d].seq \in Nat
                               /\ cycle.trees[d].seq \in Nat
         /\ cycle.i \in 1..Len(Capabilities)
         /\ cycle \in Cycling /\ Domain \in Domains
         /\ zone \in [Domains -> [root: TreeOrForeign, entries: SUBSET Entries]]
         /\ built \in [Domains -> TreeOrForeign]
  <1>1. \A d \in Domains : /\ zone[d].root \in TreeOrForeign
                           /\ built[d] \in TreeOrForeign
                           /\ cycle.trees[d] \in TreeOrForeign
    BY DEF TypeOK, Cycling
  <1>2. QED
    BY <1>1, TreeFacts, CycleTypes DEF TypeOK, Cycling

LEMMA SeqInit == Init => SeqInv
  <1> SUFFICES ASSUME Init PROVE SeqInv
    OBVIOUS
  <1>1. cycle.pc = "rest"
    BY DEF Init, Rest
  <1>2. \A d \in Domains : zone[d].root.seq = 0 /\ built[d].seq = 0
    BY DEF Init, Foreign, NoTree
  <1>3. QED
    BY <1>1, <1>2 DEF SeqInv, RootsEmitted, TreesNewer, SyncPhases

\* Steps that write neither a root nor an artifact.
Quiet == /\ \A d \in Domains : zone'[d].root = zone[d].root
         /\ built' = built

\* Phases a step may enter without moving to another domain.
Onward ==
  {<<"list", "entries">>, <<"entries", "entries">>, <<"entries", "root">>,
   <<"prune", "prune">>, <<"prune", "commit">>}

LEMMA QuietKeeps ==
  ASSUME TypeOK, SeqInv, Quiet,
         \/ cycle'.pc = "rest"
         \/ /\ cycle.pc \in SyncPhases /\ cycle'.pc = "git"
            /\ cycle'.trees = cycle.trees
         \/ /\ <<cycle.pc, cycle'.pc>> \in Onward
            /\ cycle'.trees = cycle.trees /\ cycle'.i = cycle.i
         \/ /\ cycle.pc = "commit" /\ cycle'.pc = "list"
            /\ cycle'.trees = cycle.trees /\ cycle'.i = cycle.i + 1
  PROVE  SeqInv'
  <1>1. RootsEmitted'
    BY DEF SeqInv, RootsEmitted, Quiet
  <1>2. ASSUME NEW j \in 1..Len(Capabilities)
        PROVE  LET d == Capabilities[j] IN
          /\ cycle'.pc = "rest" \/ cycle'.pc \in SyncPhases
          /\ cycle'.pc \in SyncPhases => built'[d].seq = cycle'.trees[d].seq
          /\ cycle'.pc \in {"list", "entries", "root"} /\ cycle'.i <= j =>
               zone'[d].root.seq < cycle'.trees[d].seq
          /\ cycle'.pc \in {"prune", "commit"} /\ cycle'.i < j =>
               zone'[d].root.seq < cycle'.trees[d].seq
    <2> DEFINE d == Capabilities[j]
    <2>1. /\ d \in Domains /\ zone'[d].root = zone[d].root /\ built'[d] = built[d]
          /\ cycle.i \in Nat /\ j \in Nat
      BY IndexFacts, SeqFacts DEF Quiet
    <2>2. /\ cycle.pc \in SyncPhases => built[d].seq = cycle.trees[d].seq
          /\ cycle.pc \in {"list", "entries", "root"} /\ cycle.i <= j =>
               zone[d].root.seq < cycle.trees[d].seq
          /\ cycle.pc \in {"prune", "commit"} /\ cycle.i < j =>
               zone[d].root.seq < cycle.trees[d].seq
      BY DEF SeqInv, TreesNewer
    <2> HIDE DEF d
    <2>3. QED
      BY <2>1, <2>2 DEF SyncPhases, Onward, d
  <1>3. TreesNewer'
    BY <1>2 DEF TreesNewer, SyncPhases
  <1>4. QED
    BY <1>1, <1>3 DEF SeqInv

\* Writing a root when its domain's turn has come: it is newer, and emitted.
LEMMA ServeNewer ==
  ASSUME TypeOK, SeqInv, ServeWanted, cycle.pc = "root", built' = built
  PROVE  /\ zone'[Domain].root.seq > zone[Domain].root.seq
         /\ \A d \in Domains \ {Domain} : zone'[d] = zone[d]
         /\ RootsEmitted'
  <1>1. /\ zone'[Domain].root = Wanted
        /\ \A d \in Domains \ {Domain} : zone'[d] = zone[d]
    BY SeqFacts DEF ServeWanted
  <1>2. /\ zone[Domain].root.seq < Wanted.seq
        /\ built[Domain].seq = Wanted.seq
    BY SeqFacts DEF SeqInv, TreesNewer, SyncPhases, Domain, Wanted
  <1>3. Wanted.seq \in Nat /\ zone[Domain].root.seq \in Nat
    BY SeqFacts DEF Wanted
  <1>4. RootsEmitted'
    BY <1>1, <1>2, <1>3 DEF SeqInv, RootsEmitted
  <1>5. QED
    BY <1>1, <1>2, <1>3, <1>4

\* What a step may do to the roots.
RootsAdvance ==
  \A d \in Domains :
    zone'[d].root # zone[d].root => zone'[d].root.seq > zone[d].root.seq

LEMMA SeqNext ==
  TypeOK /\ SeqInv /\ [Next]_dnsVars => SeqInv' /\ RootsAdvance
  <1> SUFFICES ASSUME TypeOK, SeqInv, [Next]_dnsVars PROVE SeqInv' /\ RootsAdvance
    OBVIOUS
  <1>a. /\ cycle \in Cycling /\ Domain \in Domains
        /\ zone \in [Domains -> [root: TreeOrForeign, entries: SUBSET Entries]]
        /\ built \in [Domains -> TreeOrForeign]
        /\ cycle.i \in 1..Len(Capabilities)
    BY SeqFacts
  <1>b. Quiet => RootsAdvance
    BY DEF Quiet, RootsAdvance
  <1>c. /\ Rest.pc = "rest"
        /\ PushFailed.pc = "git" /\ PushFailed.trees = cycle.trees
    BY <1>a DEF Rest, PushFailed, Cycling
  <1>1. CASE NewSnapshot \/ UNCHANGED dnsVars
    <2>1. Quiet /\ cycle' = cycle /\ zone' = zone
      BY <1>1 DEF NewSnapshot, dnsVars, Quiet
    <2>2. SeqInv'
      BY <2>1 DEF Quiet, SeqInv, RootsEmitted, TreesNewer
    <2>3. QED
      BY <1>b, <2>1, <2>2
  <1>2. CASE Build
    <2>1. PICK s \in Selections :
            cycle' = [Rest EXCEPT !.pc = "emit", !.clean = TRUE,
                                  !.trees = [d \in Domains |-> Tree(d, s[d])],
                                  !.retain = published]
      BY <1>2 DEF Build
    <2>2. /\ cycle'.pc = "emit" /\ cycle'.i = 1
          /\ cycle'.trees = [d \in Domains |-> Tree(d, s[d])]
      BY <2>1 DEF Rest
    <2>3. Quiet /\ zone' = zone
      BY <1>2 DEF Build, Quiet
    <2>4. ASSUME NEW j \in 1..Len(Capabilities)
          PROVE  /\ built'[Capabilities[j]].seq < cycle'.trees[Capabilities[j]].seq
                 /\ ~(j < cycle'.i)
      <3>1. Capabilities[j] \in Domains
        BY IndexFacts
      <3>2. /\ cycle'.trees[Capabilities[j]] = Tree(Capabilities[j], s[Capabilities[j]])
            /\ built'[Capabilities[j]] = built[Capabilities[j]]
        BY <2>2, <2>3, <3>1 DEF Quiet
      <3>3. Tree(Capabilities[j], s[Capabilities[j]]).seq > built[Capabilities[j]].seq
        BY <3>1, TreeType
      <3>4. Tree(Capabilities[j], s[Capabilities[j]]).seq \in Nat
        BY <3>1, TreeType DEF Trees
      <3>5. QED
        BY <2>2, <3>1, <3>2, <3>3, <3>4, SeqFacts
    <2>5. TreesNewer'
      BY <2>2, <2>4 DEF TreesNewer, SyncPhases
    <2>6. RootsEmitted'
      BY <2>3 DEF Quiet, SeqInv, RootsEmitted
    <2>7. QED
      BY <1>b, <2>3, <2>5, <2>6 DEF SeqInv
  <1>3. CASE Skip \/ SkipUnread \/ PushGitFailed \/ Restart
    <2>1. Quiet /\ cycle' = Rest
      BY <1>3 DEF Skip, SkipUnread, PushGitFailed, Restart, Quiet
    <2>2. QED
      BY <1>b, <1>c, <2>1, QuietKeeps
  <1>4. CASE PushGit
    <2>1. Quiet /\ cycle'.pc = "rest"
      BY <1>4 DEF PushGit, Quiet, Rest
    <2>2. QED
      BY <1>b, <2>1, QuietKeeps
  <1>5. ASSUME cycle.pc = "emit"
        PROVE  /\ built[Domain].seq < Wanted.seq
               /\ zone[Domain].root.seq < Wanted.seq
               /\ Wanted.seq \in Nat
    <2>1. built[Domain].seq < Wanted.seq
      BY <1>a, <1>5 DEF SeqInv, TreesNewer, Domain, Wanted
    <2>2. zone[Domain].root.seq <= built[Domain].seq
      BY <1>a DEF SeqInv, RootsEmitted
    <2>3. QED
      BY <1>a, <2>1, <2>2, SeqFacts DEF Wanted
  <1>6. ASSUME cycle.pc = "emit", built' = [built EXCEPT ![Domain] = Wanted],
               zone' = zone
        PROVE  RootsEmitted' /\ RootsAdvance
    BY <1>a, <1>5, <1>6, SeqFacts DEF SeqInv, RootsEmitted, RootsAdvance
  <1>7. CASE EmitFailed
    <2>1. /\ cycle'.pc = "rest" /\ zone' = zone /\ cycle.pc = "emit"
          /\ built' = built \/ built' = [built EXCEPT ![Domain] = Wanted]
      BY <1>7, <1>c DEF EmitFailed
    <2>2. RootsEmitted' /\ RootsAdvance
      BY <1>6, <2>1 DEF SeqInv, RootsEmitted, RootsAdvance
    <2>3. QED
      BY <2>1, <2>2 DEF SeqInv, TreesNewer, SyncPhases
  <1>8. CASE Emit
    <2>1. /\ zone' = zone /\ cycle.pc = "emit"
          /\ built' = [built EXCEPT ![Domain] = Wanted]
          /\ cycle'.trees = cycle.trees
          /\ \/ cycle.i < Len(Capabilities) /\ cycle'.pc = "emit" /\ cycle'.i = cycle.i + 1
             \/ ~(cycle.i < Len(Capabilities)) /\ cycle'.pc = "list" /\ cycle'.i = 1
      BY <1>a, <1>8 DEF Emit, Proceed, Cycling
    <2>2. ASSUME NEW j \in 1..Len(Capabilities)
          PROVE  /\ cycle.i < j =>
                      built'[Capabilities[j]].seq < cycle.trees[Capabilities[j]].seq
                 /\ j <= cycle.i =>
                      /\ built'[Capabilities[j]].seq = cycle.trees[Capabilities[j]].seq
                      /\ zone[Capabilities[j]].root.seq < cycle.trees[Capabilities[j]].seq
      <3>1. CASE j = cycle.i
        BY <1>5, <1>a, <2>1, <3>1 DEF Domain, Wanted
      <3>2. CASE j # cycle.i
        <4>1. Capabilities[j] # Domain /\ Capabilities[j] \in Domains
          BY <1>a, <3>2, IndexFacts DEF Domain
        <4>2. built'[Capabilities[j]] = built[Capabilities[j]]
          BY <1>a, <2>1, <4>1
        <4>3. /\ cycle.i <= j =>
                   built[Capabilities[j]].seq < cycle.trees[Capabilities[j]].seq
              /\ j < cycle.i =>
                   /\ built[Capabilities[j]].seq = cycle.trees[Capabilities[j]].seq
                   /\ zone[Capabilities[j]].root.seq < cycle.trees[Capabilities[j]].seq
          BY <2>1 DEF SeqInv, TreesNewer
        <4>4. QED
          BY <1>a, <3>2, <4>2, <4>3
      <3>3. QED
        BY <3>1, <3>2
    <2>3. TreesNewer'
      <3>1. CASE cycle.i < Len(Capabilities) /\ cycle'.pc = "emit"
                   /\ cycle'.i = cycle.i + 1
        <4>1. \A j \in 1..Len(Capabilities) : (cycle'.i <= j <=> cycle.i < j)
                                              /\ (j < cycle'.i <=> j <= cycle.i)
          BY <1>a, <3>1
        <4>2. QED
          BY <2>1, <2>2, <3>1, <4>1 DEF TreesNewer, SyncPhases
      <3>2. CASE ~(cycle.i < Len(Capabilities)) /\ cycle'.pc = "list"
        <4>1. \A j \in 1..Len(Capabilities) : j <= cycle.i
          BY <1>a, <3>2
        <4>2. QED
          BY <2>1, <2>2, <3>2, <4>1 DEF TreesNewer, SyncPhases
      <3>3. QED
        BY <2>1, <3>1, <3>2
    <2>4. QED
      BY <1>6, <2>1, <2>3 DEF SeqInv
  <1>9. CASE List
    <2>1. /\ Quiet /\ cycle.pc = "list" /\ cycle'.pc = "entries"
          /\ cycle'.trees = cycle.trees /\ cycle'.i = cycle.i
      BY <1>a, <1>9 DEF List, Quiet, Cycling
    <2>2. QED
      BY <1>b, <2>1, QuietKeeps DEF Onward
  <1>10. CASE WriteEntries
    <2>1. PICK batch \in SUBSET cycle.write :
            /\ zone' = [zone EXCEPT ![Domain].entries = @ \cup batch]
            /\ cycle' = [cycle EXCEPT !.write = @ \ batch]
      BY <1>10 DEF WriteEntries
    <2>2. /\ cycle.pc = "entries" /\ cycle'.pc = "entries"
          /\ cycle'.trees = cycle.trees /\ cycle'.i = cycle.i
      BY <1>a, <1>10, <2>1 DEF WriteEntries, Cycling
    <2>3. Quiet
      BY <1>a, <1>10, <2>1 DEF WriteEntries, Quiet
    <2>4. QED
      BY <1>b, <2>2, <2>3, QuietKeeps DEF Onward
  <1>11. CASE EntriesWritten \/ Pruned
    <2>1. /\ Quiet /\ cycle'.trees = cycle.trees /\ cycle'.i = cycle.i
          /\ \/ cycle.pc = "entries" /\ cycle'.pc = "root"
             \/ cycle.pc = "prune" /\ cycle'.pc = "commit"
      BY <1>a, <1>11 DEF EntriesWritten, Pruned, Quiet, Cycling
    <2>2. QED
      BY <1>b, <2>1, QuietKeeps DEF Onward
  <1>12. CASE Prune
    <2>1. PICK batch \in SUBSET cycle.stale :
            /\ zone' = [zone EXCEPT ![Domain].entries = @ \ batch]
            /\ cycle' = [cycle EXCEPT !.stale = @ \ batch]
      BY <1>12 DEF Prune
    <2>2. /\ cycle.pc = "prune" /\ cycle'.pc = "prune"
          /\ cycle'.trees = cycle.trees /\ cycle'.i = cycle.i
      BY <1>a, <1>12, <2>1 DEF Prune, Cycling
    <2>3. Quiet
      BY <1>a, <1>12, <2>1 DEF Prune, Quiet
    <2>4. QED
      BY <1>b, <2>2, <2>3, QuietKeeps DEF Onward
  <1>13. CASE PruneFailed
    <2>1. PICK batch \in SUBSET cycle.stale :
            zone' = [zone EXCEPT ![Domain].entries = @ \ batch]
      BY <1>13 DEF PruneFailed
    <2>2. /\ cycle.pc = "prune" /\ cycle'.pc = "commit"
          /\ cycle'.trees = cycle.trees /\ cycle'.i = cycle.i
      BY <1>a, <1>13 DEF PruneFailed, Cycling
    <2>3. Quiet
      BY <1>a, <1>13, <2>1 DEF PruneFailed, Quiet
    <2>4. QED
      BY <1>b, <2>2, <2>3, QuietKeeps DEF Onward
  <1>14. CASE ListFailed \/ CommitPublishedFailed
    <2>1. Quiet /\ cycle' = PushFailed /\ cycle.pc \in SyncPhases
      BY <1>14 DEF ListFailed, CommitPublishedFailed, Quiet, SyncPhases
    <2>2. QED
      BY <1>b, <1>c, <2>1, QuietKeeps
  <1>15. CASE WriteEntriesFailed
    <2>1. PICK batch \in SUBSET cycle.write :
            zone' = [zone EXCEPT ![Domain].entries = @ \cup batch]
      BY <1>15 DEF WriteEntriesFailed
    <2>2. Quiet
      BY <1>a, <1>15, <2>1 DEF WriteEntriesFailed, Quiet
    <2>3. cycle' = PushFailed /\ cycle.pc \in SyncPhases
      BY <1>15 DEF WriteEntriesFailed, SyncPhases
    <2>4. QED
      BY <1>b, <1>c, <2>2, <2>3, QuietKeeps
  <1>16. CASE CommitPublished
    <2>1. Quiet /\ cycle.pc = "commit" /\ cycle' = Proceed("list", "git")
      BY <1>16 DEF CommitPublished, Quiet
    <2>2. /\ cycle'.trees = cycle.trees
          /\ cycle'.pc = "git" \/ (cycle'.pc = "list" /\ cycle'.i = cycle.i + 1)
      BY <1>a, <2>1 DEF Proceed, Cycling
    <2>3. QED
      BY <1>b, <2>1, <2>2, QuietKeeps DEF SyncPhases
  <1>17. ASSUME ServeWanted, cycle.pc = "root", built' = built
         PROVE  RootsEmitted' /\ RootsAdvance
    BY <1>17, ServeNewer DEF RootsAdvance
  <1>18. CASE WriteRoot
    <2>1. /\ ServeWanted /\ cycle.pc = "root" /\ built' = built
          /\ cycle'.pc = "prune" /\ cycle'.trees = cycle.trees /\ cycle'.i = cycle.i
      BY <1>a, <1>18 DEF WriteRoot, Cycling
    <2>2. ASSUME NEW j \in 1..Len(Capabilities)
          PROVE  /\ built'[Capabilities[j]].seq = cycle'.trees[Capabilities[j]].seq
                 /\ cycle'.i < j =>
                      zone'[Capabilities[j]].root.seq < cycle'.trees[Capabilities[j]].seq
      <3>1. built[Capabilities[j]].seq = cycle.trees[Capabilities[j]].seq
        BY <2>1 DEF SeqInv, TreesNewer, SyncPhases
      <3>2. ASSUME cycle.i < j
            PROVE  zone'[Capabilities[j]].root.seq < cycle.trees[Capabilities[j]].seq
        <4>1. Capabilities[j] # Domain /\ Capabilities[j] \in Domains /\ cycle.i <= j
          BY <1>a, <3>2, IndexFacts DEF Domain
        <4>2. zone'[Capabilities[j]] = zone[Capabilities[j]]
          BY <2>1, <4>1, ServeNewer
        <4>3. zone[Capabilities[j]].root.seq < cycle.trees[Capabilities[j]].seq
          BY <2>1, <4>1 DEF SeqInv, TreesNewer
        <4>4. QED
          BY <4>2, <4>3
      <3>3. QED
        BY <2>1, <3>1, <3>2
    <2>3. TreesNewer'
      BY <2>1, <2>2 DEF TreesNewer
    <2>4. QED
      BY <1>17, <2>1, <2>3 DEF SeqInv
  <1>19. CASE WriteRootFailed
    <2>1. /\ cycle' = PushFailed /\ cycle.pc = "root" /\ built' = built
          /\ zone' = zone \/ ServeWanted
      BY <1>19 DEF WriteRootFailed
    <2>2. RootsEmitted' /\ RootsAdvance
      BY <1>17, <2>1 DEF SeqInv, RootsEmitted, RootsAdvance
    <2>3. \A j \in 1..Len(Capabilities) :
            built'[Capabilities[j]].seq = cycle'.trees[Capabilities[j]].seq
      BY <1>c, <2>1 DEF SeqInv, TreesNewer, SyncPhases
    <2>4. TreesNewer'
      BY <1>c, <2>1, <2>3 DEF TreesNewer
    <2>5. QED
      BY <2>2, <2>4 DEF SeqInv
  <1>20. QED
    BY <1>1, <1>2, <1>3, <1>4, <1>7, <1>8, <1>9, <1>10, <1>11, <1>12, <1>13,
       <1>14, <1>15, <1>16, <1>18, <1>19 DEF Next, Cycle

\* treeSequence and the artifacts together: across failed pushes, lost answers
\* and restarts that forget the issued sequences, a root in the zone is only
\* ever replaced by one with a larger sequence.
THEOREM SequencesIncrease == Spec => SequenceIncreases
  <1>1. TypeOK /\ SeqInv /\ [Next]_dnsVars => [RootsAdvance]_dnsVars
    BY SeqNext
  <1>2. TypeOK /\ SeqInv /\ [Next]_dnsVars => SeqInv'
    BY SeqNext
  <1>3. QED
    BY <1>1, <1>2, TypeCorrect, SeqInit, PTL DEF Spec, SequenceIncreases, RootsAdvance

-----------------------------------------------------------------------------
(***************************************************************************)
(* The other properties relate the zone, the .published artifact and the    *)
(* tree the cycle retains, domain by domain.  The actions fall into the     *)
(* kinds below, which say what each does to one domain.                     *)
(***************************************************************************)

CycleTo(pc, i) ==
  /\ cycle'.pc = pc /\ cycle'.i = i
  /\ cycle'.trees = cycle.trees /\ cycle'.retain = cycle.retain

\* The roots stay, and of the entries only those of this domain change.
EntriesBecome(es) ==
  /\ \A d \in Domains : zone'[d].root = zone[d].root
  /\ zone'[Domain].entries = es
  /\ \A d \in Domains : d # Domain => zone'[d].entries = zone[d].entries

RootReplaced ==
  /\ zone'[Domain].root = Wanted /\ prior'[Domain] = zone[Domain].root
  /\ \A d \in Domains : /\ zone'[d].entries = zone[d].entries
                        /\ d # Domain => zone'[d].root = zone[d].root /\ prior'[d] = prior[d]

PublishedWanted ==
  /\ published'[Domain] = Wanted
  /\ \A d \in Domains : d # Domain => published'[d] = published[d]

Still == UNCHANGED <<zone, built, published, repo, prior, cycle>>

Ended ==
  /\ cycle'.pc = "rest" /\ ~cycle'.clean /\ \A d \in Domains : cycle'.retain[d] = NoTree
  /\ UNCHANGED <<zone, published, prior>>

Started ==
  /\ cycle'.pc = "emit" /\ cycle'.i = 1 /\ cycle'.retain = published
  /\ \A d \in Domains :
       Collapsed(cycle'.trees[d].nodes, published[d].nodes) =>
         Explained(cycle'.trees[d], published[d].seq)
  /\ UNCHANGED <<zone, built, published, prior>>

Emitted ==
  /\ cycle.pc = "emit" /\ cycle'.clean = cycle.clean
  /\ built'[Domain] = Wanted /\ \A d \in Domains : d # Domain => built'[d] = built[d]
  /\ \/ cycle.i < Len(Capabilities) /\ CycleTo("emit", cycle.i + 1)
     \/ cycle.i = Len(Capabilities) /\ CycleTo("list", 1)
  /\ UNCHANGED <<zone, published, prior>>

Listed ==
  /\ cycle.pc = "list" /\ CycleTo("entries", cycle.i) /\ cycle'.clean = cycle.clean
  /\ cycle'.write = Wanted.entries \ zone[Domain].entries
  /\ cycle'.stale = Stale(zone[Domain].entries, Wanted.entries, cycle.retain[Domain])
  /\ UNCHANGED <<zone, built, published, prior>>

Wrote ==
  /\ cycle.pc = "entries" /\ CycleTo("entries", cycle.i) /\ cycle'.clean = cycle.clean
  /\ cycle'.write \subseteq cycle.write /\ cycle'.stale = cycle.stale
  /\ \E batch \in SUBSET cycle.write : EntriesBecome(zone[Domain].entries \cup batch)
  /\ UNCHANGED <<built, published, prior>>

Completed ==
  /\ cycle.pc = "entries" /\ CycleTo("root", cycle.i) /\ cycle'.clean = cycle.clean
  /\ cycle'.stale = cycle.stale
  /\ UNCHANGED <<zone, built, published, prior>>

Rooted ==
  /\ cycle.pc = "root" /\ CycleTo("prune", cycle.i) /\ cycle'.clean = cycle.clean
  /\ cycle'.stale = cycle.stale
  /\ RootReplaced
  /\ UNCHANGED <<built, published>>

Deleted ==
  /\ cycle.pc = "prune" /\ CycleTo("prune", cycle.i) /\ cycle'.clean = cycle.clean
  /\ \E batch \in SUBSET cycle.stale :
       /\ EntriesBecome(zone[Domain].entries \ batch)
       /\ cycle'.stale = cycle.stale \ batch
  /\ UNCHANGED <<built, published, prior>>

PruneEnded ==
  /\ cycle.pc = "prune" /\ CycleTo("commit", cycle.i)
  /\ \E batch \in SUBSET cycle.stale : EntriesBecome(zone[Domain].entries \ batch)
  /\ cycle'.clean => cycle.clean /\ cycle.stale = {}
  /\ UNCHANGED <<built, published, prior>>

Committed ==
  /\ cycle.pc = "commit" /\ cycle'.clean = cycle.clean
  /\ \/ cycle.i < Len(Capabilities) /\ CycleTo("list", cycle.i + 1)
     \/ cycle.i = Len(Capabilities) /\ CycleTo("git", 1)
  /\ PublishedWanted
  /\ UNCHANGED <<zone, built, prior>>

Broken ==
  /\ CycleTo("git", 1) /\ ~cycle'.clean /\ UNCHANGED built
  /\ \/ UNCHANGED <<zone, published, prior>>
     \/ /\ cycle.pc = "entries"
        /\ \E batch \in SUBSET cycle.write : EntriesBecome(zone[Domain].entries \cup batch)
        /\ UNCHANGED <<published, prior>>
     \/ cycle.pc = "root" /\ RootReplaced /\ UNCHANGED published
     \/ cycle.pc = "commit" /\ PublishedWanted /\ UNCHANGED <<zone, prior>>

Pushed ==
  /\ cycle.pc = "git" /\ CycleTo("rest", 1) /\ cycle'.clean = cycle.clean
  /\ repo' = cycle.trees
  /\ UNCHANGED <<zone, built, published, prior>>

Kinds ==
  \/ Still \/ Ended \/ Started \/ Emitted \/ Listed \/ Wrote \/ Completed \/ Rooted
  \/ Deleted \/ PruneEnded \/ Committed \/ Broken \/ Pushed

LEMMA EntriesPointwise ==
  ASSUME TypeOK, NEW es, zone' = [zone EXCEPT ![Domain].entries = es]
  PROVE  EntriesBecome(es)
  BY SeqFacts DEF EntriesBecome

LEMMA RootPointwise ==
  ASSUME TypeOK, ServeWanted
  PROVE  RootReplaced
  <1>1. /\ zone \in [Domains -> [root: TreeOrForeign, entries: SUBSET Entries]]
        /\ prior \in [Domains -> TreeOrForeign] /\ Domain \in Domains
    BY SeqFacts DEF TypeOK
  <1>2. /\ zone' = [zone EXCEPT ![Domain].root = Wanted]
        /\ prior' = [prior EXCEPT ![Domain] = zone[Domain].root]
    BY DEF ServeWanted
  <1>3. QED
    BY <1>1, <1>2 DEF RootReplaced

LEMMA PublishedPointwise ==
  ASSUME TypeOK, published' = [published EXCEPT ![Domain] = Wanted]
  PROVE  PublishedWanted
  BY SeqFacts DEF TypeOK, PublishedWanted

\* A selection that passes the guard although it collapsed is explained.
LEMMA GateExplains ==
  ASSUME NEW s \in Selections, NEW d \in Domains,
         GateTree(d, s[d].pick, s[d].exempt),
         Collapsed(s[d].pick.nodes, published[d].nodes)
  PROVE  (\E t \in s[d].forks : published[d].seq < t) \/ s[d].safe
  <1>1. PICK full \in [Domains -> Picks], ready \in [Domains -> Picks],
             near \in BOOLEAN, cancel \in BOOLEAN, now \in gen..(gen + MaxSnapshotAge) :
          s = [e \in Domains |-> Selected(e, full[e], ready[e], near, cancel, now)]
    BY DEF Selections
  <1> DEFINE readyExempt == Exempt(d, now) \/ (cancel /\ GateTree(d, full[d], Exempt(d, now)))
             readyOnly == near /\ GateTree(d, ready[d], readyExempt)
  <1>2. /\ s[d].forks = ForksSettled(now)
        /\ s[d].exempt = IF readyOnly THEN readyExempt ELSE Exempt(d, now)
        /\ s[d].safe = (/\ readyOnly /\ cancel
                        /\ ~Collapsed(full[d].nodes, published[d].nodes))
    BY <1>1 DEF Selected
  <1>3. s[d].exempt
    BY DEF GateTree
  <1>4. CASE Exempt(d, now)
    BY <1>2, <1>4 DEF Exempt
  <1>5. CASE ~Exempt(d, now)
    <2>1. readyOnly /\ cancel /\ GateTree(d, full[d], Exempt(d, now))
      BY <1>2, <1>3, <1>5
    <2>2. ~Collapsed(full[d].nodes, published[d].nodes)
      BY <1>5, <2>1 DEF GateTree
    <2>3. QED
      BY <1>2, <2>1, <2>2
  <1>6. QED
    BY <1>4, <1>5

LEMMA StepKinds ==
  ASSUME TypeOK, [Next]_dnsVars
  PROVE  Kinds
  <1>a. cycle \in Cycling /\ Domain \in Domains /\ cycle.i \in 1..Len(Capabilities)
    BY SeqFacts
  <1>b. /\ Rest.pc = "rest" /\ ~Rest.clean /\ \A d \in Domains : Rest.retain[d] = NoTree
    BY DEF Rest
  <1>c. /\ PushFailed.pc = "git" /\ PushFailed.i = 1 /\ PushFailed.clean = FALSE
        /\ PushFailed.trees = cycle.trees /\ PushFailed.retain = cycle.retain
    BY <1>a DEF PushFailed, Cycling
  <1>d. cycle' = PushFailed => CycleTo("git", 1) /\ ~cycle'.clean
    BY <1>c DEF CycleTo
  <1>e. ~(cycle.i < Len(Capabilities)) => cycle.i = Len(Capabilities)
    BY <1>a, IndexFacts
  <1>1. CASE NewSnapshot \/ UNCHANGED dnsVars
    BY <1>1 DEF NewSnapshot, dnsVars, Kinds, Still
  <1>2. CASE Build
    <2>1. PICK s \in Selections :
            /\ \A d \in Domains : GateTree(d, s[d].pick, s[d].exempt)
            /\ cycle' = [Rest EXCEPT !.pc = "emit", !.clean = TRUE,
                                     !.trees = [d \in Domains |-> Tree(d, s[d])],
                                     !.retain = published]
      BY <1>2 DEF Build
    <2>2. /\ cycle'.pc = "emit" /\ cycle'.i = 1 /\ cycle'.retain = published
          /\ \A d \in Domains : cycle'.trees[d] = Tree(d, s[d])
      BY <2>1 DEF Rest
    <2>3. \A d \in Domains : /\ Tree(d, s[d]).nodes = s[d].pick.nodes
                             /\ Tree(d, s[d]).forks = s[d].forks
                             /\ Tree(d, s[d]).safe = s[d].safe
      BY DEF Tree
    <2>4. \A d \in Domains : Collapsed(s[d].pick.nodes, published[d].nodes) =>
                               Explained(Tree(d, s[d]), published[d].seq)
      BY <2>1, <2>3, GateExplains DEF Explained
    <2>5. QED
      BY <1>2, <2>2, <2>3, <2>4 DEF Build, Kinds, Started
  <1>3. CASE Skip \/ SkipUnread \/ EmitFailed \/ PushGitFailed \/ Restart
    BY <1>3, <1>b DEF Skip, SkipUnread, EmitFailed, PushGitFailed, Restart, Kinds, Ended
  <1>4. CASE Emit
    <2>1. \/ cycle.i < Len(Capabilities) /\ CycleTo("emit", cycle.i + 1)
          \/ cycle.i = Len(Capabilities) /\ CycleTo("list", 1)
      BY <1>4, <1>a, <1>e DEF Emit, Proceed, Cycling, CycleTo
    <2>2. cycle'.clean = cycle.clean
      BY <1>4, <1>a DEF Emit, Proceed, Cycling
    <2>3. built'[Domain] = Wanted /\ \A d \in Domains : d # Domain => built'[d] = built[d]
      BY <1>4, SeqFacts DEF Emit
    <2>4. QED
      BY <1>4, <2>1, <2>2, <2>3 DEF Emit, Kinds, Emitted
  <1>5. CASE List
    BY <1>5, <1>a DEF List, Cycling, CycleTo, Kinds, Listed
  <1>6. CASE WriteEntries
    <2>1. PICK batch \in SUBSET cycle.write :
            /\ zone' = [zone EXCEPT ![Domain].entries = zone[Domain].entries \cup batch]
            /\ cycle' = [cycle EXCEPT !.write = cycle.write \ batch]
      BY <1>6, <1>a DEF WriteEntries, Cycling
    <2>2. EntriesBecome(zone[Domain].entries \cup batch)
      BY <2>1, EntriesPointwise
    <2>3. /\ cycle'.write \subseteq cycle.write /\ cycle'.stale = cycle.stale
          /\ cycle'.clean = cycle.clean /\ CycleTo("entries", cycle.i) /\ cycle.pc = "entries"
      BY <1>6, <1>a, <2>1 DEF WriteEntries, Cycling, CycleTo
    <2>4. QED
      BY <1>6, <2>2, <2>3 DEF WriteEntries, Kinds, Wrote
  <1>7. CASE EntriesWritten
    BY <1>7, <1>a DEF EntriesWritten, Cycling, CycleTo, Kinds, Completed
  <1>8. CASE WriteRoot
    <2>1. RootReplaced
      BY <1>8, RootPointwise DEF WriteRoot
    <2>2. /\ cycle.pc = "root" /\ CycleTo("prune", cycle.i) /\ cycle'.clean = cycle.clean
          /\ cycle'.stale = cycle.stale
      BY <1>8, <1>a DEF WriteRoot, Cycling, CycleTo
    <2>3. QED
      BY <1>8, <2>1, <2>2 DEF WriteRoot, Kinds, Rooted
  <1>9. CASE Prune
    <2>1. PICK batch \in SUBSET cycle.stale :
            /\ zone' = [zone EXCEPT ![Domain].entries = zone[Domain].entries \ batch]
            /\ cycle' = [cycle EXCEPT !.stale = cycle.stale \ batch]
      BY <1>9, <1>a DEF Prune, Cycling
    <2>2. EntriesBecome(zone[Domain].entries \ batch)
      BY <2>1, EntriesPointwise
    <2>3. /\ cycle'.stale = cycle.stale \ batch
          /\ cycle'.clean = cycle.clean /\ CycleTo("prune", cycle.i) /\ cycle.pc = "prune"
      BY <1>9, <1>a, <2>1 DEF Prune, Cycling, CycleTo
    <2>4. QED
      BY <1>9, <2>2, <2>3 DEF Prune, Kinds, Deleted
  <1>10. CASE PruneFailed
    <2>1. PICK batch \in SUBSET cycle.stale :
            zone' = [zone EXCEPT ![Domain].entries = zone[Domain].entries \ batch]
      BY <1>10 DEF PruneFailed
    <2>2. EntriesBecome(zone[Domain].entries \ batch)
      BY <2>1, EntriesPointwise
    <2>3. ~cycle'.clean /\ CycleTo("commit", cycle.i) /\ cycle.pc = "prune"
      BY <1>10, <1>a DEF PruneFailed, Cycling, CycleTo
    <2>4. QED
      BY <1>10, <2>2, <2>3 DEF PruneFailed, Kinds, PruneEnded
  <1>11. CASE Pruned
    <2>1. EntriesBecome(zone[Domain].entries \ {}) /\ {} \in SUBSET cycle.stale
      BY <1>11 DEF Pruned, EntriesBecome
    <2>2. /\ cycle'.clean = cycle.clean /\ CycleTo("commit", cycle.i) /\ cycle.pc = "prune"
          /\ cycle.stale = {}
      BY <1>11, <1>a DEF Pruned, Cycling, CycleTo
    <2>3. QED
      BY <1>11, <2>1, <2>2 DEF Pruned, Kinds, PruneEnded
  <1>12. CASE CommitPublished
    <2>1. \/ cycle.i < Len(Capabilities) /\ CycleTo("list", cycle.i + 1)
          \/ cycle.i = Len(Capabilities) /\ CycleTo("git", 1)
      BY <1>12, <1>a, <1>e DEF CommitPublished, Proceed, Cycling, CycleTo
    <2>2. cycle'.clean = cycle.clean
      BY <1>12, <1>a DEF CommitPublished, Proceed, Cycling
    <2>3. PublishedWanted
      BY <1>12, PublishedPointwise DEF CommitPublished
    <2>4. QED
      BY <1>12, <2>1, <2>2, <2>3 DEF CommitPublished, Kinds, Committed
  <1>13. CASE ListFailed
    BY <1>13, <1>d DEF ListFailed, Kinds, Broken
  <1>14. CASE WriteEntriesFailed
    <2>1. PICK batch \in SUBSET cycle.write :
            zone' = [zone EXCEPT ![Domain].entries = zone[Domain].entries \cup batch]
      BY <1>14 DEF WriteEntriesFailed
    <2>2. EntriesBecome(zone[Domain].entries \cup batch)
      BY <2>1, EntriesPointwise
    <2>3. QED
      BY <1>14, <1>d, <2>2 DEF WriteEntriesFailed, Kinds, Broken
  <1>15. CASE WriteRootFailed
    <2>1. UNCHANGED <<zone, prior>> \/ RootReplaced
      BY <1>15, RootPointwise DEF WriteRootFailed
    <2>2. QED
      BY <1>15, <1>d, <2>1 DEF WriteRootFailed, Kinds, Broken
  <1>16. CASE CommitPublishedFailed
    <2>1. UNCHANGED published \/ PublishedWanted
      BY <1>16, PublishedPointwise DEF CommitPublishedFailed
    <2>2. QED
      BY <1>16, <1>d, <2>1 DEF CommitPublishedFailed, Kinds, Broken
  <1>17. CASE PushGit
    <2>1. CycleTo("rest", 1) /\ cycle'.clean = cycle.clean
      BY <1>17 DEF PushGit, Rest, CycleTo
    <2>2. QED
      BY <1>17, <2>1 DEF PushGit, Kinds, Pushed
  <1>18. QED
    BY <1>1, <1>2, <1>3, <1>4, <1>5, <1>6, <1>7, <1>8, <1>9, <1>10, <1>11, <1>12, <1>13,
       <1>14, <1>15, <1>16, <1>17 DEF Next, Cycle

-----------------------------------------------------------------------------
(* The collapse baseline *)

Turns == {"list", "entries", "root", "prune", "commit"}

Uncommitted(j) == cycle.pc = "emit" \/ (cycle.pc \in Turns /\ cycle.i <= j)

\* Until a domain's tree is committed, its baseline is the one that the tree was
\* gated against, and that the cycle retains.
Gated ==
  \A j \in 1..Len(Capabilities) : Uncommitted(j) =>
    /\ cycle.retain[Capabilities[j]] = published[Capabilities[j]]
    /\ Collapsed(cycle.trees[Capabilities[j]].nodes, published[Capabilities[j]].nodes) =>
         Explained(cycle.trees[Capabilities[j]], published[Capabilities[j]].seq)

Serving == cycle.pc \in {"prune", "commit"} => zone[Domain].root = Wanted

BaseInv == BaselineServed /\ Gated /\ Serving

LEMMA GatedNext ==
  ASSUME TypeOK, Gated, Kinds
  PROVE  Gated'
  <1>1. CASE cycle'.pc \in {"rest", "git"}
    BY <1>1 DEF Gated, Uncommitted, Turns
  <1>2. CASE Started
    <2>1. /\ cycle'.retain = published /\ published' = published
          /\ \A d \in Domains :
               Collapsed(cycle'.trees[d].nodes, published[d].nodes) =>
                 Explained(cycle'.trees[d], published[d].seq)
      BY <1>2 DEF Started
    <2>2. ASSUME NEW j \in 1..Len(Capabilities)
          PROVE  /\ cycle'.retain[Capabilities[j]] = published'[Capabilities[j]]
                 /\ Collapsed(cycle'.trees[Capabilities[j]].nodes,
                              published'[Capabilities[j]].nodes) =>
                      Explained(cycle'.trees[Capabilities[j]],
                                published'[Capabilities[j]].seq)
      BY <2>1, IndexFacts
    <2>3. QED
      BY <2>2 DEF Gated
  <1>3. ASSUME cycle'.trees = cycle.trees, cycle'.retain = cycle.retain,
               \A j \in 1..Len(Capabilities) : Uncommitted(j)' =>
                 Uncommitted(j) /\ published'[Capabilities[j]] = published[Capabilities[j]]
        PROVE  Gated'
    BY <1>3 DEF Gated
  <1>4. cycle.i \in 1..Len(Capabilities)
    BY SeqFacts
  <1>5. CASE Still
    BY <1>5 DEF Still, Gated, Uncommitted
  <1>6. CASE Emitted
    BY <1>3, <1>6 DEF Emitted, Uncommitted, CycleTo
  <1>7. CASE Listed \/ Wrote \/ Completed \/ Rooted \/ Deleted \/ PruneEnded
    <2>1. /\ cycle'.i = cycle.i /\ cycle.pc \in Turns /\ cycle'.pc \in Turns
          /\ cycle'.trees = cycle.trees /\ cycle'.retain = cycle.retain
          /\ published' = published
      BY <1>7 DEF Listed, Wrote, Completed, Rooted, Deleted, PruneEnded, CycleTo, Turns
    <2>2. QED
      BY <1>3, <2>1 DEF Uncommitted, Turns
  <1>8. CASE Committed /\ cycle'.pc = "list"
    <2>1. /\ cycle'.i = cycle.i + 1 /\ cycle.pc = "commit"
          /\ cycle'.trees = cycle.trees /\ cycle'.retain = cycle.retain
          /\ \A d \in Domains : d # Domain => published'[d] = published[d]
      BY <1>8 DEF Committed, CycleTo, PublishedWanted
    <2>2. ASSUME NEW j \in 1..Len(Capabilities), cycle.i + 1 <= j
          PROVE  /\ published'[Capabilities[j]] = published[Capabilities[j]]
                 /\ cycle.i <= j
      <3>1. j # cycle.i /\ cycle.i <= j
        BY <1>4, <2>2
      <3>2. Capabilities[j] # Domain /\ Capabilities[j] \in Domains
        BY <1>4, <3>1, IndexFacts DEF Domain
      <3>3. QED
        BY <2>1, <3>1, <3>2
    <2>3. QED
      BY <1>3, <1>8, <2>1, <2>2 DEF Uncommitted, Turns
  <1>9. (Ended \/ Broken \/ Pushed) => cycle'.pc \in {"rest", "git"}
    BY DEF Ended, Broken, Pushed, CycleTo
  <1>10. Committed => cycle'.pc \in {"list", "git"}
    BY DEF Committed, CycleTo
  <1>11. QED
    BY <1>1, <1>2, <1>5, <1>6, <1>7, <1>8, <1>9, <1>10 DEF Kinds

\* Domain and Wanted stay those of the turn.
LEMMA SameTurn ==
  ASSUME NEW pc, CycleTo(pc, cycle.i)
  PROVE  Domain' = Domain /\ Wanted' = Wanted
  BY DEF CycleTo, Domain, Wanted

LEMMA ServingNext ==
  ASSUME TypeOK, Serving, Kinds
  PROVE  Serving'
  <1>0. Domain \in Domains
    BY SeqFacts
  <1>1. CASE cycle'.pc \notin {"prune", "commit"}
    BY <1>1 DEF Serving
  <1>2. CASE Rooted
    <2>1. Domain' = Domain /\ Wanted' = Wanted /\ zone'[Domain].root = Wanted
      BY <1>2, SameTurn DEF Rooted, RootReplaced
    <2>2. QED
      BY <2>1 DEF Serving
  <1>3. CASE Deleted \/ PruneEnded
    <2>1. /\ Domain' = Domain /\ Wanted' = Wanted /\ cycle.pc = "prune"
          /\ zone'[Domain].root = zone[Domain].root
      BY <1>0, <1>3, SameTurn DEF Deleted, PruneEnded, EntriesBecome
    <2>2. QED
      BY <2>1 DEF Serving
  <1>4. CASE Still
    BY <1>4 DEF Still, Serving, Domain, Wanted
  <1>5. QED
    BY <1>1, <1>2, <1>3, <1>4 DEF Kinds, Ended, Started, Emitted, Listed, Wrote, Completed,
       Committed, Broken, Pushed, CycleTo

\* A root that is replaced is older than the one that replaces it.
LEMMA ReplacedOlder ==
  ASSUME TypeOK, SeqInv, cycle.pc = "root"
  PROVE  zone[Domain].root.seq < Wanted.seq /\ zone[Domain].root.seq \in Nat /\ Wanted.seq \in Nat
  BY SeqFacts DEF SeqInv, TreesNewer, Domain, Wanted

LEMMA BaselineNext ==
  ASSUME TypeOK, SeqInv, Serving, BaselineServed, Kinds
  PROVE  BaselineServed'
  <1>0. /\ Domain \in Domains
        /\ \A d \in Domains : published[d].seq \in Nat /\ zone[d].root.seq \in Nat
    BY SeqFacts, TreeFacts DEF TypeOK
  <1>1. CASE published' = published /\ \A d \in Domains : zone'[d].root = zone[d].root
    BY <1>1 DEF BaselineServed
  <1>2. CASE cycle.pc = "root" /\ RootReplaced /\ published' = published
    <2>1. /\ zone[Domain].root.seq < Wanted.seq /\ Wanted.seq \in Nat
          /\ zone'[Domain].root = Wanted
          /\ \A d \in Domains : d # Domain => zone'[d].root = zone[d].root
      BY <1>2, ReplacedOlder DEF RootReplaced
    <2>2. published[Domain].seq < Wanted.seq
      BY <1>0, <2>1 DEF BaselineServed
    <2>3. QED
      BY <1>0, <1>2, <2>1, <2>2 DEF BaselineServed
  <1>3. CASE cycle.pc = "commit" /\ PublishedWanted /\ zone' = zone
    <2>1. zone[Domain].root = Wanted /\ Wanted.seq \in Nat
      BY <1>0, <1>3, SeqFacts DEF Serving, Wanted
    <2>2. QED
      BY <1>0, <1>3, <2>1 DEF BaselineServed, PublishedWanted
  <1>4. QED
    BY <1>1, <1>2, <1>3 DEF Kinds, Still, Ended, Started, Emitted, Listed, Wrote, Completed,
       Rooted, Deleted, PruneEnded, Committed, Broken, Pushed, EntriesBecome

LEMMA BaseInit == Init => BaseInv
  <1> SUFFICES ASSUME Init PROVE BaseInv
    OBVIOUS
  <1>1. cycle.pc = "rest"
    BY DEF Init, Rest
  <1>2. \A d \in Domains : published[d] = NoTree /\ zone[d].root.seq = 0
    BY DEF Init, Foreign, NoTree
  <1>3. NoTree.seq = 0
    BY DEF NoTree
  <1>4. QED
    BY <1>1, <1>2, <1>3 DEF BaseInv, BaselineServed, Gated, Serving, Uncommitted, Turns

LEMMA BaseNext == TypeOK /\ SeqInv /\ BaseInv /\ [Next]_dnsVars => BaseInv'
  BY StepKinds, GatedNext, ServingNext, BaselineNext DEF BaseInv

\* The collapse guard measures against a tree that the zone has served: no failed
\* push, crash or lost answer makes a tree the baseline that was never served, or
\* one newer than the root.
THEOREM BaselineWasServed == Spec => []BaselineServed
  <1>1. BaseInv => BaselineServed
    BY DEF BaseInv
  <1>2. TypeOK /\ SeqInv /\ [Next]_dnsVars => SeqInv'
    BY SeqNext
  <1>3. QED
    BY <1>1, <1>2, TypeCorrect, SeqInit, BaseInit, BaseNext, PTL DEF Spec

DropExplained ==
  \A d \in Domains :
    (/\ zone'[d].root # zone[d].root /\ published[d] = zone[d].root
     /\ Collapsed(zone'[d].root.nodes, zone[d].root.nodes))
      => Explained(zone'[d].root, zone[d].root.seq)

LEMMA DropStep ==
  ASSUME TypeOK, BaseInv, Kinds
  PROVE  DropExplained
  <1>1. CASE \A d \in Domains : zone'[d].root = zone[d].root
    BY <1>1 DEF DropExplained
  <1>2. CASE cycle.pc = "root" /\ RootReplaced
    <2>1. /\ zone'[Domain].root = Wanted
          /\ \A d \in Domains : d # Domain => zone'[d].root = zone[d].root
      BY <1>2 DEF RootReplaced
    <2>2. Collapsed(Wanted.nodes, published[Domain].nodes) =>
            Explained(Wanted, published[Domain].seq)
      <3>1. cycle.i \in 1..Len(Capabilities) /\ cycle.i <= cycle.i
        BY SeqFacts
      <3>2. QED
        BY <1>2, <3>1 DEF BaseInv, Gated, Uncommitted, Turns, Domain, Wanted
    <2>3. QED
      BY <2>1, <2>2 DEF DropExplained
  <1>3. QED
    BY <1>1, <1>2 DEF Kinds, Still, Ended, Started, Emitted, Listed, Wrote, Completed,
       Rooted, Deleted, PruneEnded, Committed, Broken, Pushed, EntriesBecome

\* The collapse guard holds at the moment the root is written, not only when the
\* tree is gated: the served tree is not replaced by one that dropped further than
\* --max-drop-pct unless a fork explains it.
THEOREM DropsNeedFork == Spec => DropNeedsFork
  <1>1. TypeOK /\ BaseInv /\ [Next]_dnsVars => [DropExplained]_dnsVars
    BY StepKinds, DropStep
  <1>2. TypeOK /\ SeqInv /\ [Next]_dnsVars => SeqInv'
    BY SeqNext
  <1>3. QED
    BY <1>1, <1>2, TypeCorrect, SeqInit, BaseInit, BaseNext, PTL
       DEF Spec, DropNeedsFork, DropExplained

-----------------------------------------------------------------------------
(* The retained tree *)

\* The baseline stays walkable when it is the root that was replaced last.
PublishedWalk ==
  \A d \in Domains : published[d] = prior[d] => prior[d].entries \subseteq zone[d].entries

SparesRetained ==
  cycle.pc \in {"entries", "root", "prune"} =>
    \A e \in cycle.stale : e \notin cycle.retain[Domain].entries

WalkInv == RetainedWalk /\ PublishedWalk /\ SparesRetained

LEMMA SparesNext ==
  ASSUME TypeOK, SparesRetained, Kinds
  PROVE  SparesRetained'
  <1>1. CASE cycle'.pc \notin {"entries", "root", "prune"}
    BY <1>1 DEF SparesRetained
  <1>2. CASE Still
    BY <1>2 DEF Still, SparesRetained, Domain
  <1>3. CASE Listed
    <2>1. /\ Domain' = Domain /\ cycle'.retain = cycle.retain
          /\ cycle'.stale = Stale(zone[Domain].entries, Wanted.entries, cycle.retain[Domain])
      BY <1>3, SameTurn DEF Listed, CycleTo
    <2>2. \A e \in cycle'.stale : e \notin cycle.retain[Domain].entries
      BY <2>1 DEF Stale
    <2>3. QED
      BY <2>1, <2>2 DEF SparesRetained
  <1>4. CASE Wrote \/ Completed \/ Rooted \/ Deleted
    <2>1. /\ Domain' = Domain /\ cycle'.retain = cycle.retain
          /\ cycle'.stale \subseteq cycle.stale /\ cycle.pc \in {"entries", "root", "prune"}
      BY <1>4, SameTurn DEF Wrote, Completed, Rooted, Deleted, CycleTo
    <2>2. QED
      BY <2>1 DEF SparesRetained
  <1>5. QED
    BY <1>1, <1>2, <1>3, <1>4 DEF Kinds, Ended, Started, Emitted, PruneEnded,
       Committed, Broken, Pushed, CycleTo

\* What a step does to the entries of the tree that was served before.
LEMMA PriorKept ==
  ASSUME TypeOK, BaseInv, ResolveInv, WalkInv, Kinds, NEW d \in Domains, NEW t \in TreeOrForeign,
         \/ t = published[d] /\ published'[d] = t
         \/ t = cycle.retain[d] /\ cycle'.retain = cycle.retain,
         prior'[d] = t
  PROVE  t.entries \subseteq zone'[d].entries
  <1>0. Domain \in Domains /\ cycle.i \in 1..Len(Capabilities)
    BY SeqFacts
  <1>1. ASSUME prior'[d] = prior[d]
        PROVE  t.entries \subseteq zone[d].entries
    BY <1>1 DEF WalkInv, RetainedWalk, PublishedWalk
  <1>2. CASE zone' = zone /\ prior' = prior
    BY <1>1, <1>2
  <1>3. CASE prior' = prior /\ \E batch : EntriesBecome(zone[Domain].entries \cup batch)
    <2>1. zone[d].entries \subseteq zone'[d].entries
      BY <1>3 DEF EntriesBecome
    <2>2. QED
      BY <1>1, <1>3, <2>1
  <1>4. CASE RootReplaced
    <2>1. CASE d # Domain
      BY <1>1, <1>4, <2>1 DEF RootReplaced
    <2>2. CASE d = Domain
      <3>1. t = zone[d].root /\ zone'[d].entries = zone[d].entries
        BY <1>4, <2>2 DEF RootReplaced
      <3>2. QED
        BY <3>1 DEF ResolveInv, RootResolvable
    <2>3. QED
      BY <2>1, <2>2
  <1>5. CASE /\ cycle.pc = "prune" /\ prior' = prior
             /\ \E batch \in SUBSET cycle.stale : EntriesBecome(zone[Domain].entries \ batch)
    <2>1. CASE d # Domain
      BY <1>1, <1>5, <2>1 DEF EntriesBecome
    <2>2. CASE d = Domain
      <3>1. cycle.retain[Domain] = published[Domain]
        BY <1>0, <1>5 DEF BaseInv, Gated, Uncommitted, Turns, Domain
      <3>2. t = cycle.retain[Domain]
        BY <2>2, <3>1
      <3>3. \A e \in cycle.stale : e \notin t.entries
        BY <1>5, <3>2 DEF WalkInv, SparesRetained
      <3>4. QED
        BY <1>1, <1>5, <2>2, <3>3 DEF EntriesBecome
    <2>3. QED
      BY <2>1, <2>2
  <1>6. QED
    BY <1>2, <1>3, <1>4, <1>5 DEF Kinds, Still, Ended, Started, Emitted, Listed, Wrote, Completed,
       Rooted, Deleted, PruneEnded, Committed, Broken, Pushed

LEMMA WalkNext ==
  ASSUME TypeOK, TypeOK', BaseInv, ResolveInv, WalkInv, Kinds
  PROVE  WalkInv'
  <1>0. \A d \in Domains : prior'[d] \in TreeOrForeign
    BY DEF TypeOK
  <1>1. ASSUME NEW d \in Domains, published'[d] = prior'[d]
        PROVE  prior'[d].entries \subseteq zone'[d].entries
    <2>1. CASE published'[d] = published[d]
      BY <1>0, <1>1, <2>1, PriorKept
    <2>2. CASE published'[d] # published[d]
      <3>1. cycle.pc = "commit" /\ PublishedWanted /\ zone' = zone /\ prior' = prior
        BY <2>2 DEF Kinds, Still, Ended, Started, Emitted, Listed, Wrote, Completed,
           Rooted, Deleted, PruneEnded, Committed, Broken, Pushed
      <3>2. d = Domain /\ published'[d] = Wanted
        BY <2>2, <3>1 DEF PublishedWanted
      <3>3. zone[d].root = Wanted
        BY <3>1, <3>2 DEF BaseInv, Serving
      <3>4. QED
        BY <1>1, <3>1, <3>2, <3>3 DEF ResolveInv, RootResolvable
    <2>3. QED
      BY <2>1, <2>2
  <1>2. ASSUME NEW d \in Domains, cycle'.retain[d] = prior'[d]
        PROVE  prior'[d].entries \subseteq zone'[d].entries
    <2>1. CASE cycle'.retain = cycle.retain
      BY <1>0, <1>2, <2>1, PriorKept
    <2>2. CASE Started
      <3>1. prior'[d] = published[d] /\ published'[d] = published[d]
        BY <1>2, <2>2 DEF Started
      <3>2. QED
        BY <1>0, <3>1, PriorKept
    <2>3. CASE Ended
      BY <1>2, <2>3 DEF Ended, NoTree
    <2>4. QED
      BY <2>1, <2>2, <2>3 DEF Kinds, Still, Emitted, Listed, Wrote, Completed,
         Rooted, Deleted, PruneEnded, Committed, Broken, Pushed, CycleTo
  <1>3. SparesRetained'
    BY SparesNext DEF WalkInv
  <1>4. QED
    BY <1>1, <1>2, <1>3 DEF WalkInv, PublishedWalk, RetainedWalk

LEMMA WalkInit == Init => WalkInv
  <1> SUFFICES ASSUME Init PROVE WalkInv
    OBVIOUS
  <1>1. PICK es \in SUBSET Entries :
          /\ zone = [d \in Domains |-> [root |-> Foreign(es), entries |-> es]]
          /\ prior = [d \in Domains |-> Foreign(es)]
    BY DEF Init
  <1>2. \A d \in Domains : prior[d].entries \subseteq zone[d].entries
    BY <1>1 DEF Foreign, NoTree
  <1>3. cycle.pc = "rest"
    BY DEF Init, Rest
  <1>4. QED
    BY <1>2, <1>3 DEF WalkInv, RetainedWalk, PublishedWalk, SparesRetained

\* "a client still holding the previous root can finish its walk": the tree that
\* the cycle retains stays whole after its root was replaced, through the deletions
\* of this and of later cycles, failures and restarts.
THEOREM RetainedStaysWhole == Spec => []RetainedWalk
  <1>1. WalkInv => RetainedWalk
    BY DEF WalkInv
  <1>2. TypeOK /\ SeqInv /\ [Next]_dnsVars => SeqInv'
    BY SeqNext
  <1>3. TypeOK /\ TypeOK' /\ BaseInv /\ ResolveInv /\ WalkInv /\ [Next]_dnsVars => WalkInv'
    BY StepKinds, WalkNext
  <1>4. QED
    BY <1>1, <1>2, <1>3, TypeCorrect, SeqInit, BaseInit, BaseNext, ResolveInit, ResolveNext,
       WalkInit, PTL DEF Spec

-----------------------------------------------------------------------------
(* A clean cycle *)

Done(j) == cycle.pc \in {"git", "rest"} \/ (cycle.pc \in Turns /\ j < cycle.i)

\* Nothing but the tree t and the retained one is left in the zone of d.
Tidy(d, t) ==
  cycle.retain[d] # NoTree => zone[d].entries \subseteq t.entries \cup cycle.retain[d].entries

\* In a cycle without a failure the artifacts follow the trees, domain by domain.
EmittedClean ==
  cycle.clean => \A j \in 1..Len(Capabilities) :
    (cycle.pc = "emit" => j < cycle.i) => built[Capabilities[j]] = cycle.trees[Capabilities[j]]

DoneClean ==
  cycle.clean => \A j \in 1..Len(Capabilities) : Done(j) =>
    /\ zone[Capabilities[j]].root = cycle.trees[Capabilities[j]]
    /\ published[Capabilities[j]] = cycle.trees[Capabilities[j]]
    /\ Tidy(Capabilities[j], cycle.trees[Capabilities[j]])

\* What is in the zone of the domain whose turn it is: the wanted tree, the
\* retained one and what is to be deleted.
TurnClean ==
  cycle.clean =>
    /\ cycle.pc = "entries" => cycle.write \subseteq Wanted.entries
    /\ cycle.pc \in {"entries", "root", "prune"} /\ cycle.retain[Domain] # NoTree =>
         zone[Domain].entries \subseteq
           (Wanted.entries \cup cycle.retain[Domain].entries) \cup cycle.stale
    /\ cycle.pc = "commit" => Tidy(Domain, Wanted)

PushedClean == cycle.clean /\ cycle.pc = "rest" => repo = cycle.trees

HealInv == EmittedClean /\ DoneClean /\ TurnClean /\ PushedClean

LEMMA EmittedCleanNext ==
  ASSUME TypeOK, EmittedClean, Kinds
  PROVE  EmittedClean'
  <1>0. cycle.i \in 1..Len(Capabilities) /\ Len(Capabilities) \in Nat
    BY SeqFacts, IndexFacts
  <1>1. CASE ~cycle'.clean
    BY <1>1 DEF EmittedClean
  <1>2. CASE Started
    <2>1. cycle'.pc = "emit" /\ \A j \in 1..Len(Capabilities) : ~(j < cycle'.i)
      BY <1>2 DEF Started
    <2>2. QED
      BY <2>1 DEF EmittedClean
  <1>3. CASE Emitted
    <2>1. /\ cycle'.trees = cycle.trees /\ cycle'.clean = cycle.clean /\ cycle.pc = "emit"
          /\ built'[Domain] = Wanted /\ \A d \in Domains : d # Domain => built'[d] = built[d]
          /\ \/ cycle'.pc = "emit" /\ cycle'.i = cycle.i + 1
             \/ cycle.i = Len(Capabilities) /\ cycle'.pc = "list"
      BY <1>3 DEF Emitted, CycleTo
    <2>2. ASSUME NEW j \in 1..Len(Capabilities), cycle.clean, cycle'.pc = "emit" => j < cycle'.i
          PROVE  built'[Capabilities[j]] = cycle.trees[Capabilities[j]]
      <3>1. j <= cycle.i
        BY <1>0, <2>1, <2>2
      <3>2. CASE j = cycle.i
        BY <2>1, <3>2 DEF Domain, Wanted
      <3>3. CASE j # cycle.i
        <4>1. j < cycle.i /\ Capabilities[j] # Domain /\ Capabilities[j] \in Domains
          BY <1>0, <3>1, <3>3, IndexFacts DEF Domain
        <4>2. QED
          BY <2>1, <2>2, <4>1 DEF EmittedClean
      <3>4. QED
        BY <3>2, <3>3
    <2>3. QED
      BY <2>1, <2>2 DEF EmittedClean
  <1>4. CASE Still
    BY <1>4 DEF Still, EmittedClean
  <1>5. CASE /\ cycle'.trees = cycle.trees /\ built' = built
             /\ cycle'.clean => cycle.clean
             /\ cycle.pc # "emit"
    BY <1>5 DEF EmittedClean
  <1>6. QED
    BY <1>1, <1>2, <1>3, <1>4, <1>5 DEF Kinds, Ended, Listed, Wrote, Completed,
       Rooted, Deleted, PruneEnded, Committed, Broken, Pushed, CycleTo

LEMMA TurnCleanNext ==
  ASSUME TypeOK, TurnClean, Kinds
  PROVE  TurnClean'
  <1>1. CASE ~cycle'.clean \/ cycle'.pc \notin {"entries", "root", "prune", "commit"}
    BY <1>1 DEF TurnClean
  <1>2. CASE Still
    BY <1>2 DEF Still, TurnClean, Domain, Wanted, Tidy
  <1>3. CASE Listed
    <2>1. /\ Domain' = Domain /\ Wanted' = Wanted /\ zone' = zone
          /\ cycle'.pc = "entries" /\ cycle'.retain = cycle.retain
          /\ cycle'.write = Wanted.entries \ zone[Domain].entries
          /\ cycle'.stale = Stale(zone[Domain].entries, Wanted.entries, cycle.retain[Domain])
      BY <1>3, SameTurn DEF Listed, CycleTo
    <2>2. cycle.retain[Domain] # NoTree =>
            zone[Domain].entries \subseteq
              (Wanted.entries \cup cycle.retain[Domain].entries) \cup cycle'.stale
      BY <2>1 DEF Stale
    <2>3. QED
      BY <2>1, <2>2 DEF TurnClean
  <1>4. CASE Wrote /\ cycle'.clean
    <2>1. /\ Domain' = Domain /\ Wanted' = Wanted /\ cycle.clean
          /\ cycle.pc = "entries" /\ cycle'.pc = "entries" /\ cycle'.retain = cycle.retain
          /\ cycle'.write \subseteq cycle.write /\ cycle'.stale = cycle.stale
      BY <1>4, SameTurn DEF Wrote, CycleTo
    <2>2. PICK batch \in SUBSET cycle.write :
            zone'[Domain].entries = zone[Domain].entries \cup batch
      BY <1>4 DEF Wrote, EntriesBecome
    <2>3. cycle.write \subseteq Wanted.entries
      BY <2>1 DEF TurnClean
    <2>4. QED
      BY <2>1, <2>2, <2>3 DEF TurnClean
  <1>5. CASE (Completed \/ Rooted) /\ cycle'.clean
    <2>1. /\ Domain' = Domain /\ Wanted' = Wanted /\ cycle.clean
          /\ cycle.pc \in {"entries", "root"} /\ cycle'.pc \in {"root", "prune"}
          /\ cycle'.retain = cycle.retain /\ cycle'.stale = cycle.stale
          /\ zone'[Domain].entries = zone[Domain].entries
      BY <1>5, SameTurn, SeqFacts DEF Completed, Rooted, CycleTo, RootReplaced
    <2>2. QED
      BY <2>1 DEF TurnClean
  <1>6. CASE Deleted /\ cycle'.clean
    <2>1. /\ Domain' = Domain /\ Wanted' = Wanted /\ cycle.clean
          /\ cycle.pc = "prune" /\ cycle'.pc = "prune" /\ cycle'.retain = cycle.retain
      BY <1>6, SameTurn DEF Deleted, CycleTo
    <2>2. PICK batch \in SUBSET cycle.stale :
            /\ zone'[Domain].entries = zone[Domain].entries \ batch
            /\ cycle'.stale = cycle.stale \ batch
      BY <1>6 DEF Deleted, EntriesBecome
    <2>3. QED
      BY <2>1, <2>2 DEF TurnClean
  <1>7. CASE PruneEnded /\ cycle'.clean
    <2>1. /\ Domain' = Domain /\ Wanted' = Wanted /\ cycle.clean /\ cycle.stale = {}
          /\ cycle.pc = "prune" /\ cycle'.pc = "commit" /\ cycle'.retain = cycle.retain
      BY <1>7, SameTurn DEF PruneEnded, CycleTo
    <2>2. zone'[Domain].entries \subseteq zone[Domain].entries
      BY <1>7 DEF PruneEnded, EntriesBecome
    <2>3. QED
      BY <2>1, <2>2 DEF TurnClean, Tidy
  <1>8. QED
    BY <1>1, <1>2, <1>3, <1>4, <1>5, <1>6, <1>7 DEF Kinds, Ended, Started, Emitted,
       Committed, Broken, Pushed, CycleTo

LEMMA DoneCleanNext ==
  ASSUME TypeOK, Serving, TurnClean, DoneClean, Kinds
  PROVE  DoneClean'
  <1>0. cycle.i \in 1..Len(Capabilities) /\ Len(Capabilities) \in Nat
    BY SeqFacts, IndexFacts
  <1>1. CASE ~cycle'.clean \/ cycle'.pc = "emit"
    BY <1>1 DEF DoneClean, Done, Turns
  <1>2. CASE Still
    BY <1>2 DEF Still, DoneClean, Done, Tidy
  <1>3. CASE Emitted /\ cycle'.pc = "list"
    <2>1. \A j \in 1..Len(Capabilities) : ~Done(j)'
      BY <1>3 DEF Emitted, CycleTo, Done
    <2>2. QED
      BY <2>1 DEF DoneClean
  <1>4. CASE Pushed
    <2>1. /\ cycle.pc = "git" /\ cycle'.trees = cycle.trees /\ cycle'.retain = cycle.retain
          /\ zone' = zone /\ published' = published /\ cycle'.clean = cycle.clean
      BY <1>4 DEF Pushed, CycleTo
    <2>2. QED
      BY <2>1 DEF DoneClean, Done, Tidy
  <1>5. CASE Committed /\ cycle'.clean
    <2>1. /\ cycle.clean /\ cycle.pc = "commit" /\ zone' = zone
          /\ cycle'.trees = cycle.trees /\ cycle'.retain = cycle.retain /\ PublishedWanted
          /\ \/ cycle'.pc = "list" /\ cycle'.i = cycle.i + 1
             \/ cycle'.pc = "git" /\ cycle.i = Len(Capabilities)
      BY <1>5 DEF Committed, CycleTo
    <2>2. zone[Domain].root = Wanted /\ published'[Domain] = Wanted /\ Tidy(Domain, Wanted)
      BY <2>1 DEF Serving, PublishedWanted, TurnClean
    <2>3. ASSUME NEW j \in 1..Len(Capabilities), Done(j)'
          PROVE  /\ zone[Capabilities[j]].root = cycle.trees[Capabilities[j]]
                 /\ published'[Capabilities[j]] = cycle.trees[Capabilities[j]]
                 /\ Tidy(Capabilities[j], cycle.trees[Capabilities[j]])
      <3>1. j <= cycle.i
        BY <1>0, <2>1, <2>3 DEF Done, Turns
      <3>2. CASE j = cycle.i
        BY <2>2, <3>2 DEF Domain, Wanted
      <3>3. CASE j # cycle.i
        <4>1. j < cycle.i /\ Capabilities[j] # Domain /\ Capabilities[j] \in Domains
          BY <1>0, <3>1, <3>3, IndexFacts DEF Domain
        <4>2. QED
          BY <2>1, <4>1 DEF DoneClean, Done, Turns, PublishedWanted
      <3>4. QED
        BY <3>2, <3>3
    <2>4. QED
      BY <2>1, <2>3 DEF DoneClean, Tidy
  <1>6. CASE (Listed \/ Wrote \/ Completed \/ Rooted \/ Deleted \/ PruneEnded) /\ cycle'.clean
    <2>1. /\ cycle.clean /\ cycle.pc \in Turns /\ cycle'.pc \in Turns /\ cycle'.i = cycle.i
          /\ cycle'.trees = cycle.trees /\ cycle'.retain = cycle.retain /\ published' = published
      BY <1>6 DEF Listed, Wrote, Completed, Rooted, Deleted, PruneEnded, CycleTo, Turns
    <2>2. \A d \in Domains : d # Domain => /\ zone'[d].root = zone[d].root
                                           /\ zone'[d].entries = zone[d].entries
      BY <1>6 DEF Listed, Wrote, Completed, Rooted, Deleted, PruneEnded, EntriesBecome,
                  RootReplaced
    <2>3. ASSUME NEW j \in 1..Len(Capabilities), Done(j)'
          PROVE  Done(j) /\ Capabilities[j] # Domain /\ Capabilities[j] \in Domains
      <3>1. j < cycle.i
        BY <2>1, <2>3 DEF Done, Turns
      <3>2. QED
        BY <1>0, <2>1, <3>1, IndexFacts DEF Done, Domain
    <2>4. QED
      BY <2>1, <2>2, <2>3 DEF DoneClean, Tidy
  <1>7. QED
    BY <1>1, <1>2, <1>3, <1>4, <1>5, <1>6 DEF Kinds, Ended, Started, Emitted, Broken, CycleTo

LEMMA HealNext == TypeOK /\ BaseInv /\ HealInv /\ [Next]_dnsVars => HealInv'
  <1> SUFFICES ASSUME TypeOK, BaseInv, HealInv, [Next]_dnsVars PROVE HealInv'
    OBVIOUS
  <1>1. Kinds
    BY StepKinds
  <1>2. EmittedClean' /\ TurnClean' /\ DoneClean'
    BY <1>1, EmittedCleanNext, TurnCleanNext, DoneCleanNext DEF HealInv, BaseInv
  <1>3. PushedClean'
    <2>1. CASE Still
      BY <2>1 DEF Still, HealInv, PushedClean
    <2>2. CASE Pushed
      BY <2>2 DEF Pushed, CycleTo, PushedClean
    <2>3. CASE ~cycle'.clean \/ cycle'.pc # "rest"
      BY <2>3 DEF PushedClean
    <2>4. QED
      BY <1>1, <2>1, <2>2, <2>3 DEF Kinds, Ended, Started, Emitted, Listed, Wrote, Completed,
         Rooted, Deleted, PruneEnded, Committed, Broken, CycleTo
  <1>4. QED
    BY <1>2, <1>3 DEF HealInv

\* A cycle in which nothing failed leaves zone, artifacts and git in step and, once
\* there is a retained generation, nothing in the zone besides it and the new tree,
\* whatever earlier cycles left behind.
THEOREM CleanCyclesHeal == Spec => []CleanCycleHeals
  <1>1. Init => HealInv
    <2> SUFFICES ASSUME Init PROVE HealInv
      OBVIOUS
    <2>1. ~cycle.clean
      BY DEF Init, Rest
    <2>2. QED
      BY <2>1 DEF HealInv, EmittedClean, DoneClean, TurnClean, PushedClean
  <1>2. HealInv => CleanCycleHeals
    <2> SUFFICES ASSUME HealInv, cycle.pc = "rest", cycle.clean, NEW d \in Domains
                 PROVE  LET t == cycle.trees[d] IN
                        /\ zone[d].root = t /\ published[d] = t /\ built[d] = t /\ repo[d] = t
                        /\ cycle.retain[d] # NoTree =>
                             zone[d].entries \subseteq t.entries \cup cycle.retain[d].entries
      BY DEF CleanCycleHeals
    <2>1. PICK j \in 1..Len(Capabilities) : d = Capabilities[j]
      BY IndexFacts
    <2>2. QED
      BY <2>1 DEF HealInv, EmittedClean, DoneClean, PushedClean, Done, Tidy
  <1>3. TypeOK /\ SeqInv /\ [Next]_dnsVars => SeqInv'
    BY SeqNext
  <1>4. QED
    BY <1>1, <1>2, <1>3, TypeCorrect, SeqInit, BaseInit, BaseNext, HealNext, PTL DEF Spec
===============================================================================
