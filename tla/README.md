# enrscout: a TLA+ verification project

enrscout crawls the Ethereum discovery networks, fingerprints the nodes it
finds, publishes snapshots of them to an object store, serves the snapshots over
an HTTP API and publishes the best nodes as signed DNS trees. This directory
models the parts of it where several actors, failures or restarts meet, checks
the models with TLC on small instances and proves some of their properties with
TLAPS for every instance.

`PROJECT.json` lists components, runs, the source lines each definition stands
for, hazards and theorems. This file explains them.

## 1. The system

### Components, state and operations

| Component | State | Operations |
|---|---|---|
| node set (`internal/nodeset`) | rows by node id: record, layer, network, fingerprint state, head; the counter of unclassified candidates | observe, claim, complete, fail, set status and head, penalise, prune, evict, snapshot, ingest |
| fingerprint workers (`cmd/crawler`: `fingerprint.go`, `fingerprintpool.go`, `resolverpool.go`, `loops.go`) | two bounded queues, goroutines with a record in hand | resolve, scan for due rows, claim, enqueue, dial, apply the result; inbound connections apply results of their own |
| expiring maps (`pending_fingerprints.go`) | map with times, heap with lazy deletion | Put, Allow, Take, Drain, compaction |
| dial admission (`fingerprint.go`, `main.go`) | the window of each node, a bounded table of token buckets by address | reserve, ask budget and queue, give back |
| probe server (`internal/probesrv`) | closing flag, active handlers | probe one record on demand; Shutdown |
| lifecycle (`main.go`, `identityruntime.go`) | who is still running, what is closed | start with roll-back, shutdown, final publish |
| publisher (`publisher.go`) | the last manifest it knows, guards' one-shot override | build, admit, upload, conditional manifest write, reconcile, clean up, prune |
| object store (`internal/store`) | objects, versions | Put, Get, PutIfVersion in three implementations, List, Delete |
| query engine (`internal/query`) | served manifest and table | Refresh, queries |
| API (`cmd/api`) | coalescing caches of bodies, keyed or stamped by generation | load, wait, insert, evict |
| DNS publisher (`cmd/dnspublisher`) | zone, built and published artifacts, git repository | select, gate, number, sync entries, root and deletions, commit, push |
| fork schedule, readiness (`internal/netconf`, its SQL mirror in `internal/query`) | schedules, cancellations | fork ids and digests, eras, targets, readiness of a row |
| readiness history (`cmd/crawler/readiness.go`, `internal/snapshot`) | one object per fork; the time of the last point | append, thin, prune, restore |
| rolling distinct counts (`internal/distinct`) | hourly buckets | add, prune, restore |

### How they interact

Discovery readers feed a channel; resolve workers observe records in the node set
and enqueue probes; fingerprint workers dial and write results back; peers that
dial in, the retry loop, the seed loop of a devnet and requests to the probe
server write to the same rows, each under the lock of the node set for one call
at a time. A timer snapshots the rows and publishes them; the only coordination
with other crawlers, with the API and with the DNS publisher is the manifest in
the object store. The DNS publisher and resolvers share nothing but the zone. The
handlers of the API share its caches with one another and the table with the
refresh loop; crawler, API and DNS publisher each derive from the clock and the
fork schedule what is current, and must agree on it.

### What is hard, and what would make each part correct

* **Publishing** — a manifest write is ambiguous when its answer is lost; objects
  are deleted by cleanup and pruning; the clock is a wall clock; crashes anywhere.
  Correct: the committed manifest always has its objects, generations only
  advance, nobody overwrites what it has not seen, guards and overrides work once.
* **Refreshing** — the store moves under a refresh. Correct: the table is one
  committed snapshot, never an older one, and catches up.
* **DNS** — several provider calls make one update, and the record of what was
  served is written last. Correct: every served root resolves, its sequence grows,
  a client with the previous root can finish, a clean cycle heals.
* **Node set and fingerprints** — a probe takes seconds, and its row may change,
  move or vanish meanwhile. Correct: one probe of a row at a time, every claim ends,
  a result is applied to what was probed, counters do not drift, capacity holds.
* **Shutdown** — five groups of goroutines write rows. Correct: none writes behind
  the final publish or uses what is closed, and shutdown ends.
* **Response caches** — a request waits for the query of another whose client may
  leave, while the table is swapped. Correct: nothing older than the table a request
  found, nobody else's cancellation, an answer for every request.
* **Fork schedule** — forks are scheduled, activated, moved and called off, on two
  layers, and the same rule is written in Go and in SQL. Correct: both agree, rows
  change class only at an announced boundary, every kind of node gets its verdict.
* **Readiness history** — a series over months of restarts, releases, clock steps
  and store errors. Correct: one curve, spaced, of one schedule, never losing points.
* **Bounded structures, rounding** — expiring map, table of token buckets, selection
  of a limited tree.

The `hazards` of `PROJECT.json` give each of these at the line where it bites.

## 2. Modules

| Module | Models | Uses |
|---|---|---|
| `SnapshotPublish` | publisher and object store, any number of crawlers | |
| `SnapshotFeed` | abstract: one current snapshot, one shown to readers, both only move forward | |
| `QueryRefresh` | the API's engine against the publishers | EXTENDS `SnapshotPublish`; implements `SnapshotFeed` |
| `DnsPublish` | one network of the DNS publisher, its zone and repository | |
| `TreeSelection` | `pick`, `reserveIPv6`, `balanceClients` | |
| `TtlMap` | abstract: a map of values with times | |
| `ExpiringMap` | `expiringMap` with its heap | implements `TtlMap` |
| `DialAdmission` | the window, budget and queue a dial needs | EXTENDS `ExpiringMap` |
| `ApiCache` | the caches behind `/stats`, `/map` and `/forks` | |
| `ForkSchedule` | schedules, eras, targets, readiness, in Go and in SQL (operators) | |
| `ReadinessHistory` | the stored series of a fork, over releases and restarts | EXTENDS `ForkSchedule` |
| `NodeSet` | the rows of `nodeset.Set`, one action per method | |
| `Fingerprint` | every goroutine that takes a fingerprint | EXTENDS `NodeSet` |
| `Lifecycle` | start and shutdown of the crawler | |
| `MC*` | constants for TLC | |
| `*Proofs` | theorems | |

### SnapshotPublish

`objs` is the bucket of generation objects, `manifest` the manifest, `proc[c]` a
crawler process: its place in `Publish` (`pc`), the manifest it knows (`prev`), the
one it tries to commit (`next`), what `GetVersion` read (`expect`), the one-shot
override (`used`, `pending`) and the objects it is about to delete. An object or a
manifest is told from another by its generation time and a digest number.

The actions follow `Publish`: `Build`, `Admit` or `Quarantine`, `UploadOK` or
`UploadFailed`, `GetVersion`, then the conditional write. The write has four
outcomes in atomic mode (applied, refused, applied or not with the answer lost,
failed) and is a read, a blind put and a read back in verified mode. `Reconcile`
is what follows an error: adopt an own earlier write, recognise a competitor, or
clean up. `CleanupRead` and `CleanupDelete` are separate steps because the code
reads the manifest once and then deletes; so are the steps of pruning. A deletion
that returns an error may have been applied; both go on with the next. `Crash` may
happen between any two steps; `Restart` restores from what is committed.
`LateWrite` is the server applying a request after the client gave up. The flags
`Verified`, `LateWrites` and `ClockStepsBack` choose the environment.

`commits` and `runs` are history: the manifests committed and the starts so far.

### QueryRefresh and SnapshotFeed

`engine` is `Engine`: the manifest a refresh has read, the rows staged for it and
the table served. `RefreshLoad` verifies and loads one network at a time, so that
publishing, pruning and cleanup interleave. `RefreshCommit` is the swap. The
refinement maps the manifest to the feed's `current`, the commits to its
`history` and the served manifest to `shown`.

### DnsPublish

`zone[d]` is what the provider serves for a domain; `built` and `published` are
the two artifacts; `repo` the git repository; `cycle` the cycle in progress:
`Build` selects and gates both trees, then each is emitted, listed, its entries
written, its root, its stale entries deleted, and the artifact committed; git is
pushed last. Every call to the provider has a failing variant, and a failing root
write may have been applied. A restart forgets `cycle` and keeps the rest.
A cycle reads the publisher's own clock once: up to `MaxSnapshotAge` past the time of
the snapshot, and any reading in that range, as the clock may be set. The exemption
from the collapse guard goes by it. `prior` is history, the root served before, and so
are two fields of a tree: the forks that had been active for a cycle when it was built,
and whether it is the safe part, near a cancelled fork, of a full selection that passed.
`DropNeedsFork` judges a drop by these and not by what `Exempt` decided.

### NodeSet and Fingerprint

A row is a record of the fields that decide what happens to it: endpoint,
sequence, layer, network, client, head, and the flags `done`, `inFlight`,
`refreshDue` (`fpRefresh` and its like), `waiting` (a retry is scheduled) and the
number of failures, and `low`, whether it lacks the sightings that a snapshot asks
for; a status of the row's own network may be the one that was missing. What `Ingest`
restores is what `row` wrote (`Written`), without the identity of a consensus row that
carries an execution client's capabilities. Times are abstracted to whether they have passed: a step
`RetryDue` lets a scheduled retry come due. Endpoints, networks and clients are
model values; a record is a node's sequence, endpoint, layer and fork.

`Fingerprint` adds `flow[s]`, what a goroutine (or a queued task) has in hand: the
record it read, the claim it holds, the result it is applying. One step is one
critical section of the node set's lock, so that anything may come between the
claim and the dial, the dial and the result, the membership and the identity, the
status and the head. `Slots` bounds how many are at it together. `proof` in a row
is history: the endpoint the row had at the claim.

### ExpiringMap and TtlMap

`entries` is the map, `expiry` the heap as the set of its items; `clock` the time,
and every call passes a reading that is up to `Lag` old, because callers read the
clock before they take the lock. Pruning pops items that passed; an item whose
entry was replaced is skipped; when the heap exceeds twice the map it is rebuilt.

### DialAdmission

A worker that sights a node without a usable record holds a call: the reading of
the clock it took, the node and the sequence number of its reservation. `Sight`
reserves through `Allow` of the expiring map; the budget of the address, then the
queue, are asked in steps of their own, and a refusal gives the window back through
`Take`. `budget` is the table of limiters, a bucket and the time it was last asked;
a full table drops the entries that nobody asked about for its ttl and otherwise
refuses. Dials of claimed fingerprints (`ClaimedDial`) spend the same budget. With
`use = "any"` the same module explores the calls of the other expiring maps in any
order, for the refinement. `spent` and `used` are history: reservations that led to
a dial, and for each address a bucket that is
never dropped from the table, in half units because every dial may gain half a lag.

### ApiCache

`gen` is the generation of the served table, which `Refreshed` swaps at any time.
`req[r]` is a request: its place, the key it computed, the request it waits on, the
result in hand, whether its client is still there. `items` and `pending` are the
four instances of `lru`, `entry` the single entry of `mapCache`. `loadStats` is the
loop over two caches that must agree on a generation, `/forks` a load with another
load (the history) inside. The aggregate and the map are computed on contexts
detached from their request, the breakdown and `/forks` are not; hence which loads
can be cancelled. The parts of a key that are equal for all requests of an instance
are left out: what is left is the generation.

### ForkSchedule and ReadinessHistory

An EIP-2124 hash is the set of fork times it sums up and a fork digest the version
and blob parameters it is computed from: equal exactly if the code's checksums are,
collisions aside. `Load` is `load` with `applyCancellations`: the canonical schedule
of both layers, and for each cancelled fork the ids on either side of it and those
of a node that still runs it. Eras, current rows, `ForkTargetAt`, `ReadinessAt`, its
SQL mirror and the lifetimes of `/forks` are operators of it and of an instant. Rows
are evidence: layer, hash or digest, announced next fork. The properties quantify
over all the evidence that nodes on the old, the canonical and the cancelled
schedule can show at every instant, and over block-number hints. Schedules are
looked up by place: `forkAt` and `blobAt` are the last entry up to an epoch, the next
transition the first after it. `WellFormed` says what the schedules of `compiledCL`
are like, and what cancellations leave of them; an epoch `Far` stands for
`math.MaxUint64`, a fork without a date. Of two forks of a layer that are called off
at one instant the first of the list is tracked while they are ahead and the last once
they are past (`Picked`); the list is kept in order of time by `slices.SortFunc`, which
leaves equal elements of a list as short as this one in their order.

The WHERE clauses are conditions of three values: a comparison with a column that is
NULL is NULL, and a row is selected where the whole is true. `nulls` says which of the
columns that a row lacks are NULL rather than empty; a column that the code coalesces
is compared as Go sees it, the others (`fork_hash` in the current clause and in
`onPre`, both columns of `matched`) by `SqlEquals`. So a `coalesce` that is missing
shows as a row that is neither in a clause nor in its complement.

`ReadinessHistory` runs the clock over a sequence of releases. `Record` is
`recordReadiness`: the target, the interval by memory and by the stored object,
`Append` with its retention, the write with its failures; `HistoryFor` is what the
API reads, thinned: the dense window, every n-th of the regular points, the newest
(`KeptPlaces`). A point is the time it was taken and the schedule it measured.

### TreeSelection

A state machine over the phases of `pick`: reserve, then either take the ranked
rest or share (floors and whole shares), hand out remainders one by one, and fill.
Candidates are a client and an address family. Clients are numbered in the order
of their names. Shares are exact fractions; equal remainders are handed out in any
order, since the floating-point remainders of the code may order them either way.
The branch of the remainder loop for a client that is full is in the model (the
loop passes over it), `allFull` as the end of the loop. The sums of the code over the
clients (`free`, `used`) are numbers of seats, pairs of a client and a number up to
what it is given.

### Lifecycle

`main` is where `run` or `shutdown` is, `at[g]` where each goroutine is, `closed`
the set of things closed or cancelled, `built` the identities whose sockets are
open, `serves` the inbound handlers. What goroutines write is a `Write`, which is
late when the final publish has read the rows. `probesrv`'s lock is explicit: a
handler between reading `closing` and `active.Add` is `entering`, and `Shutdown`
cannot set `closing` meanwhile. `fingerprintPool`'s lock makes check and send one
step. The periodic publish is its fatal outcome only, and the first pass over the
seeds of a devnet, which `run` makes before the loops exist, is left out.

## 3. Runs

| Run | Checks | Shows |
|---|---|---|
| `publish_single` | `ManifestBacked`, `ForcedOnce` | one crawler on a store in verified mode, two networks, `Keep = 1`, gutted crawls, forced publishes, a fork, crashes, ambiguous writes |
| `publish_two` | `GenerationsAdvance`, `NoLostCommit` | two crawlers on a compare-and-swap, the clock stepping back, requests applied late |
| `refresh` | `TablesMatchServed`, `ImplementsFeed`, `CatchesUp` | the API against a crawler on a store in verified mode that prunes, crashes and has its clock set back |
| `dns_both` | `RootResolvable`, `BaselineServed`, `RetainedWalk`, `CleanCycleHeals`, `SequenceIncreases`, `DropNeedsFork` | both trees of a network, two cycles, two faults anywhere, a fork, a publisher's clock ahead of the snapshot |
| `select` | `FillsTree`, `EveryClientCarried`, `SharesWithinOne` | every list of candidates up to the bound |
| `dial` | `OnlyDialsSpend`, `BudgetHonoured`, `ImplementsTtlMap` | two workers on two nodes, a window, a table of limiters and a queue that are full, clock readings applied late |
| `fp_claims` | `ClaimHasOneOwner`, `VerifiedSinceClaim`, `CandidatesExact`, `HeadMatches`, `IdentityOfLayer` | any two goroutines on one node that moves and changes layer, nothing evicted |
| `fp_live` | `ProbesReturn`, `ShutsDown` | two nodes, a table of one, evictions, shutdowns and crashes: every claim ends |
| `stop_safe` | `NoLateWrite`, `IdentitiesOutliveUsers`, `NothingLeft` | an execution and a consensus identity, starts that fail, signals and lost manifests at any time |
| `stop_live` | `Stops` | a consensus identity: every wait of shutdown ends |
| `api` | `ResponseFresh`, `BreakdownKept`, `NoInheritedCancel`, `Answered` | requests that wait for one another's queries, disconnects, failed queries and refreshes in any order |
| `forks` | `SqlMirrorsGo`, `EraExplains`, `VerdictSound`, `SeriesContinues`, `OneCurve`, `PointsKept` | every schedule with a blob-parameter fork and a named fork on one or both layers, each of them moved, called off, called off early or with another at its instant; rows with and without NULL columns; the recorded series of a few of them over restarts, clock steps and store errors |

Every property of a passing run has a mutant in `PROJECT.json`: a plausible bug in
one definition under which TLC finds the property violated.

### What the models show about the code's limits

Behaviours met while modelling that a reader of the code may not expect. None
contradicts a checked property; they say where its conditions come from.

* A legacy probe that ends after a signed record without a fork entry was stored
  leaves a verified row without a network, which no loop retries
  (`fingerprint.go:63`). A request to the probe server for a record whose fork is
  not recognised does the same.
* `/forks` computes its body on the context of the request that loads it. When its
  client leaves during the load of the history, the body is built without a history
  and cached for the others of that minute. The mapping of bodies to generations is
  not affected; `full` of a `/forks` body is therefore claimed by no property.
* The lifetime of a `/forks` answer ends at the next boundary of the schedule, and
  for an activated fork at the end of its grace; for a cancelled fork the end of the
  grace does not shorten it. `EraExplains` claims it for activated forks only.
* On the consensus layer, a cancelled blob-parameter fork that is not in the compiled
  schedule and is followed by a later named fork: a node still running it shows, from
  that fork on, a digest that belongs to no list. `VerdictSound` follows such a node
  up to the next fork of the schedule.
* A cancelled fork and a real one at the same instant: the tracked name changes from
  one to the other at the activation. `SeriesContinues` is about one fork.
* Two cancelled forks of one layer at the same instant: the tracked name changes from
  the first to the last of the list at that instant, and the first may not be the one
  that named the upgrade while it was scheduled, so its series may not continue
  (`NoTie` in `SeriesContinues`). A consensus node whose ENR announces the one that is
  not tracked is not told from one that announces none (`VerdictSound` is about the
  one that is tracked).
* A worker whose reservation was evicted by capacity and taken by another worker
  gives back that worker's reservation when it is refused, so a node may be dialled
  twice in a window. `OnlyDialsSpend` says that no window is lost, not this.
* `BudgetHonoured` rests on the table's ttl (one hour, `cmd/crawler/main.go:367`) being
  no less than the time a bucket takes to fill, `burst / rate`, plus the lag: so it is
  with the defaults. Flags with a slower rate would let an entry be dropped before its
  bucket is full and come back with more.

Other properties hold under a condition that the model makes explicit. Each of the
following was a counterexample of TLC before the condition was added, and is one
again under the constants named.

* `ManifestBacked` needs writes that are not applied late and a clock that is not
  set back (`LateWrites`, `ClockStepsBack`; the hypotheses of its theorem). A put
  applied after the crawler saw it fail, and after `cleanupOrphanGenerations` read
  the manifest, commits a manifest without objects. With the clock behind the last
  manifest, `generationTime` gives an attempt after an unrecognised commit the
  same time again, and its upload overwrites the committed objects; this is the
  excuse in `CatchesUp`.
* The shrink guard compares with `p.prev`. After an ambiguous commit that is not
  the manifest being replaced: two accepted halvings can make a quarter that
  nobody forced. No property claims more than the guard does.
* `RetainedWalk` is about the tree the `.published` artifact names. When the answer
  to the root write is lost, or the artifact is not written, the root served last
  is another tree, and the next cycle deletes its entries. `DropNeedsFork` has the
  same condition.
* `VerifiedSinceClaim` is checked where no row is evicted (`fp_claims`). A row
  evicted during its probe and learnt again elsewhere is verified by the old probe,
  because a claim is known by the flags of the row alone. It says that the row had
  its endpoint at the claim, not that this endpoint was dialled: the retry loop
  dials the record it scanned, which may have been replaced before the claim.
* Verified mode may regress generations with two writers ("callers must run exactly
  one writer per prefix"), and pruning with two crawlers and a small
  `--keep-generations` may delete the other's generation. `refresh` runs one
  crawler, `publish_two` keeps every generation.

### Bounds and why they are enough

* Two crawlers: every race of the store is between one writer and the rest. Three
  or four clock values and two or three starts allow a commit, an ambiguous attempt
  and one more after a restart, which is what the counterexamples above need. One
  network suffices where properties compare manifests; two where objects are
  deleted or loaded one by one.
* DNS: two cycles publish a tree and replace it, with what another tool left in the
  zone to delete; two faults allow one in the middle and one in the repair; three
  snapshot times put a fork between the cycles, and an age of one interval puts the
  publisher's clock past it while the snapshot is not. The theorems have no bound.
* Dial admission: two nodes in a map of one evict; three sequence numbers compact a
  heap of twice one; a lag of one tick reorders any two calls. A bucket of one token
  that takes two ticks, a table of one limiter kept for three, and six ticks let an
  entry be dropped, come back full and be spent, under two workers and one other
  dial. Symmetry of nodes and of workers; the view leaves out `granted`, which only
  `GrantsSpaced` reads. That, and types and heap, are proved without bounds.
* API: three requests are a loader, a waiter and one that comes when either is done
  (two for `/stats`, whose requests pass two caches); a capacity of one evicts;
  two refreshes exhaust the two attempts of `loadStats`; one failed query.
* Fork schedule: one compiled fork of each kind on either layer, at different or
  equal instants, with lists of up to two cancelled forks in either order, at
  different or equal instants, 625 initial states, each looked at over ten instants. Grace 4 makes grace periods
  overlap and end. Histories are followed for the networks where the fork of both
  layers is moved or called off, alone or with another, or a BPO before it is; interval 2, dense 1, retention
  4 and one regular point make every branch of append, prune and thin happen; one
  fault at a time.
* Node set: `MaxAttempts` two distinguishes none, some and the limit. Records are an
  unsigned one, an execution and a newer consensus record at another endpoint;
  callers force a network on them. Rows interact only through capacity and the
  counter; eviction is in `fp_live` and, for any number of rows, in the proofs.
* Fingerprint: two slots are every pair of goroutines. `fp_claims` has every kind
  of record on one node, `fp_live` a moving record on two nodes and no probe server.
* Selection: seven candidates of three clients reach two remainders to hand out
  and a client with more than one candidate left; four with three families reach
  reservation by port and by share.
* Lifecycle: one goroutine of each kind: they interact through channels, locks
  and waits, never among their own kind; capacities of one fill and empty.

Symmetry is used for networks, ids, workers and slots in runs without liveness
properties. Deadlock is checked in the fingerprint runs, which can always go on. It
is off where behaviours end: bounded cycles or clocks, answered requests, a selection
that is done, a crawler that has stopped.

### Fairness

* `refresh`: the ticker of `refreshLoop` fires for ever, so a refresh is
  started and completed (weak fairness); publishers and faults need not happen.
* `fp_live`: a goroutine goes on (weak fairness of each slot), because the runtime
  schedules it and every dial has a deadline; after cancellation `Close` comes.
  Nothing is assumed of discovery, peers or retries.
* `api`: each request that has arrived goes on (weak fairness of its steps): handlers
  are goroutines, and every query ends, by itself, by the departure of its client or
  by its 30 seconds. Nothing is assumed of clients and refreshes.
* `stop_live`: goroutines, dials and handshakes go on (weak fairness). A `select`
  between a timer and a context that is done chooses at random, hence strong
  fairness of the loops' exits; a waiting writer of a Go `RWMutex` holds off new
  readers, hence strong fairness of setting `closing`; the channel of a closed
  subscription is finite, hence strong fairness of the accept loop's exit.

## 4. Proofs

TLAPS proves the following for all values of the constants that satisfy the
`ASSUME`s of the modules. The bounds of TLC (`MaxClock`, `MaxRuns`, `MaxFaults`,
`MaxGen`, ...) are such constants, so the theorems hold whatever the bounds are.

| Module | Theorem | Statement | Condition | Inductive invariant |
|---|---|---|---|---|
| `SnapshotPublishProofs` | `TypeCorrect` | `[]TypeOK` | | `TypeOK`, `RunningOK` |
| | `GenerationsOnlyAdvance`, `NoCommitLost` | `GenerationsAdvance`, `NoLostCommit` | `~Verified` | with `LateOK` |
| | `ManifestStaysBacked` | `[]ManifestBacked` | no late writes, no clock steps; no pruning or one crawler | `BackInv` |
| | `OverrideUsedOnce` | `[]ForcedOnce` | | `ForceInv` |
| | `ServedTableIsOneGeneration` | `ReadSpec => []TablesMatchServed` | | `TablesInv` |
| | `EngineImplementsFeed` | `ReadSpec => ImplementsFeed` | `~Verified` | `FeedInv` |
| `DnsPublishProofs` | `TypeCorrect` | `[]TypeOK` | | `TypeOK` |
| | `RootAlwaysResolvable` | `[]RootResolvable` | | `ResolveInv` |
| | `SequencesIncrease` | `SequenceIncreases` | | `SeqInv` |
| | `BaselineWasServed`, `DropsNeedFork` | `[]BaselineServed`, `DropNeedsFork` | | `BaseInv`, `SeqInv` |
| | `RetainedStaysWhole` | `[]RetainedWalk` | | `WalkInv`, `BaseInv`, `ResolveInv` |
| | `CleanCyclesHeal` | `[]CleanCycleHeals` | | `HealInv` |
| `DialAdmissionProofs` | `TypeCorrect`, `EveryEntryExpires` | `Spec => []MapTypeOK`, `[]HeapCovers` | | `MapInv` |
| | `GrantsAreSpaced` | `Spec => GrantsSpaced` | | `MapInv`, `GrantInv` |
| | `MapImplementsTtlMap` | `Spec => ImplementsTtlMap` | | `MapInv` |
| | `DialsUseMap` | `DialSpec => Spec /\ ImplementsTtlMap` | | `MapInv`, `CallsInv` |
| | `WindowsSpentByDials` | `DialSpec => []OnlyDialsSpend` | | `MapInv`, `CallsInv`, `WindowInv` |
| | `BudgetIsHonoured` | `DialSpec => []BudgetHonoured` | | `MapInv`, `CallsInv`, `BudgetInv` |
| `FingerprintProofs` | `TypeCorrect` | `SetSpec => []SetTypeOK` | | `SetInv` |
| | `CandidatesCounted`, `HeadsMatch`, `IdentitiesMatchLayer` | `[]CandidatesExact`, `[]HeadMatches`, `[]IdentityOfLayer` | | `SetInv` |
| | `FlowImplementsSet`, `CrawlerKeepsTable` | `FpSpec => SetSpec`, so the above hold under `FpSpec` | | `FpInv` |
| | `ClaimsNeverLost` | `[]Owned` | | `FpInv`, `Owned` |
| | `ClaimsOwned`, `IdentityOfEndpoint` | `[]ClaimHasOneOwner`, `[]VerifiedSinceClaim` | `NoRemovals` | `ClaimInv` |
| `LifecycleProofs` | `ShutdownInOrder` | `[]IInv` | | `IInv` |
| | `NoWriteAfterFinalRead`, `SocketsOpenInUse`, `RunLeavesNothing` | `[]NoLateWrite`, `[]IdentitiesOutliveUsers`, `[]NothingLeft` | | `IInv` |
| `ApiCacheProofs` | `ResponsesFresh`, `BreakdownLostOnlyToRefreshes`, `CancellationsStay` | `[]ResponseFresh`, `[]BreakdownKept`, `[]NoInheritedCancel` | | `ApiInv` |
| `ReadinessHistoryProofs` | `SeriesIsOneCurve`, `PointsGoByAge` | `[]OneCurve`, `PointsKept` | | `HistoryInv` |
| | `SqlAgreesWithGo`, `ErasExplain` | `[]SqlMirrorsGo`, `[]EraExplains` | | `NetInv` |
| | `ELNodesJudged` | `[]ELVerdictSound`, the execution half of `VerdictSound` | | `NetInv` |
| | `SeriesOutlivesActivation` | `[]AcrossActivation`, the first part of `SeriesContinues` | | `NetInv` |
| `TreeSelectionProofs` | `TreeIsFull`, `NobodyLeftOut`, `SharesAreFair` | `SelSpec => []FillsTree`, `[]EveryClientCarried`, `[]SharesWithinOne` | | `SelInv` |

`TypeOK`, `MapTypeOK`, `SetTypeOK`, `HeapCovers`, `GrantsSpaced` and `Owned` are proved
and not repeated in a run.

### Why the invariants are what they are

*Publishing.* `LateOK` and `RunningOK`: an attempt's generation is later than its
`prev`, what it expects is no later, and a conditional write that is delayed keeps
both. `ManifestBacked` is not inductive: a commit makes a manifest current whose
objects were uploaded several steps before, and meanwhile this crawler's cleanup of
an earlier attempt and pruning delete objects. `BackInv` adds that generation times
in the store belong to the crawler and run that made them (`OwnGeneration`,
`StoreOK`), that an attempt past its upload has its objects stored (`AttemptOK`) and
that the objects marked for deletion are neither the manifest's nor an attempt's
(`DoomedOK`). Each of the three conditions excludes one of the counterexamples of
section 3. The theorem covers the verified mode with any number of crawlers too.
`ForcedOnce` compares manifests of the same run, and a write that is delayed may still
become one; `ForceInv` is about both (`Issued`). Runs are numbered without repetition
(`RunsOK`), an attempt is of its run and forced only by an unused override
(`AttemptsOK`), a process that has issued a forced manifest cannot force another: the
override is used or pending, the outcome is being learned or the process is to stop
(`AllSpent`); and of one run only one is forced (`IssuedOnce`).

*Refreshing.* The table is replaced in one step from what was staged over several, so
`TablesInv` says of the staged objects that they are those of the manifest being read
(`StagedOK`): digests are checked on loading, and later deletions do not matter. For
the refinement the manifest read must also be one that was committed and newer than
the served one (`Recorded`, `ReadOK`). That the feed only moves forward is
`GenerationsOnlyAdvance`, hence the condition.

*DNS.* The actions are first classified by what they do to the state (`Kinds`:
a cycle starts, a domain is listed, written, its root replaced, pruned, committed,
and steps that leave these alone); each invariant is then preserved kind by kind. For
`RootResolvable` the zone holds the entries of the root about to be written, and what
is to be deleted is in neither root (`ResolveInv`); for sequences, a tree in a cycle
is numbered past the artifacts and the zone (`SeqInv`). `BaselineServed` fails by
itself at the commit of an artifact: `Serving` says that the zone serves the tree by
then, and `Gated` that a tree on its way was compared with the baseline that still
stands, or has an explanation (`GateExplains`). `RetainedWalk` needs that the tree of the artifact is whole while it is
served before (`PublishedWalk`) and that pruning spares it (`SparesRetained`).
`HealInv` follows a cycle in which nothing failed through its phases: what is emitted,
which domains are done, how far the present one is, and the push.

*Expiring map and dials.* `MapInv`: every entry has its item, items have distinct
sequence numbers below the counter, the heap holds at most twice the map; `GrantInv`:
a standing grant has an entry at its time, or a window has passed. A step of the
workers is a step of the map or leaves it (`DialsUseMap`), with the readings of
`CallsInv` within the lag, so that these carry over. `WindowInv` says who answers for
an entry: a spent reservation, or a worker between reservation and decision whose
call names its sequence number. `BudgetInv` relates the limiter in the table
to `used`, the bucket that is never dropped. The limiter keeps the reading it was last
spent with and forgets when that was; `Behind` supplies it as an existential, the time
`c` of the call. With it the argument is one inequality, which a tick, a late reading
and a dial preserve, the last because half the lag a dial may gain is part of `used`.
An address without an entry has `used = 0`, which is where the ttl of the table
matters: an entry may go only when its bucket is full again (`BudgetAssumption`).

*Node set and fingerprints.* `SetInv`: every row is good (its head of its own network
and layer, a verified identity of its layer), the counter is exact, the table within
its capacity. The first part of `FingerprintProofs` is about `SetSpec`, where any
caller may call any method at any time with any claim. The second shows that the
goroutines are such callers, then classifies their steps (a slot claims, ends its claim, the process
restarts, or neither). `ClaimInv` has: a row is verified only with the proof of its
own endpoint (`RowsProven`), a claim has at most one holder whose row is in flight
(`Owners`), a row in flight has a holder (`Owned`), the record of a probe request is in
the table (`Requested`). `Owned` holds without the rest: no claim is lost. The others
need `NoRemovals` (no row is pruned or penalised, and the table has room for all ids). With eviction they are
false, as section 3 says.

*Lifecycle.* `IInv` states for each wait of `shutdown` what has stopped by then and
stays stopped: readers, resolvers, loops, pool (`PoolsInOrder`), their channels empty
(`ChannelsEmptied`), handlers that `Shutdown` counts (`HandlersCounted`), identities
closed newest first with nobody on them (`IdentitiesInOrder`), the rows read last
(`RowsReadLast`); and where each kind of goroutine can be (`PlacesOK`). The three
properties are consequences at three places of it. The assumptions: a goroutine has
one role, no identity is listed twice, there is a worker and a prober.

*API caches.* `CachesFresh`: a cached body is not older than its key and not newer
than the table; `RequestsSound`: the same for what a request has in hand, with the
number of refreshes its attempts have seen, and an error that is a cancellation is
the request's own; `MapLoads`: the load somebody waits for on the map was begun for
a generation that is new enough.

*Readiness history.* `HistoryInv`: the points of every object are of its schedule,
strictly in order, apart by the interval of their time, and within the retention of the
last. What the schedule operators compute is not used, so the two theorems hold for any
target. That thinning leaves at most `MaxPoints` regular points is an injection from
the kept places to `0..(MaxPoints - 1)`: they are a step apart (`EveryStepth`).

*Fork schedule.* The rules are of the loaded network alone, so the invariant is only
that `net` is the `Load` of some release (`NetInv`); the work is in the lemmas about
an arbitrary network that is well formed. On the execution side a hash is determined
by, and determines, the fork times up to an instant (`ForkIdFacts`, `SameHash`), from
which the verdicts follow phase by phase. On the consensus side a digest holds between
two epochs of the schedule and changes at each (`DigestHolds`, `DigestChanges`: a fork
has a version of its own, a blob entry an epoch of its own), and what a node announces
as its next epoch is the next of the schedule (`NextEpochFacts`). So nothing changes
where no transition lies (`Quiet`), and an era lasts up to the next one. That a tracked
fork stays tracked goes layer by layer (`ELStays`, `CLStays`; `ELThrough`, `CLThrough`
over the instant of activation) and then by the cases of an upgrade: one layer, both
at one instant, or two layers of which one counts (`UpgradeStays`, `UpgradeThrough`).
`LoadAssumption` is what this rests on: every loaded network is `WellFormed`, and its
times are numbers. TLC evaluates it on all networks of the `forks` run. `compiledCL`
gives it for the built-in networks: forks in order from genesis with distinct
versions, Fulu one of them, the blob entry of Electra before it. A devnet's schedules
are sorted by `RegisterDevnet`, but nothing makes its versions distinct or its first
fork the genesis; the theorems say nothing of a devnet where they are not.

*Tree selection.* `SelInv` says how far the loop over the remainders is: the first `k`
of the clients by remainder have a slot more than floor and whole share (`Handed`), and
each of them had a remainder. Sums are cardinalities of seats, so that they add, scale
and compare by bijections rather than by induction over the clients. The core is
`Exhausted`: once nobody with a remainder waits, the slots handed out, times `Free`,
are at least `Remaining` times the free candidates, so no slot is left. Hence the loop
never comes round to a client twice (`SharesWithinOne`), never stops early
(`FillsTree`). Floors are given in the order of `Larger`, a strict order, so that the first
`Room` of them are as many as they should be (`EveryClientCarried`).

### Only model-checked

* Liveness (`CatchesUp`, `ProbesReturn`, `ShutsDown`, `Stops`, `Answered`), which needs
  fairness and `ENABLED`.
* `CLVerdictSound`, the consensus half of `VerdictSound`. It is about the shadow of a
  cancelled fork, the schedule that a node which still runs it follows: a fold over the
  operator's list, and so induction over data. On forks that share an epoch the verdict
  also needs that the first, which a node announces, and the last, which is tracked,
  agree, as they do on the networks there are.
* `AcrossCancellation`, the second part of `SeriesContinues`. It compares the networks
  of two releases, that is, two folds over two lists.

## 5. Not modelled

Wire protocols, discovery itself, SQL other than the clauses for current rows and
readiness, geo data, HTTP parsing, flags, metrics, clients' names and the web
interface: I/O or tables without a protocol; where their outcome matters the models
choose it freely. Encodings are abstracted to digests.
In the node set: geo fields, the order in which due rows are scanned (any row may
come first), the second sighting an unverified row needs to be published; a restart
restores the rows of the latest publish. `--max-legacy-candidates 0` and the
forced-devnet fallback are left out (what the fallback does to a row, a sighting, then
status and head, is what the seed flow does), and so is a budget of rate 0, which refuses
nobody. Of the fork schedule: announcements and notices, client releases, and devnet
schedules, which are read once at the start; downloading and parsing the operator's
file. `rankCandidates`, which scores and sorts rows, is the input of `TreeSelection`.
Rolling distinct counts are hourly sketches whose estimate is floating-point
statistics; their buckets have one owner and no protocol but restore at the start.

## 6. Plan

Done: publishing, refreshing and DNS, the node set with its goroutines, the expiring
map and dial admission, tree selection, lifecycle, the API's caches, the fork schedule
and the readiness history; proofs for all of them.

Next: `rankCandidates` in `TreeSelection`; the buckets of the rolling distinct counts;
devnet schedules, with what `RegisterDevnet` does not check.
