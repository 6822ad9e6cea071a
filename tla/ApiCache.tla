------------------------------- MODULE ApiCache -------------------------------
(***************************************************************************)
(* The API's response caches (cmd/api): the coalescing least-recently-used *)
(* caches behind /stats and /forks (lru.load, loadStats), and the          *)
(* generation-stamped cache behind /map (mapCache.load).  Requests arrive, *)
(* wait for one another's queries, lose their clients and fail, while the  *)
(* refresh loop swaps new tables in.                                       *)
(*                                                                         *)
(* A body is abstracted to the generation of the table it was computed     *)
(* from and to whether it is complete (a version breakdown for /stats, a   *)
(* readiness history for /forks).  Network, membership, fork era and       *)
(* minute are the same for every request of an instance: what is left of a *)
(* key is the generation read before the load.                             *)
(***************************************************************************)
EXTENDS Integers, Sequences, FiniteSets, SequencesExt

CONSTANTS
  Requests,        \* HTTP requests, numbered in the order they arrive
  None,            \* no request
  Workloads,       \* which endpoint each request asks for, or "absent"
  Capacity,        \* entries of an lru
  StableAttempts,  \* stableGenerationAttempts
  MaxGen,          \* bound: generations swapped in
  MaxFaults        \* bound: queries that fail or exceed their 30 seconds

ASSUME ApiAssumption ==
  /\ Requests \subseteq Nat /\ None \notin Requests
  /\ Workloads \subseteq
       [Requests -> {"totals", "stats", "map", "forks", "absent"}]
  /\ Capacity \in Nat \ {0} /\ StableAttempts \in Nat \ {0}
  /\ MaxGen \in Nat /\ MaxFaults \in Nat

VARIABLES
  gen,      \* State().LastRefresh: the generation of the served table
  items,    \* items[c]: entries of lru c, the most recently used first
  pending,  \* pending[c]: keys being loaded and the requests loading them
  entry,    \* the request whose load the mapCache entry holds
  req,      \* the requests
  faults    \* queries failed so far

apiVars == <<gen, items, pending, entry, req, faults>>

\* aggregates and versions serve /stats, forks and histories serve /forks.
LruCaches == {"aggregates", "versions", "forks", "histories"}

Body(g, full) == [gen |-> g, full |-> full]

NoBody == Body(-1, FALSE)

NewRequest(kind) ==
  [pc |-> "new", kind |-> kind, up |-> TRUE, seen |-> 0, cache |-> "none",
   key |-> -1, on |-> None, err |-> "none", val |-> NoBody, part |-> NoBody,
   tries |-> 0]

ApiInit ==
  /\ gen = 0
  /\ items = [c \in LruCaches |-> <<>>]
  /\ pending = [c \in LruCaches |-> {}]
  /\ entry = None
  /\ \E w \in Workloads : req = [r \in Requests |-> NewRequest(w[r])]
  /\ faults = 0

-----------------------------------------------------------------------------
(* What a request does when a load returns *)

Answer(q, err, val) ==
  [q EXCEPT !.pc = "done", !.err = err, !.val = val, !.on = None,
            !.part = NoBody, !.tries = 0]

\* loadStats once both halves are there: paired when they ran against one
\* generation, tried again, or served without the breakdown.
AfterVersions(q, val) ==
  CASE val.gen = q.part.gen -> Answer(q, "none", Body(q.part.gen, TRUE))
    [] val.gen # q.part.gen /\ q.tries + 1 >= StableAttempts ->
         Answer(q, "none", Body(q.part.gen, FALSE))
    [] OTHER -> [q EXCEPT !.pc = "state", !.tries = @ + 1, !.on = None,
                            !.part = NoBody, !.val = NoBody]

\* A failed aggregate or breakdown is the request's error; a failed history is
\* logged and the body is built without it.
Returned(q, err, val) ==
  CASE q.cache = "histories" ->
         [q EXCEPT !.pc = "insert", !.cache = "forks", !.on = None,
                   !.err = "none", !.val = Body(q.part.gen, err = "none")]
    [] q.cache # "histories" /\ err # "none" -> Answer(q, err, NoBody)
    [] q.cache = "aggregates" /\ q.kind = "stats" /\ err = "none" ->
         [q EXCEPT !.pc = "enter", !.cache = "versions", !.part = val,
                   !.val = NoBody, !.on = None]
    [] q.cache = "versions" /\ err = "none" -> AfterVersions(q, val)
    [] OTHER -> Answer(q, "none", val)

-----------------------------------------------------------------------------
(* Arrival, and the generation that becomes part of the key *)

FirstCache(kind) ==
  CASE kind \in {"totals", "stats"} -> "aggregates"
    [] kind = "map" -> "map"
    [] OTHER -> "forks"

Keyed(q) == [q EXCEPT !.pc = "enter", !.key = gen, !.cache = FirstCache(q.kind)]

\* A handler starts and reads State() for its key.
Arrive(r) ==
  /\ req[r].pc = "new" /\ req[r].kind # "absent"
  /\ \A x \in Requests : x < r => req[x].pc # "new"
  /\ req' = [req EXCEPT ![r] = Keyed([@ EXCEPT !.seen = gen])]
  /\ UNCHANGED <<gen, items, pending, entry, faults>>

\* Mutant: the generation is read once, before the loop of loadStats.
RetryOldKey(r) ==
  /\ req[r].pc = "state"
  /\ req' = [req EXCEPT ![r].pc = "enter", ![r].cache = "aggregates"]
  /\ UNCHANGED <<gen, items, pending, entry, faults>>

\* Another attempt of loadStats reads it again.
Retry(r) ==
  /\ req[r].pc = "state"
  /\ req' = [req EXCEPT ![r] = Keyed(@)]
  /\ UNCHANGED <<gen, items, pending, entry, faults>>

-----------------------------------------------------------------------------
(* lru.load *)

\* The history's key names the fork and the interval, not the generation.
LoadKey(q) == IF q.cache = "histories" THEN 0 ELSE q.key

Cached(c, k) == {i \in DOMAIN items[c] : items[c][i].key = k}

LoadersOf(c, k) == {p.by : p \in {x \in pending[c] : x.key = k}}

AtLru(r) == req[r].pc = "enter" /\ req[r].cache \in LruCaches

LruHit(r) ==
  LET c == req[r].cache IN
  /\ AtLru(r)
  /\ \E i \in Cached(c, LoadKey(req[r])) :
       /\ items' = [items EXCEPT ![c] = <<@[i]>> \o RemoveAt(@, i)]
       /\ req' = [req EXCEPT ![r] = Returned(@, "none", items[c][i].val)]
  /\ UNCHANGED <<gen, pending, entry, faults>>

LruWait(r) ==
  LET c == req[r].cache
      k == LoadKey(req[r]) IN
  /\ AtLru(r)
  /\ Cached(c, k) = {}
  /\ \E by \in LoadersOf(c, k) :
       req' = [req EXCEPT ![r].pc = "wait", ![r].on = by]
  /\ UNCHANGED <<gen, items, pending, entry, faults>>

LruMiss(r) ==
  LET c == req[r].cache
      k == LoadKey(req[r]) IN
  /\ AtLru(r)
  /\ Cached(c, k) = {}
  /\ LoadersOf(c, k) = {}
  /\ pending' = [pending EXCEPT ![c] = @ \cup {[key |-> k, by |-> r]}]
  /\ req' = [req EXCEPT ![r].pc = "query"]
  /\ UNCHANGED <<gen, items, entry, faults>>

\* Loads bound to the request's context end when its client leaves; the
\* aggregate and the map run on detached contexts of 30 seconds.
Detached(c) == c \in {"aggregates", "map"}

\* The loader: one query under publishMu, so of one table.
QueryDone(r) ==
  /\ req[r].pc = "query"
  /\ req' = [req EXCEPT ![r] =
       IF @.cache = "forks"
       THEN [@ EXCEPT !.pc = "enter", !.cache = "histories",
                      !.part = Body(gen, TRUE)]
       ELSE [@ EXCEPT !.pc = "insert", !.err = "none", !.val = Body(gen, TRUE)]]
  /\ UNCHANGED <<gen, items, pending, entry, faults>>

QueryCancelled(r) ==
  /\ req[r].pc = "query" /\ ~req[r].up /\ ~Detached(req[r].cache)
  /\ req' = [req EXCEPT ![r].pc = "insert", ![r].err = "cancelled"]
  /\ UNCHANGED <<gen, items, pending, entry, faults>>

QueryFailed(r) ==
  /\ req[r].pc = "query" /\ faults < MaxFaults
  /\ \E err \in {"failed"} \cup (IF Detached(req[r].cache) THEN {"timeout"} ELSE {}) :
       req' = [req EXCEPT ![r].pc = "insert", ![r].err = err]
  /\ faults' = faults + 1
  /\ UNCHANGED <<gen, items, pending, entry>>

\* Mutant: every error of the loader is shared with its waiters.
ResumedShared(q, err) ==
  IF err = "none" THEN [q EXCEPT !.pc = "enter", !.on = None]
  ELSE Returned(q, err, NoBody)

\* Mutant: the waiters of a load that failed are not released.
ResumedOnSuccess(q, err) ==
  IF err = "none" THEN [q EXCEPT !.pc = "enter", !.on = None] ELSE q

\* A waiter whose load is ready: real failures are shared, after a cancelled
\* or late load it starts over on its own context.
Resumed(q, err) ==
  IF err = "failed" THEN Returned(q, err, NoBody)
  ELSE [q EXCEPT !.pc = "enter", !.on = None]

\* The load returns: no longer pending, cached unless it failed, the oldest
\* entry evicted at capacity, the waiters released.
LruInsert(r) ==
  LET q == req[r]
      c == q.cache
      k == LoadKey(q) IN
  /\ q.pc = "insert" /\ c \in LruCaches
  /\ pending' = [pending EXCEPT ![c] = @ \ {[key |-> k, by |-> r]}]
  /\ items' = IF q.err # "none" THEN items
              ELSE [items EXCEPT ![c] =
                      LET all == <<[key |-> k, val |-> q.val]>> \o @ IN
                      IF Len(all) > Capacity THEN Front(all) ELSE all]
  /\ req' = [x \in Requests |->
               CASE x = r -> Returned(q, q.err, q.val)
                 [] req[x].pc = "wait" /\ req[x].on = r /\ req[x].cache = c ->
                      Resumed(req[x], q.err)
                 [] OTHER -> req[x]]
  /\ UNCHANGED <<gen, entry, faults>>

-----------------------------------------------------------------------------
(* mapCache.load *)

AtMap(r) == req[r].pc = "enter" /\ req[r].cache = "map"

\* Mutant: any entry is good enough.
EntryServesAny(r) == entry # None

\* The entry is of the generation the request read, or of a newer one.
EntryServes(r) == entry # None /\ req[entry].key >= req[r].key

MapWait(r) ==
  /\ AtMap(r)
  /\ EntryServes(r)
  /\ req' = [req EXCEPT ![r].pc = "wait", ![r].on = entry]
  /\ UNCHANGED <<gen, items, pending, entry, faults>>

\* No entry, or an older one, which is replaced while its load may still run.
MapMiss(r) ==
  /\ AtMap(r)
  /\ ~EntryServes(r)
  /\ entry' = r
  /\ req' = [req EXCEPT ![r].pc = "query"]
  /\ UNCHANGED <<gen, items, pending, faults>>

\* A failed load leaves the cache, unless a newer one has replaced it.
FailedEntry(r) == IF req[r].err # "none" /\ entry = r THEN None ELSE entry

MapInsert(r) ==
  /\ req[r].pc = "insert" /\ req[r].cache = "map"
  /\ entry' = FailedEntry(r)
  /\ req' = [req EXCEPT ![r] =
               Answer(@, @.err, IF @.err = "none" THEN @.val ELSE NoBody)]
  /\ UNCHANGED <<gen, items, pending, faults>>

MapReady(r) ==
  /\ req[r].pc = "wait" /\ req[r].cache = "map"
  /\ req[req[r].on].pc = "done"
  /\ req' = [req EXCEPT ![r] = Answer(@, req[@.on].err, req[@.on].val)]
  /\ UNCHANGED <<gen, items, pending, entry, faults>>

\* A waiter whose own client has left stops waiting, in either cache.
WaitCancelled(r) ==
  /\ req[r].pc = "wait" /\ ~req[r].up
  /\ req' = [req EXCEPT ![r] = Returned(@, "cancelled", NoBody)]
  /\ UNCHANGED <<gen, items, pending, entry, faults>>

-----------------------------------------------------------------------------
(* The environment: clients that disconnect, the refresh loop *)

Disconnect(r) ==
  /\ req[r].up /\ req[r].pc \notin {"new", "done"}
  /\ req' = [req EXCEPT ![r].up = FALSE]
  /\ UNCHANGED <<gen, items, pending, entry, faults>>

\* Engine.Refresh swaps a newer table in and stamps it.
Refreshed ==
  /\ gen < MaxGen
  /\ gen' = gen + 1
  /\ UNCHANGED <<items, pending, entry, req, faults>>

Step(r) ==
  \/ Retry(r)
  \/ LruHit(r) \/ LruWait(r) \/ LruMiss(r) \/ LruInsert(r)
  \/ QueryDone(r) \/ QueryCancelled(r) \/ QueryFailed(r)
  \/ MapWait(r) \/ MapMiss(r) \/ MapInsert(r) \/ MapReady(r)
  \/ WaitCancelled(r)

ApiNext ==
  \/ Refreshed
  \/ \E r \in Requests : Arrive(r) \/ Step(r) \/ Disconnect(r)

ApiSpec == ApiInit /\ [][ApiNext]_apiVars

\* Handlers run in goroutines of their own and every query ends: a request
\* that can go on does.
FairApiSpec == ApiSpec /\ \A r \in Requests : WF_apiVars(Step(r))

-----------------------------------------------------------------------------
(* Properties *)

Served(r) == req[r].pc = "done" /\ req[r].err = "none"

\* A response is never computed from a table older than the one served when
\* its request arrived, however loads, refreshes and evictions interleave: so
\* a client that asks again never sees the data go back.
ResponseFresh ==
  \A r \in Requests : Served(r) => req[r].val.gen \in req[r].seen..gen

\* loadStats gives up the version breakdown only when a refresh landed during
\* each of its attempts.
BreakdownKept ==
  \A r \in Requests :
    Served(r) /\ req[r].kind = "stats" /\ ~req[r].val.full =>
      gen >= req[r].seen + StableAttempts

\* A connected client never receives the cancellation of somebody else's
\* request, though it may have been waiting for that request's query.
NoInheritedCancel ==
  \A r \in Requests : req[r].err = "cancelled" /\ req[r].pc = "done" => ~req[r].up

\* Every request is answered: none waits for a load that nobody runs.
Answered ==
  <>[](\A r \in Requests : req[r].pc \in {"new", "done"})
===============================================================================
