---------------------------- MODULE ApiCacheProofs ----------------------------
(***************************************************************************)
(* Theorems about ApiCache, for any number of requests of any kinds, every *)
(* capacity and number of attempts, and however many tables are swapped    *)
(* in and queries fail.                                                    *)
(***************************************************************************)
EXTENDS ApiCache, SequenceTheorems, TLAPS

Bodies == [gen: Int, full: BOOLEAN]
Errors == {"none", "failed", "timeout", "cancelled"}
Loading == {"enter", "wait", "query", "insert"}

Reqs ==
  [pc: Loading \cup {"new", "state", "done"},
   kind: {"totals", "stats", "map", "forks", "absent"}, up: BOOLEAN, seen: Nat,
   cache: LruCaches \cup {"map", "none"}, key: Int, on: Requests \cup {None}, err: Errors,
   val: Bodies, part: Bodies, tries: Nat]

\* The body b was computed from a table between generations lo and g.
Between(b, lo, g) == lo <= b.gen /\ b.gen <= g

\* Entries of the caches, when generation g is served: each was computed at or
\* after the generation in its key.
Items(g) == {x \in [key: Nat, val: Bodies] : Between(x.val, x.key, g)}

\* Which cache a request of each kind can be at.
AtItsCache(q) ==
  /\ q.pc \in Loading => q.cache # "none"
  /\ q.cache = "aggregates" => q.kind \in {"totals", "stats"}
  /\ q.cache = "versions" => q.kind = "stats"
  /\ q.cache = "map" => q.kind = "map"
  /\ q.cache \in {"forks", "histories"} => q.kind \in {"forks", "absent"}
  /\ q.pc = "state" => q.kind = "stats"

\* Its key is of a generation at or after its arrival, and as many refreshes
\* have landed since then as it has made attempts.
Keeps(q, g) ==
  /\ q.pc # "new" => q.seen <= q.key /\ q.key <= g
  /\ q.pc \in Loading => q.seen + q.tries <= q.key
  /\ q.pc = "state" => q.seen + q.tries <= g
  /\ q.pc = "new" => q.tries = 0

\* What it has in hand is at least as new as its key.
HasFresh(q, g) ==
  /\ q.pc = "insert" /\ q.err = "none" => Between(q.val, q.key, g)
  /\ q.pc \in Loading /\ q.cache \in {"versions", "histories"} => Between(q.part, q.key, g)
  /\ q.pc = "done" /\ q.err = "none" => Between(q.val, q.key, g)
  /\ q.pc = "done" /\ q.err = "none" /\ q.kind = "stats" /\ ~q.val.full =>
       q.seen + StableAttempts <= g

\* Its error is its own.
OwnError(q) ==
  /\ q.pc \notin {"insert", "done"} => q.err = "none"
  /\ q.err = "cancelled" => ~q.up

Sound(q, g) == AtItsCache(q) /\ Keeps(q, g) /\ HasFresh(q, g) /\ OwnError(q)

\* A request that loads, or has loaded, the map: on a context of its own.
LoadsMap(q) == q.cache = "map" /\ q.pc \in {"query", "insert", "done"} /\ q.err # "cancelled"

TypeOK ==
  /\ gen \in Nat
  /\ pending \in [LruCaches -> SUBSET [key: Nat, by: Requests]]
  /\ entry \in Requests \cup {None}
  /\ req \in [Requests -> Reqs]

\* The cached bodies are not older than their keys.
CachesFresh == items \in [LruCaches -> Seq(Items(gen))]

RequestsSound == \A r \in Requests : Sound(req[r], gen)

\* Whoever waits for the map waits for a load that is new enough.
MapLoads ==
  /\ entry # None => LoadsMap(req[entry])
  /\ \A r \in Requests : req[r].pc = "wait" /\ req[r].cache = "map" =>
       req[r].on \in Requests /\ LoadsMap(req[req[r].on]) /\ req[r].key <= req[req[r].on].key

ApiInv == TypeOK /\ CachesFresh /\ RequestsSound /\ MapLoads
-----------------------------------------------------------------------------
(* What the helpers do to a request *)

LEMMA BodyTypes ==
  /\ NoBody \in Bodies
  /\ \A g \in Int, full \in BOOLEAN :
       Body(g, full) \in Bodies /\ Body(g, full).gen = g /\ Body(g, full).full = full
  BY DEF NoBody, Body, Bodies

\* The fields of a request have their types.
LEMMA Fields ==
  ASSUME NEW q \in Reqs
  PROVE  /\ q.seen \in Nat /\ q.key \in Int /\ q.tries \in Nat
         /\ q.val.gen \in Int /\ q.part.gen \in Int /\ q.val \in Bodies /\ q.part \in Bodies
  BY DEF Reqs, Bodies

\* A newer table does not hurt.
LEMMA SoundLater ==
  ASSUME NEW q \in Reqs, NEW g \in Nat, Sound(q, g)
  PROVE  Sound(q, g + 1)
  BY Fields, ApiAssumption DEF Sound, Keeps, HasFresh, Between

LEMMA AnswerSound ==
  ASSUME NEW q \in Reqs, NEW g \in Nat, Sound(q, g), q.pc \in Loading,
         NEW err \in Errors, NEW val \in Bodies,
         err = "none" => Between(val, q.key, g),
         err = "none" /\ q.kind = "stats" /\ ~val.full => q.seen + StableAttempts <= g,
         err = "cancelled" => ~q.up
  PROVE  Answer(q, err, val) \in Reqs /\ Sound(Answer(q, err, val), g)
  <1> DEFINE a == Answer(q, err, val)
  <1>1. a \in Reqs
    BY BodyTypes DEF Answer, Reqs
  <1>2. /\ a.pc = "done" /\ a.err = err /\ a.val = val
        /\ a.kind = q.kind /\ a.key = q.key /\ a.seen = q.seen /\ a.cache = q.cache /\ a.up = q.up
    BY DEF Answer, Reqs
  <1> HIDE DEF a
  <1>3. AtItsCache(a) /\ Keeps(a, g)
    BY <1>2 DEF Sound, AtItsCache, Keeps, Loading
  <1>4. HasFresh(a, g)
    BY <1>2 DEF HasFresh, Loading
  <1>5. OwnError(a)
    BY <1>2 DEF OwnError
  <1>6. QED
    BY <1>1, <1>3, <1>4, <1>5 DEF Sound, a

LEMMA AfterVersionsSound ==
  ASSUME NEW q \in Reqs, NEW g \in Nat, Sound(q, g), q.pc \in Loading, q.cache = "versions",
         q.err = "none", NEW val \in Bodies, Between(val, q.key, g)
  PROVE  AfterVersions(q, val) \in Reqs /\ Sound(AfterVersions(q, val), g)
  <1>1. Between(q.part, q.key, g) /\ q.kind = "stats" /\ q.seen + q.tries <= q.key
        /\ q.seen <= q.key /\ q.key <= g
    BY DEF Sound, AtItsCache, Keeps, HasFresh, Loading
  <1>2. val.gen # q.part.gen => q.seen + q.tries + 1 <= g
    <2>1. val.gen \in Int /\ q.part.gen \in Int
      BY Fields DEF Bodies
    <2>2. q.seen \in Nat /\ q.tries \in Nat /\ q.key \in Int
      BY Fields
    <2>3. val.gen # q.part.gen => q.key + 1 <= g
      BY <1>1, <2>1, <2>2 DEF Between
    <2>4. QED
      BY <1>1, <2>2, <2>3
  <1>3. CASE val.gen = q.part.gen
    <2>1. Answer(q, "none", Body(q.part.gen, TRUE)) \in Reqs
          /\ Sound(Answer(q, "none", Body(q.part.gen, TRUE)), g)
      BY <1>1, Fields, BodyTypes, AnswerSound DEF Errors, Between
    <2>2. QED
      BY <1>3, <2>1 DEF AfterVersions
  <1>4. CASE val.gen # q.part.gen /\ q.tries + 1 >= StableAttempts
    <2>1. q.seen + StableAttempts <= g
      BY <1>2, <1>4, Fields, ApiAssumption
    <2>2. Answer(q, "none", Body(q.part.gen, FALSE)) \in Reqs
          /\ Sound(Answer(q, "none", Body(q.part.gen, FALSE)), g)
      BY <1>1, <2>1, Fields, BodyTypes, AnswerSound DEF Errors, Between
    <2>3. QED
      BY <1>4, <2>2 DEF AfterVersions
  <1>5. CASE val.gen # q.part.gen /\ ~(q.tries + 1 >= StableAttempts)
    <2> DEFINE a == [q EXCEPT !.pc = "state", !.tries = @ + 1, !.on = None,
                              !.part = NoBody, !.val = NoBody]
    <2>1. a \in Reqs
      <3>1. q.tries + 1 \in Nat
        BY Fields
      <3>2. [q EXCEPT !.pc = "state", !.tries = q.tries + 1, !.on = None,
                      !.part = NoBody, !.val = NoBody] \in Reqs
        BY <3>1, BodyTypes DEF Reqs
      <3>3. QED
        BY <3>2
    <2>2. /\ a.pc = "state" /\ a.tries = q.tries + 1 /\ a.err = q.err /\ a.up = q.up
          /\ a.kind = q.kind /\ a.key = q.key /\ a.seen = q.seen /\ a.cache = q.cache
      BY DEF Reqs
    <2>3. AfterVersions(q, val) = a
      BY <1>5 DEF AfterVersions
    <2> HIDE DEF a
    <2>4. AtItsCache(a)
      BY <2>2, <1>1 DEF Sound, AtItsCache, Loading
    <2>5. Keeps(a, g)
      BY <2>2, <1>1, <1>2, <1>5, Fields DEF Keeps, Loading
    <2>6. HasFresh(a, g) /\ OwnError(a)
      BY <2>2 DEF HasFresh, OwnError, Loading
    <2>7. QED
      BY <2>1, <2>3, <2>4, <2>5, <2>6 DEF Sound
  <1>6. QED
    BY <1>3, <1>4, <1>5

\* A request goes on soundly when a load returns to it, its own, a cached one or
\* the failure of the one it waited for.
LEMMA ReturnedSound ==
  ASSUME NEW q \in Reqs, NEW g \in Nat, Sound(q, g), q.pc \in Loading,
         NEW err \in Errors, NEW val \in Bodies,
         err = "none" /\ q.cache # "histories" => Between(val, q.key, g) /\ q.err = "none",
         err = "cancelled" => ~q.up
  PROVE  Returned(q, err, val) \in Reqs /\ Sound(Returned(q, err, val), g)
  <1>1. CASE q.cache = "histories"
    <2> DEFINE a == [q EXCEPT !.pc = "insert", !.cache = "forks", !.on = None,
                              !.err = "none", !.val = Body(q.part.gen, err = "none")]
    <2>1. (err = "none") \in BOOLEAN
      OBVIOUS
    <2>2. Body(q.part.gen, err = "none") \in Bodies /\ Body(q.part.gen, err = "none").gen = q.part.gen
      BY <2>1, Fields, BodyTypes
    <2>3. a \in Reqs
      BY <2>2 DEF Reqs, Loading, LruCaches, Errors
    <2>4. /\ a.pc = "insert" /\ a.cache = "forks" /\ a.err = "none" /\ a.val.gen = q.part.gen
          /\ a.kind = q.kind /\ a.key = q.key /\ a.seen = q.seen /\ a.tries = q.tries
      BY <2>2 DEF Reqs
    <2>5. Returned(q, err, val) = a
      BY <1>1 DEF Returned
    <2> HIDE DEF a
    <2>6. AtItsCache(a) /\ Keeps(a, g) /\ OwnError(a)
      BY <1>1, <2>4 DEF Sound, AtItsCache, Keeps, OwnError, Loading
    <2>7. HasFresh(a, g)
      BY <1>1, <2>4 DEF Sound, HasFresh, Between, Loading
    <2>8. QED
      BY <2>3, <2>5, <2>6, <2>7 DEF Sound
  <1>2. CASE q.cache # "histories" /\ err # "none"
    <2>1. Answer(q, err, NoBody) \in Reqs /\ Sound(Answer(q, err, NoBody), g)
      BY <1>2, BodyTypes, AnswerSound
    <2>2. QED
      BY <1>2, <2>1 DEF Returned
  <1>3. CASE q.cache = "aggregates" /\ q.kind = "stats" /\ err = "none"
    <2> DEFINE a == [q EXCEPT !.pc = "enter", !.cache = "versions", !.part = val,
                              !.val = NoBody, !.on = None]
    <2>1. a \in Reqs
      BY BodyTypes DEF Reqs, Loading, LruCaches
    <2>2. /\ a.pc = "enter" /\ a.cache = "versions" /\ a.part = val /\ a.err = q.err /\ a.up = q.up
          /\ a.kind = q.kind /\ a.key = q.key /\ a.seen = q.seen /\ a.tries = q.tries
      BY DEF Reqs
    <2>3. Returned(q, err, val) = a
      BY <1>3 DEF Returned
    <2> HIDE DEF a
    <2>4. AtItsCache(a) /\ Keeps(a, g) /\ OwnError(a)
      BY <1>3, <2>2 DEF Sound, AtItsCache, Keeps, OwnError, Loading
    <2>5. HasFresh(a, g)
      BY <1>3, <2>2 DEF HasFresh, Loading
    <2>6. QED
      BY <2>1, <2>3, <2>4, <2>5 DEF Sound
  <1>4. CASE q.cache = "versions" /\ err = "none"
    <2>1. AfterVersions(q, val) \in Reqs /\ Sound(AfterVersions(q, val), g)
      BY <1>4, AfterVersionsSound
    <2>2. QED
      BY <1>4, <2>1 DEF Returned
  <1>5. CASE q.cache \notin {"histories", "versions"} /\ err = "none"
             /\ ~(q.cache = "aggregates" /\ q.kind = "stats")
    <2>1. q.kind # "stats"
      BY <1>5 DEF Sound, AtItsCache, Reqs, LruCaches
    <2>2. Between(val, q.key, g) /\ "none" \in Errors
      BY <1>5 DEF Errors
    <2>3. Answer(q, "none", val) \in Reqs /\ Sound(Answer(q, "none", val), g)
      BY <2>1, <2>2, AnswerSound
    <2>4. QED
      BY <1>5, <2>3 DEF Returned
  <1>6. QED
    BY <1>1, <1>2, <1>3, <1>4, <1>5

\* Who a load has returned to waits no longer.
LEMMA NotWaiting ==
  ASSUME NEW q \in Reqs, NEW err \in Errors, NEW val \in Bodies
  PROVE  Returned(q, err, val).pc # "wait" /\ Resumed(q, err).pc # "wait"
  <1>1. \A v \in Bodies : Returned(q, err, v).pc # "wait"
    BY DEF Returned, AfterVersions, Answer, Reqs
  <1>2. QED
    BY <1>1, BodyTypes DEF Resumed, Reqs

LEMMA ResumedSound ==
  ASSUME NEW q \in Reqs, NEW g \in Nat, Sound(q, g), q.pc = "wait", NEW err \in Errors
  PROVE  Resumed(q, err) \in Reqs /\ Sound(Resumed(q, err), g)
  <1>1. CASE err = "failed"
    <2>1. Returned(q, err, NoBody) \in Reqs /\ Sound(Returned(q, err, NoBody), g)
      BY <1>1, BodyTypes, ReturnedSound DEF Loading
    <2>2. QED
      BY <1>1, <2>1 DEF Resumed
  <1>2. CASE err # "failed"
    <2> DEFINE a == [q EXCEPT !.pc = "enter", !.on = None]
    <2>1. a \in Reqs
      BY DEF Reqs, Loading
    <2>2. /\ a.pc = "enter" /\ a.cache = q.cache /\ a.part = q.part /\ a.err = q.err /\ a.up = q.up
          /\ a.kind = q.kind /\ a.key = q.key /\ a.seen = q.seen /\ a.tries = q.tries
      BY DEF Reqs
    <2> HIDE DEF a
    <2>3. Sound(a, g)
      BY <2>2 DEF Sound, AtItsCache, Keeps, HasFresh, OwnError, Loading
    <2>4. QED
      BY <1>2, <2>1, <2>3 DEF Resumed, a
  <1>3. QED
    BY <1>1, <1>2

\* A request reads the generation for its key, on arrival or for another attempt.
LEMMA KeyedSound ==
  ASSUME NEW q \in Reqs, gen \in Nat, q.err = "none", q.seen <= gen, q.seen + q.tries <= gen
  PROVE  Keyed(q) \in Reqs /\ Sound(Keyed(q), gen) /\ Keyed(q).pc = "enter"
  <1> DEFINE a == Keyed(q)
  <1>1. FirstCache(q.kind) \in {"aggregates", "map", "forks"}
        /\ (FirstCache(q.kind) = "aggregates" => q.kind \in {"totals", "stats"})
        /\ (FirstCache(q.kind) = "map" => q.kind = "map")
        /\ (FirstCache(q.kind) = "forks" => q.kind \in {"forks", "absent"})
    BY DEF FirstCache, Reqs
  <1>2. a \in Reqs
    <2>1. \A c \in LruCaches \cup {"map", "none"}, k \in Int :
            [q EXCEPT !.pc = "enter", !.key = k, !.cache = c] \in Reqs
      BY DEF Reqs, Loading
    <2>2. FirstCache(q.kind) \in LruCaches \cup {"map", "none"} /\ gen \in Int
      BY <1>1 DEF LruCaches
    <2>3. QED
      BY <2>1, <2>2 DEF Keyed
  <1>3. /\ a.pc = "enter" /\ a.cache = FirstCache(q.kind) /\ a.err = q.err
        /\ a.kind = q.kind /\ a.key = gen /\ a.seen = q.seen /\ a.tries = q.tries
    BY DEF Keyed, Reqs
  <1> HIDE DEF a
  <1>4. AtItsCache(a)
    BY <1>1, <1>3 DEF AtItsCache
  <1>5. Keeps(a, gen)
    BY <1>3, Fields DEF Keeps
  <1>6. HasFresh(a, gen) /\ OwnError(a)
    BY <1>1, <1>3 DEF HasFresh, OwnError
  <1>7. QED
    BY <1>2, <1>3, <1>4, <1>5, <1>6 DEF Sound, a

-----------------------------------------------------------------------------
(* What the steps do to the state *)

\* One request changes, soundly, and does not leave those who wait for it.
LEMMA OneRequest ==
  ASSUME ApiInv, NEW r \in Requests, NEW a \in Reqs, Sound(a, gen),
         req' = [req EXCEPT ![r] = a], UNCHANGED gen,
         entry' \in {entry, None} \/ (entry' = r /\ LoadsMap(a)),
         LoadsMap(req[r]) => LoadsMap(a) /\ a.key = req[r].key,
         a.pc = "wait" /\ a.cache = "map" =>
           a.on \in Requests \ {r} /\ LoadsMap(req[a.on]) /\ a.key <= req[a.on].key,
         pending' \in [LruCaches -> SUBSET [key: Nat, by: Requests]],
         items' \in [LruCaches -> Seq(Items(gen))]
  PROVE  ApiInv'
  <1>1. TypeOK'
    BY DEF ApiInv, TypeOK
  <1>2. \A x \in Requests : req'[x] = IF x = r THEN a ELSE req[x]
    BY DEF ApiInv, TypeOK
  <1>3. RequestsSound'
    BY <1>2 DEF ApiInv, RequestsSound
  <1>4. \A x \in Requests : LoadsMap(req[x]) => LoadsMap(req'[x]) /\ req'[x].key = req[x].key
    BY <1>2
  <1>5. MapLoads'
    <2>1. entry' # None => LoadsMap(req'[entry'])
      BY <1>4 DEF ApiInv, TypeOK, MapLoads
    <2>2. ASSUME NEW x \in Requests, req'[x].pc = "wait", req'[x].cache = "map"
          PROVE  /\ req'[x].on \in Requests /\ LoadsMap(req'[req'[x].on])
                 /\ req'[x].key <= req'[req'[x].on].key
      BY <1>2, <1>4, <2>2 DEF ApiInv, MapLoads
    <2>3. QED
      BY <2>1, <2>2 DEF MapLoads, LoadsMap
  <1>6. CachesFresh'
    BY DEF CachesFresh, Items
  <1>7. QED
    BY <1>1, <1>3, <1>5, <1>6 DEF ApiInv

\* The sequences the caches become hold only what was there and the new entry.
LEMMA EntryMoves ==
  ASSUME NEW T, NEW t \in Seq(T)
  PROVE  /\ \A i \in DOMAIN t : t[i] \in T /\ <<t[i]>> \o RemoveAt(t, i) \in Seq(T)
         /\ \A x \in T : <<x>> \o t \in Seq(T)
                         /\ (Len(<<x>> \o t) > 1 => Front(<<x>> \o t) \in Seq(T))
  <1>1. \A x \in T : <<x>> \in Seq(T) /\ Len(<<x>>) = 1
    OBVIOUS
  <1>2. \A u, v \in Seq(T) : u \o v \in Seq(T)
    BY ConcatProperties
  <1>3. \A u \in Seq(T) : \A m, n \in Int : (m > n \/ (1 <= m /\ n <= Len(u))) => SubSeq(u, m, n) \in Seq(T)
    <2> SUFFICES ASSUME NEW u \in Seq(T), NEW m \in Int, NEW n \in Int,
                        m > n \/ (1 <= m /\ n <= Len(u))
                 PROVE  SubSeq(u, m, n) \in Seq(T)
      OBVIOUS
    <2>1. CASE m > n
      BY <2>1
    <2>2. CASE 1 <= m /\ n <= Len(u) /\ m <= n
      <3>1. m \in 1..Len(u) /\ n \in m..Len(u)
        BY <2>2
      <3>2. QED
        BY <3>1
    <2>3. QED
      BY <2>1, <2>2
  <1>4. ASSUME NEW i \in DOMAIN t
        PROVE  t[i] \in T /\ <<t[i]>> \o RemoveAt(t, i) \in Seq(T)
    <2>1. i \in 1..Len(t) /\ Len(t) \in Nat /\ t[i] \in T
      BY LenProperties, ElementOfSeq
    <2>2. SubSeq(t, 1, i - 1) \in Seq(T) /\ SubSeq(t, i + 1, Len(t)) \in Seq(T)
      BY <1>3, <2>1
    <2>3. RemoveAt(t, i) \in Seq(T)
      BY <1>2, <2>2 DEF RemoveAt
    <2>4. QED
      BY <1>1, <1>2, <2>1, <2>3
  <1>5. ASSUME NEW x \in T
        PROVE  /\ <<x>> \o t \in Seq(T)
               /\ Len(<<x>> \o t) > 1 => Front(<<x>> \o t) \in Seq(T)
    <2> DEFINE all == <<x>> \o t
    <2>1. all \in Seq(T) /\ Len(all) \in Nat
      BY <1>1, <1>2, LenProperties
    <2> HIDE DEF all
    <2>2. SubSeq(all, 1, Len(all) - 1) \in Seq(T)
      BY <1>3, <2>1
    <2>3. QED
      BY <2>1, <2>2 DEF Front, all
  <1>6. QED
    BY <1>4, <1>5

LEMMA InitInv == ApiInit => ApiInv
  <1> SUFFICES ASSUME ApiInit PROVE ApiInv
    OBVIOUS
  <1>1. PICK w \in Workloads : req = [r \in Requests |-> NewRequest(w[r])]
    BY DEF ApiInit
  <1>2. \A r \in Requests : w[r] \in {"totals", "stats", "map", "forks", "absent"}
    BY ApiAssumption
  <1>3. ASSUME NEW kind \in {"totals", "stats", "map", "forks", "absent"}
        PROVE  NewRequest(kind) \in Reqs /\ Sound(NewRequest(kind), 0) /\ NewRequest(kind).pc = "new"
    <2>1. NewRequest(kind) \in Reqs
      BY BodyTypes DEF NewRequest, Reqs, Errors
    <2>2. QED
      BY <2>1 DEF NewRequest, Sound, AtItsCache, Keeps, HasFresh, OwnError, Loading
  <1>4. TypeOK
    BY <1>1, <1>2, <1>3 DEF ApiInit, TypeOK
  <1>5. RequestsSound
    BY <1>1, <1>2, <1>3 DEF ApiInit, RequestsSound
  <1>6. MapLoads
    BY <1>1, <1>2, <1>3 DEF ApiInit, MapLoads
  <1>7. CachesFresh
    BY DEF ApiInit, CachesFresh
  <1>8. QED
    BY <1>4, <1>5, <1>6, <1>7 DEF ApiInv

\* Another table is swapped in.
LEMMA RefreshedStep ==
  ASSUME ApiInv, Refreshed
  PROVE  ApiInv'
  <1>1. gen \in Nat /\ gen' = gen + 1
    BY DEF ApiInv, TypeOK, Refreshed
  <1>2. TypeOK' /\ MapLoads'
    BY <1>1 DEF ApiInv, TypeOK, MapLoads, LoadsMap, Refreshed
  <1>3. RequestsSound'
    BY <1>1, SoundLater DEF ApiInv, TypeOK, RequestsSound, Refreshed
  <1>4. Items(gen) \subseteq Items(gen + 1)
    BY <1>1 DEF Items, Between, Bodies
  <1>5. Seq(Items(gen)) \subseteq Seq(Items(gen + 1))
    BY <1>4, SeqMonotonic
  <1>6. CachesFresh'
    <2>1. items' \in [LruCaches -> Seq(Items(gen + 1))]
      BY <1>5 DEF ApiInv, CachesFresh, Refreshed
    <2>2. QED
      BY <1>1, <2>1 DEF CachesFresh, Items
  <1>7. QED
    BY <1>2, <1>3, <1>6 DEF ApiInv

\* Arrival, another attempt, a client that leaves, a query that ends: one request
\* changes, the caches do not.
LEMMA OnlyRequest ==
  ASSUME ApiInv, NEW r \in Requests, NEW a \in Reqs, Sound(a, gen),
         req' = [req EXCEPT ![r] = a], UNCHANGED <<gen, items, pending, entry>>,
         LoadsMap(req[r]) => LoadsMap(a) /\ a.key = req[r].key,
         a.pc = "wait" /\ a.cache = "map" =>
           a.on \in Requests \ {r} /\ LoadsMap(req[a.on]) /\ a.key <= req[a.on].key
  PROVE  ApiInv'
  <1>1. pending' \in [LruCaches -> SUBSET [key: Nat, by: Requests]]
        /\ items' \in [LruCaches -> Seq(Items(gen))]
    BY DEF ApiInv, TypeOK, CachesFresh
  <1>2. QED
    BY <1>1, OneRequest

LEMMA KeyingSteps ==
  ASSUME ApiInv, NEW r \in Requests, Arrive(r) \/ Retry(r)
  PROVE  ApiInv'
  <1> DEFINE q == req[r]
  <1>1. q \in Reqs /\ Sound(q, gen) /\ gen \in Nat /\ ~LoadsMap(q)
    BY DEF ApiInv, TypeOK, RequestsSound, Arrive, Retry, LoadsMap
  <1>2. CASE Arrive(r)
    <2> DEFINE n == [q EXCEPT !.seen = gen]
    <2>1. n \in Reqs /\ n.err = "none" /\ n.seen = gen /\ n.tries = q.tries
      BY <1>1, <1>2 DEF Reqs, Arrive, Sound, OwnError
    <2>2. q.tries = 0
      BY <1>1, <1>2 DEF Arrive, Sound, Keeps
    <2>3. Keyed(n) \in Reqs /\ Sound(Keyed(n), gen) /\ Keyed(n).pc = "enter"
      <3>1. n.seen <= gen /\ n.seen + n.tries <= gen
        BY <1>1, <2>1, <2>2
      <3>2. QED
        BY <1>1, <2>1, <3>1, KeyedSound
    <2>4. req' = [req EXCEPT ![r] = Keyed(n)] /\ UNCHANGED <<gen, items, pending, entry>>
      BY <1>2 DEF Arrive
    <2> HIDE DEF n
    <2>5. QED
      BY <1>1, <2>3, <2>4, OnlyRequest
  <1>3. CASE Retry(r)
    <2>1. q.err = "none" /\ q.seen <= gen /\ q.seen + q.tries <= gen
      BY <1>1, <1>3, Fields DEF Retry, Sound, Keeps, OwnError
    <2>2. Keyed(q) \in Reqs /\ Sound(Keyed(q), gen) /\ Keyed(q).pc = "enter"
      BY <1>1, <2>1, KeyedSound
    <2>3. req' = [req EXCEPT ![r] = Keyed(q)] /\ UNCHANGED <<gen, items, pending, entry>>
      BY <1>3 DEF Retry
    <2>4. QED
      BY <1>1, <2>2, <2>3, OnlyRequest
  <1>4. QED
    BY <1>2, <1>3

\* A client leaves.
LEMMA DisconnectStep ==
  ASSUME ApiInv, NEW r \in Requests, Disconnect(r)
  PROVE  ApiInv'
  <1> DEFINE q == req[r]  a == [q EXCEPT !.up = FALSE]
  <1>1. q \in Reqs /\ Sound(q, gen)
    BY DEF ApiInv, TypeOK, RequestsSound
  <1>2. a \in Reqs
    BY <1>1 DEF Reqs
  <1>3. /\ a.pc = q.pc /\ a.cache = q.cache /\ a.part = q.part /\ a.err = q.err /\ a.up = FALSE
        /\ a.kind = q.kind /\ a.key = q.key /\ a.seen = q.seen /\ a.tries = q.tries
        /\ a.val = q.val /\ a.on = q.on
    BY <1>1 DEF Reqs
  <1>4. req' = [req EXCEPT ![r] = a] /\ UNCHANGED <<gen, items, pending, entry>>
    BY DEF Disconnect
  <1> HIDE DEF a
  <1>5. Sound(a, gen)
    BY <1>1, <1>3 DEF Sound, AtItsCache, Keeps, HasFresh, OwnError
  <1>6. LoadsMap(q) => LoadsMap(a)
    BY <1>3 DEF LoadsMap
  <1>7. a.pc = "wait" /\ a.cache = "map" =>
          a.on \in Requests \ {r} /\ LoadsMap(req[a.on]) /\ a.key <= req[a.on].key
    <2>1. q.pc = "wait" /\ q.cache = "map" =>
            q.on \in Requests /\ LoadsMap(req[q.on]) /\ q.key <= req[q.on].key
      BY DEF ApiInv, MapLoads
    <2>2. q.pc = "wait" => ~LoadsMap(q)
      BY DEF LoadsMap
    <2>3. QED
      BY <1>3, <2>1, <2>2
  <1>8. QED
    BY <1>2, <1>3, <1>4, <1>5, <1>6, <1>7, OnlyRequest

\* A query ends: with a body, with an error, or with its client.
LEMMA QuerySteps ==
  ASSUME ApiInv, NEW r \in Requests, QueryDone(r) \/ QueryCancelled(r) \/ QueryFailed(r)
  PROVE  ApiInv'
  <1> DEFINE q == req[r]
  <1>1. q \in Reqs /\ Sound(q, gen) /\ gen \in Nat /\ q.pc = "query"
    BY DEF ApiInv, TypeOK, RequestsSound, QueryDone, QueryCancelled, QueryFailed
  <1>2. UNCHANGED <<gen, items, pending, entry>>
    BY DEF QueryDone, QueryCancelled, QueryFailed
  <1> DEFINE b == Body(gen, TRUE)
  <1>3. b \in Bodies /\ b.gen = gen
    BY <1>1 DEF Body, Bodies
  <1> HIDE DEF b
  <1>4. CASE QueryDone(r) /\ q.cache = "forks"
    <2> DEFINE a == [q EXCEPT !.pc = "enter", !.cache = "histories", !.part = b]
    <2>1. a \in Reqs
      BY <1>1, <1>3 DEF Reqs, Loading, LruCaches
    <2>2. /\ a.pc = "enter" /\ a.cache = "histories" /\ a.part.gen = gen /\ a.err = q.err
          /\ a.up = q.up /\ a.kind = q.kind /\ a.key = q.key /\ a.seen = q.seen /\ a.tries = q.tries
      BY <1>1, <1>3 DEF Reqs
    <2>3. req' = [req EXCEPT ![r] = a]
      BY <1>4 DEF QueryDone, b
    <2> HIDE DEF a
    <2>4. Sound(a, gen)
      BY <1>1, <1>4, <2>2, Fields
        DEF Sound, AtItsCache, Keeps, HasFresh, OwnError, Loading, Between
    <2>5. ~LoadsMap(q)
      BY <1>4 DEF LoadsMap
    <2>6. QED
      BY <1>2, <2>1, <2>2, <2>3, <2>4, <2>5, OnlyRequest
  <1>5. CASE QueryDone(r) /\ q.cache # "forks"
    <2> DEFINE a == [q EXCEPT !.pc = "insert", !.err = "none", !.val = b]
    <2>1. a \in Reqs
      BY <1>1, <1>3 DEF Reqs, Loading, Errors
    <2>2. /\ a.pc = "insert" /\ a.cache = q.cache /\ a.val.gen = gen /\ a.err = "none"
          /\ a.part = q.part
          /\ a.up = q.up /\ a.kind = q.kind /\ a.key = q.key /\ a.seen = q.seen /\ a.tries = q.tries
      BY <1>1, <1>3 DEF Reqs
    <2>3. req' = [req EXCEPT ![r] = a]
      BY <1>5 DEF QueryDone, b
    <2> HIDE DEF a
    <2>4. Sound(a, gen)
      BY <1>1, <1>5, <2>2, Fields
        DEF Sound, AtItsCache, Keeps, HasFresh, OwnError, Loading, Between
    <2>5. LoadsMap(q) => LoadsMap(a)
      BY <2>2 DEF LoadsMap
    <2>6. QED
      BY <1>2, <2>1, <2>2, <2>3, <2>4, <2>5, OnlyRequest
  <1>6. CASE QueryCancelled(r) \/ QueryFailed(r)
    <2>1. PICK err \in {"cancelled", "failed", "timeout"} :
            /\ req' = [req EXCEPT ![r].pc = "insert", ![r].err = err]
            /\ err = "cancelled" => ~q.up /\ q.cache # "map"
      BY <1>6 DEF QueryCancelled, QueryFailed, Detached
    <2> DEFINE a == [q EXCEPT !.pc = "insert", !.err = err]
    <2>2. a \in Reqs
      BY <1>1 DEF Reqs, Loading, Errors
    <2>3. /\ a.pc = "insert" /\ a.cache = q.cache /\ a.err = err /\ a.part = q.part
          /\ a.up = q.up /\ a.kind = q.kind /\ a.key = q.key /\ a.seen = q.seen /\ a.tries = q.tries
      BY <1>1 DEF Reqs
    <2>4. req' = [req EXCEPT ![r] = a]
      BY <2>1 DEF ApiInv, TypeOK
    <2> HIDE DEF a
    <2>5. Sound(a, gen)
      BY <1>1, <2>1, <2>3 DEF Sound, AtItsCache, Keeps, HasFresh, OwnError, Loading
    <2>6. LoadsMap(q) => LoadsMap(a)
      BY <2>1, <2>3 DEF LoadsMap
    <2>7. QED
      BY <1>2, <2>2, <2>3, <2>4, <2>5, <2>6, OnlyRequest
  <1>7. QED
    BY <1>4, <1>5, <1>6

\* A cached body is returned, and moves to the front.
LEMMA LruHitStep ==
  ASSUME ApiInv, NEW r \in Requests, LruHit(r)
  PROVE  ApiInv'
  <1> DEFINE q == req[r]  c == q.cache
  <1>1. q \in Reqs /\ Sound(q, gen) /\ gen \in Nat /\ q.pc = "enter" /\ c \in LruCaches
    BY DEF ApiInv, TypeOK, RequestsSound, LruHit, AtLru
  <1>2. PICK i \in DOMAIN items[c] :
          /\ items[c][i].key = LoadKey(q)
          /\ items' = [items EXCEPT ![c] = <<items[c][i]>> \o RemoveAt(items[c], i)]
          /\ req' = [req EXCEPT ![r] = Returned(q, "none", items[c][i].val)]
    BY DEF LruHit, Cached
  <1>3. items[c] \in Seq(Items(gen)) /\ items \in [LruCaches -> Seq(Items(gen))]
    BY <1>1 DEF ApiInv, CachesFresh
  <1>4. items[c][i] \in Items(gen) /\ <<items[c][i]>> \o RemoveAt(items[c], i) \in Seq(Items(gen))
    BY <1>3, EntryMoves
  <1>5. items' \in [LruCaches -> Seq(Items(gen))]
    BY <1>1, <1>2, <1>3, <1>4
  <1> DEFINE v == items[c][i].val  a == Returned(q, "none", v)
  <1>6. v \in Bodies /\ Between(v, LoadKey(q), gen)
    BY <1>2, <1>4 DEF Items
  <1>7. q.err = "none" /\ ~LoadsMap(q)
    BY <1>1 DEF Sound, OwnError, LoadsMap
  <1> HIDE DEF v
  <1>8. a \in Reqs /\ Sound(a, gen)
    BY <1>1, <1>6, <1>7, ReturnedSound DEF LoadKey, Loading, Errors
  <1>9. a.pc # "wait"
    BY <1>1, <1>6, NotWaiting DEF Errors
  <1>10. req' = [req EXCEPT ![r] = a] /\ UNCHANGED <<gen, pending, entry>>
    BY <1>2 DEF LruHit, v
  <1>11. pending' \in [LruCaches -> SUBSET [key: Nat, by: Requests]]
    BY <1>10 DEF ApiInv, TypeOK
  <1> HIDE DEF a
  <1>12. QED
    BY <1>5, <1>7, <1>8, <1>9, <1>10, <1>11, OneRequest

\* A request waits for the load of another, or loads itself.
LEMMA LruMissSteps ==
  ASSUME ApiInv, NEW r \in Requests, LruWait(r) \/ LruMiss(r)
  PROVE  ApiInv'
  <1> DEFINE q == req[r]  c == q.cache
  <1>1. q \in Reqs /\ Sound(q, gen) /\ gen \in Nat /\ q.pc = "enter" /\ c \in LruCaches
    BY DEF ApiInv, TypeOK, RequestsSound, LruWait, LruMiss, AtLru
  <1>2. ASSUME NEW pc \in {"wait", "query"}, NEW on \in Requests \cup {None}
        PROVE  LET a == [q EXCEPT !.pc = pc, !.on = on]
               IN a \in Reqs /\ Sound(a, gen) /\ a.cache = c
    <2> DEFINE a == [q EXCEPT !.pc = pc, !.on = on]
    <2>1. a \in Reqs
      BY <1>1 DEF Reqs, Loading
    <2>2. /\ a.pc = pc /\ a.cache = q.cache /\ a.part = q.part /\ a.err = q.err /\ a.up = q.up
          /\ a.kind = q.kind /\ a.key = q.key /\ a.seen = q.seen /\ a.tries = q.tries
      BY <1>1 DEF Reqs
    <2> HIDE DEF a
    <2>3. Sound(a, gen)
      BY <1>1, <2>2 DEF Sound, AtItsCache, Keeps, HasFresh, OwnError, Loading
    <2>4. QED
      BY <2>1, <2>2, <2>3 DEF a
  <1>3. ~LoadsMap(q) /\ c # "map"
    BY <1>1 DEF LoadsMap, LruCaches
  <1>4. CASE LruWait(r)
    <2>1. PICK by \in LoadersOf(c, LoadKey(q)) : req' = [req EXCEPT ![r].pc = "wait", ![r].on = by]
      BY <1>4 DEF LruWait
    <2>2. by \in Requests
      BY <1>1 DEF ApiInv, TypeOK, LoadersOf
    <2> DEFINE a == [q EXCEPT !.pc = "wait", !.on = by]
    <2>3. req' = [req EXCEPT ![r] = a] /\ UNCHANGED <<gen, items, pending, entry>>
      BY <1>4, <2>1 DEF LruWait, ApiInv, TypeOK
    <2>4. a \in Reqs /\ Sound(a, gen) /\ a.cache = c
      BY <1>2, <2>2
    <2> HIDE DEF a
    <2>5. QED
      BY <1>3, <2>3, <2>4, OnlyRequest
  <1>5. CASE LruMiss(r)
    <2> DEFINE a == [q EXCEPT !.pc = "query", !.on = q.on]
    <2>1. req' = [req EXCEPT ![r] = a] /\ UNCHANGED <<gen, items, entry>>
      BY <1>1, <1>5 DEF LruMiss, ApiInv, TypeOK, Reqs
    <2>2. a \in Reqs /\ Sound(a, gen) /\ a.cache = c
      BY <1>1, <1>2 DEF Reqs
    <2>3. LoadKey(q) \in Nat
      BY <1>1, Fields DEF LoadKey, Sound, Keeps, Reqs
    <2>4. pending' \in [LruCaches -> SUBSET [key: Nat, by: Requests]]
      BY <1>1, <1>5, <2>3 DEF LruMiss, ApiInv, TypeOK
    <2>5. items' \in [LruCaches -> Seq(Items(gen))]
      BY <2>1 DEF ApiInv, CachesFresh
    <2> HIDE DEF a
    <2>6. QED
      BY <1>3, <2>1, <2>2, <2>4, <2>5, OneRequest
  <1>6. QED
    BY <1>4, <1>5

\* The map: a request waits for the entry, or replaces it and loads.
LEMMA MapEnterSteps ==
  ASSUME ApiInv, NEW r \in Requests, MapWait(r) \/ MapMiss(r)
  PROVE  ApiInv'
  <1> DEFINE q == req[r]
  <1>1. q \in Reqs /\ Sound(q, gen) /\ gen \in Nat /\ q.pc = "enter" /\ q.cache = "map"
    BY DEF ApiInv, TypeOK, RequestsSound, MapWait, MapMiss, AtMap
  <1>2. ASSUME NEW pc \in {"wait", "query"}, NEW on \in Requests \cup {None}
        PROVE  LET a == [q EXCEPT !.pc = pc, !.on = on]
               IN /\ a \in Reqs /\ Sound(a, gen)
                  /\ a.cache = "map" /\ a.err = "none" /\ a.key = q.key /\ a.on = on /\ a.pc = pc
    <2> DEFINE a == [q EXCEPT !.pc = pc, !.on = on]
    <2>1. a \in Reqs
      BY <1>1 DEF Reqs, Loading
    <2>2. /\ a.pc = pc /\ a.cache = q.cache /\ a.part = q.part /\ a.err = q.err /\ a.up = q.up
          /\ a.kind = q.kind /\ a.key = q.key /\ a.seen = q.seen /\ a.tries = q.tries /\ a.on = on
      BY <1>1 DEF Reqs
    <2> HIDE DEF a
    <2>3. Sound(a, gen)
      BY <1>1, <2>2 DEF Sound, AtItsCache, Keeps, HasFresh, OwnError, Loading
    <2>4. QED
      BY <1>1, <2>1, <2>2, <2>3 DEF a, Sound, OwnError
  <1>3. ~LoadsMap(q)
    BY <1>1 DEF LoadsMap
  <1>4. pending' \in [LruCaches -> SUBSET [key: Nat, by: Requests]]
        /\ items' \in [LruCaches -> Seq(Items(gen))]
    BY DEF MapWait, MapMiss, ApiInv, TypeOK, CachesFresh
  <1>5. CASE MapWait(r)
    <2> DEFINE a == [q EXCEPT !.pc = "wait", !.on = entry]
    <2>1. entry \in Requests /\ LoadsMap(req[entry]) /\ q.key <= req[entry].key /\ entry # r
      BY <1>1, <1>3, <1>5, Fields DEF MapWait, EntryServes, ApiInv, TypeOK, MapLoads, Reqs
    <2>2. req' = [req EXCEPT ![r] = a] /\ UNCHANGED <<gen, entry>>
      BY <1>5 DEF MapWait, ApiInv, TypeOK
    <2>3. a \in Reqs /\ Sound(a, gen) /\ a.on = entry /\ a.key = q.key
      BY <1>2, <2>1
    <2> HIDE DEF a
    <2>4. QED
      BY <1>3, <1>4, <2>1, <2>2, <2>3, OneRequest
  <1>6. CASE MapMiss(r)
    <2> DEFINE a == [q EXCEPT !.pc = "query", !.on = q.on]
    <2>1. req' = [req EXCEPT ![r] = a] /\ UNCHANGED gen /\ entry' = r
      BY <1>1, <1>6 DEF MapMiss, ApiInv, TypeOK, Reqs
    <2>2. a \in Reqs /\ Sound(a, gen) /\ a.cache = "map" /\ a.err = "none" /\ a.pc = "query"
      BY <1>1, <1>2 DEF Reqs
    <2> HIDE DEF a
    <2>3. LoadsMap(a)
      BY <2>2 DEF LoadsMap
    <2>4. QED
      BY <1>3, <1>4, <2>1, <2>2, <2>3, OneRequest
  <1>7. QED
    BY <1>5, <1>6

\* The load of the map returns.
LEMMA MapInsertStep ==
  ASSUME ApiInv, NEW r \in Requests, MapInsert(r)
  PROVE  ApiInv'
  <1> DEFINE q == req[r]  v == IF q.err = "none" THEN q.val ELSE NoBody  a == Answer(q, q.err, v)
  <1>1. q \in Reqs /\ Sound(q, gen) /\ gen \in Nat /\ q.pc = "insert" /\ q.cache = "map"
    BY DEF ApiInv, TypeOK, RequestsSound, MapInsert
  <1>2. v \in Bodies /\ q.err \in Errors /\ q.kind = "map"
    BY <1>1, BodyTypes, Fields DEF Reqs, Sound, AtItsCache
  <1>3. /\ q.err = "none" => Between(v, q.key, gen)
        /\ q.err = "cancelled" => ~q.up
    BY <1>1 DEF Sound, HasFresh, OwnError
  <1>4. req' = [req EXCEPT ![r] = a] /\ UNCHANGED <<gen, items, pending>> /\ entry' \in {entry, None}
    BY DEF MapInsert, FailedEntry
  <1> HIDE DEF v
  <1>5. a \in Reqs /\ Sound(a, gen)
    BY <1>1, <1>2, <1>3, AnswerSound DEF Loading
  <1>6. a.pc = "done" /\ a.cache = q.cache /\ a.err = q.err /\ a.key = q.key
    BY <1>1 DEF Answer, Reqs
  <1>7. pending' \in [LruCaches -> SUBSET [key: Nat, by: Requests]]
        /\ items' \in [LruCaches -> Seq(Items(gen))]
    BY <1>4 DEF ApiInv, TypeOK, CachesFresh
  <1> HIDE DEF a
  <1>8. LoadsMap(q) => LoadsMap(a)
    BY <1>6 DEF LoadsMap
  <1>9. QED
    BY <1>4, <1>5, <1>6, <1>7, <1>8, OneRequest

\* Who waited for the map has what its load has.
LEMMA MapReadyStep ==
  ASSUME ApiInv, NEW r \in Requests, MapReady(r)
  PROVE  ApiInv'
  <1> DEFINE q == req[r]  o == req[q.on]  a == Answer(q, o.err, o.val)
  <1>1. /\ q \in Reqs /\ Sound(q, gen) /\ gen \in Nat /\ q.pc = "wait" /\ q.cache = "map"
        /\ q.on \in Requests /\ LoadsMap(o) /\ q.key <= o.key
    BY DEF ApiInv, TypeOK, RequestsSound, MapLoads, MapReady
  <1>2. o \in Reqs /\ Sound(o, gen) /\ o.pc = "done" /\ o.err # "cancelled"
    BY <1>1 DEF ApiInv, TypeOK, RequestsSound, MapReady, LoadsMap
  <1>3. o.val \in Bodies /\ o.err \in Errors /\ q.kind = "map"
    BY <1>1, <1>2 DEF Reqs, Sound, AtItsCache
  <1>4. o.err = "none" => Between(o.val, q.key, gen)
    <2>1. o.val.gen \in Int /\ o.key \in Int /\ q.key \in Int
      BY <1>1, <1>2, Fields
    <2>2. o.err = "none" => Between(o.val, o.key, gen)
      BY <1>2 DEF Sound, HasFresh
    <2>3. QED
      BY <1>1, <2>1, <2>2 DEF Between
  <1>5. req' = [req EXCEPT ![r] = a] /\ UNCHANGED <<gen, items, pending, entry>>
    BY DEF MapReady
  <1>6. a \in Reqs /\ Sound(a, gen)
    BY <1>1, <1>2, <1>3, <1>4, AnswerSound DEF Loading
  <1>7. a.pc = "done" /\ ~LoadsMap(q)
    BY <1>1 DEF Answer, Reqs, LoadsMap
  <1> HIDE DEF a
  <1>8. QED
    BY <1>5, <1>6, <1>7, OnlyRequest

\* Who waits leaves with its client.
LEMMA WaitCancelledStep ==
  ASSUME ApiInv, NEW r \in Requests, WaitCancelled(r)
  PROVE  ApiInv'
  <1> DEFINE q == req[r]  a == Returned(q, "cancelled", NoBody)
  <1>1. q \in Reqs /\ Sound(q, gen) /\ gen \in Nat /\ q.pc = "wait" /\ ~q.up
    BY DEF ApiInv, TypeOK, RequestsSound, WaitCancelled
  <1>2. req' = [req EXCEPT ![r] = a] /\ UNCHANGED <<gen, items, pending, entry>>
    BY DEF WaitCancelled
  <1>3. a \in Reqs /\ Sound(a, gen) /\ a.pc # "wait" /\ ~LoadsMap(q)
    BY <1>1, BodyTypes, ReturnedSound, NotWaiting DEF Loading, Errors, LoadsMap
  <1> HIDE DEF a
  <1>4. QED
    BY <1>2, <1>3, OnlyRequest

\* A load returns: its body is cached, its waiters go on.
LEMMA LruInsertStep ==
  ASSUME ApiInv, NEW r \in Requests, LruInsert(r)
  PROVE  ApiInv'
  <1> DEFINE q == req[r]  c == q.cache
  <1>1. /\ q \in Reqs /\ Sound(q, gen) /\ gen \in Nat /\ q.pc = "insert" /\ c \in LruCaches
        /\ q.err \in Errors /\ q.val \in Bodies
    BY DEF ApiInv, TypeOK, RequestsSound, LruInsert, Reqs
  <1>2. UNCHANGED <<gen, entry>>
    BY DEF LruInsert
  <1>3. Returned(q, q.err, q.val) \in Reqs /\ Sound(Returned(q, q.err, q.val), gen)
        /\ Returned(q, q.err, q.val).pc # "wait"
    <2>1. /\ q.err = "none" => Between(q.val, q.key, gen)
          /\ q.err = "cancelled" => ~q.up
      BY <1>1 DEF Sound, HasFresh, OwnError
    <2>2. QED
      BY <1>1, <2>1, ReturnedSound, NotWaiting DEF Loading
  <1>4. \A x \in Requests : req[x].pc = "wait" =>
          /\ Resumed(req[x], q.err) \in Reqs /\ Sound(Resumed(req[x], q.err), gen)
          /\ Resumed(req[x], q.err).pc # "wait"
    BY <1>1, ResumedSound, NotWaiting DEF ApiInv, TypeOK, RequestsSound
  <1>5. ASSUME NEW x \in Requests
        PROVE  \/ x = r /\ req'[x] = Returned(q, q.err, q.val)
               \/ req[x].pc = "wait" /\ req[x].cache = c /\ req'[x] = Resumed(req[x], q.err)
               \/ x # r /\ req'[x] = req[x]
    BY DEF LruInsert
  <1>6. req' \in [Requests -> Reqs]
    <2>1. DOMAIN req' = Requests /\ req' = [x \in Requests |-> req'[x]]
      BY DEF LruInsert
    <2>2. \A x \in Requests : req'[x] \in Reqs
      BY <1>3, <1>4, <1>5 DEF ApiInv, TypeOK
    <2>3. QED
      BY <2>1, <2>2
  <1>7. RequestsSound'
    BY <1>2, <1>3, <1>4, <1>5 DEF ApiInv, RequestsSound
  <1>8. LoadKey(q) \in Nat
    BY <1>1, Fields DEF LoadKey, Sound, Keeps, Reqs
  <1>9. TypeOK'
    <2>1. pending' \in [LruCaches -> SUBSET [key: Nat, by: Requests]]
      BY <1>1 DEF LruInsert, ApiInv, TypeOK
    <2>2. QED
      BY <1>2, <1>6, <2>1 DEF ApiInv, TypeOK
  <1>10. CachesFresh'
    <2> DEFINE x == [key |-> LoadKey(q), val |-> q.val]  all == <<x>> \o items[c]
    <2>1. items \in [LruCaches -> Seq(Items(gen))] /\ items[c] \in Seq(Items(gen))
      BY <1>1 DEF ApiInv, CachesFresh
    <2>2. CASE q.err # "none"
      <3>1. items' = items
        BY <2>2 DEF LruInsert
      <3>2. QED
        BY <1>2, <2>1, <3>1 DEF CachesFresh, Items
    <2>3. CASE q.err = "none"
      <3>1. Between(q.val, LoadKey(q), gen)
        <4>1. Between(q.val, q.key, gen) /\ q.seen <= q.key
          BY <1>1, <2>3 DEF Sound, HasFresh, Keeps
        <4>2. q.val.gen \in Int /\ q.key \in Int /\ q.seen \in Nat
          BY <1>1, Fields
        <4>3. QED
          BY <4>1, <4>2 DEF LoadKey, Between
      <3>2. x \in Items(gen)
        BY <1>1, <1>8, <3>1 DEF Items
      <3> HIDE DEF x
      <3>3. all \in Seq(Items(gen)) /\ (Len(all) > 1 => Front(all) \in Seq(Items(gen)))
        BY <2>1, <3>2, EntryMoves
      <3>4. Len(all) \in Nat /\ (Len(all) > Capacity => Len(all) > 1)
        BY <3>3, LenProperties, ApiAssumption
      <3>5. items' = [items EXCEPT ![c] = IF Len(all) > Capacity THEN Front(all) ELSE all]
        BY <2>3 DEF LruInsert, x
      <3> HIDE DEF all
      <3>6. items' \in [LruCaches -> Seq(Items(gen))]
        BY <1>1, <2>1, <3>3, <3>4, <3>5
      <3>7. QED
        BY <1>2, <3>6 DEF CachesFresh, Items
    <2>4. QED
      BY <2>2, <2>3
  <1>11. MapLoads'
    <2>1. c # "map"
      BY <1>1 DEF LruCaches
    <2>2. \A x \in Requests : LoadsMap(req[x]) => req'[x] = req[x]
      BY <1>5, <2>1 DEF LoadsMap
    <2>3. \A x \in Requests : req'[x].pc = "wait" => req'[x] = req[x]
      BY <1>3, <1>4, <1>5
    <2>4. entry' # None => LoadsMap(req'[entry'])
      BY <1>2, <2>2 DEF ApiInv, TypeOK, MapLoads
    <2>5. ASSUME NEW x \in Requests, req'[x].pc = "wait", req'[x].cache = "map"
          PROVE  /\ req'[x].on \in Requests /\ LoadsMap(req'[req'[x].on])
                 /\ req'[x].key <= req'[req'[x].on].key
      BY <2>2, <2>3, <2>5 DEF ApiInv, MapLoads
    <2>6. QED
      BY <2>4, <2>5 DEF MapLoads, LoadsMap
  <1>12. QED
    BY <1>7, <1>9, <1>10, <1>11 DEF ApiInv

-----------------------------------------------------------------------------
(* The theorems *)

LEMMA InvNext == ApiInv /\ [ApiNext]_apiVars => ApiInv'
  <1> SUFFICES ASSUME ApiInv, [ApiNext]_apiVars PROVE ApiInv'
    OBVIOUS
  <1>1. CASE UNCHANGED apiVars
    BY <1>1 DEF apiVars, ApiInv, TypeOK, CachesFresh, RequestsSound, MapLoads, LoadsMap, Items
  <1>2. CASE Refreshed
    BY <1>2, RefreshedStep
  <1>3. ASSUME NEW r \in Requests, Arrive(r) \/ Step(r) \/ Disconnect(r)
        PROVE  ApiInv'
    BY <1>3, KeyingSteps, LruHitStep, LruMissSteps, LruInsertStep, QuerySteps, MapEnterSteps,
      MapInsertStep, MapReadyStep, WaitCancelledStep, DisconnectStep DEF Step
  <1>4. QED
    BY <1>1, <1>2, <1>3 DEF ApiNext

\* What the caches hold and what each request has in hand is never older than the
\* key it is held under (lru.load, mapCache.load, loadStats).
THEOREM CachesSound == ApiSpec => []ApiInv
  BY InitInv, InvNext, PTL DEF ApiSpec

\* No response is computed from a table older than the one that was served when
\* its request arrived.
THEOREM ResponsesFresh == ApiSpec => []ResponseFresh
  <1>1. ApiInv => ResponseFresh
    <2> SUFFICES ASSUME ApiInv, NEW r \in Requests, Served(r)
                 PROVE  req[r].val.gen \in req[r].seen..gen
      BY DEF ResponseFresh
    <2>1. req[r] \in Reqs /\ Sound(req[r], gen) /\ gen \in Nat
      BY DEF ApiInv, TypeOK, RequestsSound
    <2>2. Between(req[r].val, req[r].key, gen) /\ req[r].seen <= req[r].key
      BY <2>1 DEF Served, Sound, HasFresh, Keeps
    <2>3. QED
      BY <2>1, <2>2, Fields DEF Between
  <1>2. QED
    BY <1>1, CachesSound, PTL

\* loadStats leaves the breakdown out only after a refresh landed in each attempt.
THEOREM BreakdownLostOnlyToRefreshes == ApiSpec => []BreakdownKept
  <1>1. ApiInv => BreakdownKept
    <2> SUFFICES ASSUME ApiInv, NEW r \in Requests, Served(r), req[r].kind = "stats",
                        ~req[r].val.full
                 PROVE  gen >= req[r].seen + StableAttempts
      BY DEF BreakdownKept
    <2>1. req[r] \in Reqs /\ Sound(req[r], gen) /\ gen \in Nat
      BY DEF ApiInv, TypeOK, RequestsSound
    <2>2. req[r].seen + StableAttempts <= gen
      BY <2>1 DEF Served, Sound, HasFresh
    <2>3. QED
      BY <2>1, <2>2, Fields, ApiAssumption
  <1>2. QED
    BY <1>1, CachesSound, PTL

\* Only a client that has left is answered with a cancellation.
THEOREM CancellationsStay == ApiSpec => []NoInheritedCancel
  <1>1. ApiInv => NoInheritedCancel
    BY DEF ApiInv, RequestsSound, Sound, OwnError, NoInheritedCancel
  <1>2. QED
    BY <1>1, CachesSound, PTL
===============================================================================
