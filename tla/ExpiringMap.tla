----------------------------- MODULE ExpiringMap -----------------------------
(***************************************************************************)
(* expiringMap (cmd/crawler/pending_fingerprints.go): a bounded map whose  *)
(* entries expire, with a heap of expiry items that is cleaned lazily: an  *)
(* entry that is replaced or taken leaves its item behind, and an item     *)
(* counts only while its sequence number is that of the entry.  Callers    *)
(* read the clock before they take the lock, so the time of a call may lie *)
(* up to Lag behind, and calls are not ordered by their times.             *)
(***************************************************************************)
EXTENDS Integers, FiniteSets

CONSTANTS
  Ids,       \* node ids
  Values,    \* what is stored for an id
  NoEntry,   \* the absent entry
  TTL,       \* ttl
  Max,       \* max
  Lag,       \* how long a caller may wait between clock reading and lock
  MaxClock,  \* bound: the clock
  MaxSeq     \* bound: calls that store

ASSUME MapAssumption ==
  /\ IsFiniteSet(Ids) /\ Values # {} /\ NoEntry \notin [value: Values, at: Nat]
  /\ NoEntry \notin [value: Values, at: Nat, seq: Nat]
  /\ TTL \in Nat \ {0} /\ Max \in Nat \ {0} /\ Lag \in Nat
  /\ MaxClock \in Nat /\ MaxSeq \in Nat

VARIABLES
  clock,    \* the wall clock
  entries,  \* p.entries, NoEntry where there is none
  expiry,   \* p.expiry: the items of the heap
  seq,      \* p.seq
  answer,   \* the ids the last call granted or took
  granted   \* history, per id: when Allow last granted it and nothing since
            \* gave the reservation up, or -1

mapVars == <<clock, entries, expiry, seq, answer, granted>>

Init ==
  /\ clock = 0 /\ seq = 0
  /\ entries = [id \in Ids |-> NoEntry]
  /\ expiry = {}
  /\ answer = {}
  /\ granted = [id \in Ids |-> -1]

Tick ==
  /\ clock < MaxClock
  /\ clock' = clock + 1
  /\ UNCHANGED <<entries, expiry, seq, answer, granted>>

\* The times a call may carry.
Readings == {t \in 0..clock : clock - Lag <= t}

Held(es) == {id \in Ids : es[id] # NoEntry}

\* Mutant: the item of a replaced entry counts too.
MatchesId(es, item) == es[item.id] # NoEntry

Matches(es, item) == es[item.id] # NoEntry /\ es[item.id].seq = item.seq

-----------------------------------------------------------------------------
(* prune: pop every item whose window has passed. *)

Passed(t) == {item \in expiry : item.at + TTL <= t}

Pruned(t) ==
  [id \in Ids |->
     IF \E item \in Passed(t) : item.id = id /\ Matches(entries, item)
       THEN NoEntry ELSE entries[id]]

Left(t) == expiry \ Passed(t)

-----------------------------------------------------------------------------
(* putLocked *)

\* evictOldest: items are popped, oldest first and in any order among equals,
\* until one of a present entry was popped.
Evicted(es, heap) ==
  LET present == {item \in heap : Matches(es, item)}
      oldest == {item \in present : \A other \in present : item.at <= other.at}
  IN IF present = {} THEN {[es |-> es, heap |-> {}]}
     ELSE UNION {{[es |-> [es EXCEPT ![item.id] = NoEntry],
                   heap |-> {other \in heap :
                               other.at >= item.at /\ other # item} \ popped] :
                    popped \in SUBSET {other \in heap \ present : other.at = item.at}} :
                   item \in oldest}

Room(es, heap, id) ==
  IF es[id] = NoEntry /\ Cardinality(Held(es)) >= Max
    THEN Evicted(es, heap) ELSE {[es |-> es, heap |-> heap]}

ItemOf(id, e) == [id |-> id, at |-> e.at, seq |-> e.seq]

\* compact: the items of the present entries, and no others.
Compacted(es) == {ItemOf(id, es[id]) : id \in Held(es)}

PutLocked(id, v, t, room) ==
  LET e == [value |-> v, at |-> t, seq |-> seq + 1]
      es == [room.es EXCEPT ![id] = e]
      heap == room.heap \cup {ItemOf(id, e)}
  IN /\ seq' = seq + 1
     /\ entries' = es
     /\ expiry' = IF Cardinality(heap) > 2 * Max THEN Compacted(es) ELSE heap

\* The ids of S are no longer reserved.
GivenUp(S) == [id \in Ids |-> IF id \in S THEN -1 ELSE granted[id]]

-----------------------------------------------------------------------------
(* The calls *)

Put(id, v, t) ==
  /\ seq < MaxSeq
  /\ \E room \in Room(Pruned(t), Left(t), id) :
       /\ PutLocked(id, v, t, room)
       /\ granted' = GivenUp(Held(Pruned(t)) \ Held(room.es))
  /\ answer' = {}
  /\ UNCHANGED clock

AllowGranted(id, v, t) ==
  /\ seq < MaxSeq
  /\ Pruned(t)[id] = NoEntry
  /\ \E room \in Room(Pruned(t), Left(t), id) :
       /\ PutLocked(id, v, t, room)
       /\ granted' = [GivenUp(Held(Pruned(t)) \ Held(room.es)) EXCEPT ![id] = clock]
  /\ answer' = {id}
  /\ UNCHANGED clock

AllowRefused(id, t) ==
  /\ Pruned(t)[id] # NoEntry
  /\ entries' = Pruned(t) /\ expiry' = Left(t)
  /\ answer' = {}
  /\ UNCHANGED <<clock, seq, granted>>

\* Take, TakeIf and Drain: S are the ids asked for whose value is accepted.
Take(S, t) ==
  /\ entries' = [id \in Ids |-> IF id \in S THEN NoEntry ELSE Pruned(t)[id]]
  /\ expiry' = Left(t)
  /\ answer' = {id \in S : Pruned(t)[id] # NoEntry}
  /\ granted' = GivenUp({id \in S : Pruned(t)[id] # NoEntry})
  /\ UNCHANGED <<clock, seq>>

Calls ==
  \E t \in Readings :
    \/ \E id \in Ids, v \in Values : Put(id, v, t) \/ AllowGranted(id, v, t)
    \/ \E id \in Ids : AllowRefused(id, t)
    \/ \E S \in SUBSET Ids : Take(S, t)

Next == Tick \/ Calls

Spec == Init /\ [][Next]_mapVars

-----------------------------------------------------------------------------
(* Properties *)

EntryRecords == [value: Values, at: Nat, seq: Nat]
Items == [id: Ids, at: Nat, seq: Nat]

\* Every variable keeps its type, and neither the map nor its heap outgrows its
\* bound: the lazily cleaned heap holds at most twice what the map may hold.
MapTypeOK ==
  /\ clock \in Nat /\ seq \in Nat
  /\ entries \in [Ids -> EntryRecords \cup {NoEntry}]
  /\ expiry \in SUBSET Items /\ IsFiniteSet(expiry)
  /\ answer \in SUBSET Ids /\ granted \in [Ids -> Nat \cup {-1}]
  /\ Cardinality(Held(entries)) <= Max
  /\ Cardinality(expiry) <= 2 * Max

\* Every entry has its item in the heap: an entry without one would never
\* expire and never be evicted, whatever was replaced, taken or compacted.
HeapCovers ==
  \A id \in Held(entries) : ItemOf(id, entries[id]) \in expiry

\* A call stored an entry and granted id: an Allow.
Grants(id) == seq' # seq /\ id \in answer'

\* Allow "reserves id for one ttl window": unless the reservation was taken
\* back or evicted, the next grant comes no sooner than one window later, less
\* the time callers spend between the clock and the lock.
GrantsSpaced ==
  [][\A id \in Ids :
       Grants(id) /\ granted[id] # -1 => clock >= granted[id] + TTL - Lag]_mapVars

ValueOf(e) == IF e = NoEntry THEN NoEntry ELSE [value |-> e.value, at |-> e.at]

Abstract == INSTANCE TtlMap
              WITH NoValue <- NoEntry, Times <- 0..MaxClock,
                   held <- [id \in Ids |-> ValueOf(entries[id])]

\* The heap, its stale items and its compaction are invisible: the map behaves
\* as the plain map of values with their times.
ImplementsTtlMap == Abstract!Spec
==============================================================================
