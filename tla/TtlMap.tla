------------------------------- MODULE TtlMap -------------------------------
(***************************************************************************)
(* What an expiring map of the crawler promises (pending fingerprints,     *)
(* pending legacy nodes, resolve and dial attempts): at most Max values,   *)
(* each for one window of length TTL, the oldest giving way when the map   *)
(* is full.  No heap, no sequence numbers.                                 *)
(***************************************************************************)
EXTENDS Integers, FiniteSets

CONSTANTS Ids, Values, NoValue, TTL, Max,
  Times  \* the times a call may carry

VARIABLES
  held,   \* per id: NoValue, or the value and the time it was put
  answer  \* the ids the last call granted or took

ttlVars == <<held, answer>>

Init == held = [id \in Ids |-> NoValue] /\ answer = {}

Alive(h, t) ==
  [id \in Ids |-> IF h[id] # NoValue /\ h[id].at + TTL <= t THEN NoValue ELSE h[id]]

Present(h) == {id \in Ids : h[id] # NoValue}

\* The maps that result from storing a value: as it is when there is room,
\* without one of the oldest values otherwise.
MadeRoom(h, id) ==
  IF h[id] # NoValue \/ Cardinality(Present(h)) < Max THEN {h}
  ELSE {[h EXCEPT ![v] = NoValue] :
          v \in {w \in Present(h) : \A u \in Present(h) : h[w].at <= h[u].at}}

Put(id, v, t) ==
  /\ \E h \in MadeRoom(Alive(held, t), id) :
       held' = [h EXCEPT ![id] = [value |-> v, at |-> t]]
  /\ answer' = {}

Allow(id, v, t) ==
  \/ /\ Alive(held, t)[id] = NoValue
     /\ \E h \in MadeRoom(Alive(held, t), id) :
          held' = [h EXCEPT ![id] = [value |-> v, at |-> t]]
     /\ answer' = {id}
  \/ /\ Alive(held, t)[id] # NoValue
     /\ held' = Alive(held, t)
     /\ answer' = {}

\* Take the values of the ids in S, all that are alive.
Take(S, t) ==
  /\ held' = [id \in Ids |-> IF id \in S THEN NoValue ELSE Alive(held, t)[id]]
  /\ answer' = {id \in S : Alive(held, t)[id] # NoValue}

Next ==
  \E t \in Times :
    \/ \E id \in Ids, v \in Values : Put(id, v, t) \/ Allow(id, v, t)
    \/ \E S \in SUBSET Ids : Take(S, t)

Spec == Init /\ [][Next]_ttlVars
=============================================================================
