----------------------------- MODULE SnapshotFeed -----------------------------
(***************************************************************************)
(* What the crawler and the API together promise the readers of the map:   *)
(* a feed of snapshots, each newer than the one it replaces, and a view    *)
(* that shows one committed snapshot at a time and never goes back.        *)
(***************************************************************************)
EXTENDS Integers

CONSTANT Snapshots   \* snapshots, ordered by their field gen
CONSTANT Nothing     \* what is shown before the first one, with gen = 0

VARIABLES
  current,  \* the newest committed snapshot
  history,  \* every snapshot ever committed
  shown     \* the snapshot the API answers from

feedVars == <<current, history, shown>>

Init == current = Nothing /\ history = {} /\ shown = Nothing

Publish ==
  /\ current' \in Snapshots
  /\ current'.gen > current.gen
  /\ history' = history \cup {current'}
  /\ UNCHANGED shown

Show ==
  /\ \E m \in history :
       /\ m.gen > shown.gen
       /\ shown' = m
  /\ UNCHANGED <<current, history>>

Next == Publish \/ Show

Spec == Init /\ [][Next]_feedVars
===============================================================================
