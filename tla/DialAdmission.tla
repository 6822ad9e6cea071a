---------------------------- MODULE DialAdmission ----------------------------
(***************************************************************************)
(* Who may be dialled (cmd/crawler: enqueueLegacyFingerprint and           *)
(* targetDialBudget).  Workers that sight a node without a usable record   *)
(* reserve its window in an expiring map, ask the budget of its address    *)
(* and then the queue, each under a lock of its own and all with one       *)
(* reading of the clock; either may refuse, and then the window is given   *)
(* back.  The budget is a bounded table of token buckets.  Dials of        *)
(* claimed fingerprints spend the same budget.                             *)
(*                                                                         *)
(* The address of a node is named after the node; other nodes may have it  *)
(* too.  The other expiring maps of the crawler are called in any order:   *)
(* use says whether this one is legacyAttempted.                           *)
(***************************************************************************)
EXTENDS ExpiringMap

CONSTANTS
  Workers,    \* goroutines that sight nodes
  Cost,       \* how long a token takes to come: one over rate
  Burst,      \* burst
  Limit,      \* limit of the table of limiters
  BudgetTTL,  \* ttl of the table
  MaxOthers   \* bound: dials of claimed fingerprints

\* A limiter, its tokens in the time they took to come, and when it was last asked;
\* and a call of enqueueLegacyFingerprint.
Limiters == [tokens: Nat, last: Nat, seen: Nat]
CallRecords ==
  [id: Ids, now: Nat, pc: {"window", "budget", "queue", "release"}, seq: Nat]

\* A bucket is full again before its entry may be dropped, and a call does not
\* wait longer for its lock than a token takes.
ASSUME BudgetAssumption ==
  /\ Burst \in Nat \ {0} /\ Limit \in Nat \ {0} /\ MaxOthers \in Nat
  /\ Cost \in Nat /\ Lag < Cost
  /\ BudgetTTL \in Nat /\ Burst * Cost + Lag <= BudgetTTL
  /\ NoEntry \notin Limiters /\ NoEntry \notin CallRecords

VARIABLES
  use,      \* "legacy": the map is legacyAttempted; "any": one of the others
  calls,    \* per worker: the call under way, or NoEntry
  budget,   \* per address: its limiter and when it was last asked, or NoEntry
  others,   \* dials of claimed fingerprints so far
  spent,    \* history: the reservations under which a dial was queued
  used      \* history, per address: a bucket that is never dropped, filled by the
            \* dials the budget allows and drained by the clock, in half units

dialVars == <<calls, budget, others, spent, used>>

DialInit ==
  /\ Init
  /\ use \in {"legacy", "any"}
  /\ calls = [w \in Workers |-> NoEntry] /\ others = 0
  /\ budget = [a \in Ids |-> NoEntry]
  /\ spent = {} /\ used = [a \in Ids |-> 0]

\* A call takes no longer than Lag.
Pass ==
  /\ Tick
  /\ \A w \in Workers : calls[w] # NoEntry => clock < calls[w].now + Lag
  /\ used' = [a \in Ids |-> IF used[a] > 2 THEN used[a] - 2 ELSE 0]
  /\ UNCHANGED <<use, calls, budget, others, spent>>

\* The calls of other maps.
AnyCall == use = "any" /\ Calls /\ UNCHANGED <<use, dialVars>>

-----------------------------------------------------------------------------
(* targetDialBudget.Allow *)

InTable(table) == {a \in Ids : table[a] # NoEntry}

\* Mutant: the age of an entry is not looked at.
SweptAll(a, now) ==
  IF budget[a] = NoEntry /\ Cardinality(InTable(budget)) >= Limit THEN [b \in Ids |-> NoEntry] ELSE budget

\* An address that is not in a full table has the entries dropped that nobody
\* asked about for the ttl.
Swept(a, now) ==
  IF budget[a] = NoEntry /\ Cardinality(InTable(budget)) >= Limit
    THEN [b \in Ids |-> IF budget[b] # NoEntry /\ now - budget[b].seen >= BudgetTTL
                          THEN NoEntry ELSE budget[b]]
    ELSE budget

Refused(a, table) == table[a] = NoEntry /\ Cardinality(InTable(table)) >= Limit

Limiter(a, table) ==
  IF table[a] = NoEntry THEN [tokens |-> Burst * Cost, last |-> 0, seen |-> 0] ELSE table[a]

\* rate.Limiter: what the bucket holds at now.  A reading before the last one
\* adds nothing.
Tokens(l, now) ==
  LET filled == l.tokens + (IF now > l.last THEN now - l.last ELSE 0)
  IN  IF filled > Burst * Cost THEN Burst * Cost ELSE filled

\* AllowN(now, 1): a token, if there is a whole one.
Spend(l, now) == [l EXCEPT !.tokens = Tokens(l, now) - Cost, !.last = now, !.seen = now]

Asked(l, now) == [l EXCEPT !.seen = now]

BudgetAllows(a, now) ==
  LET table == Swept(a, now)
      l == Limiter(a, table)
  IN  /\ ~Refused(a, table) /\ Tokens(l, now) >= Cost
      /\ budget' = [table EXCEPT ![a] = Spend(l, now)]
      /\ used' = [used EXCEPT ![a] = @ + 2 * Cost - Lag]

BudgetRefuses(a, now) ==
  LET table == Swept(a, now)
      l == Limiter(a, table)
  IN  /\ \/ /\ Refused(a, table)
            /\ budget' = table
         \/ /\ ~Refused(a, table) /\ Tokens(l, now) < Cost
            /\ budget' = [table EXCEPT ![a] = Asked(l, now)]
      /\ UNCHANGED used

-----------------------------------------------------------------------------
(* enqueueLegacyFingerprint *)

At(w, pc) == calls[w] # NoEntry /\ calls[w].pc = pc

To(w, pc) == calls' = [calls EXCEPT ![w].pc = pc]
Returns(w) == calls' = [calls EXCEPT ![w] = NoEntry]

\* The clock is read, the node stored in pendingLegacy, which is another map, and
\* the queue is not under pressure.
Sight(w, id) ==
  /\ use = "legacy" /\ calls[w] = NoEntry
  /\ calls' = [calls EXCEPT ![w] = [id |-> id, now |-> clock, pc |-> "window", seq |-> 0]]
  /\ UNCHANGED <<use, mapVars, budget, others, spent, used>>

WindowGranted(w, v) ==
  /\ At(w, "window")
  /\ AllowGranted(calls[w].id, v, calls[w].now)
  /\ calls' = [calls EXCEPT ![w].pc = "budget", ![w].seq = seq + 1]
  /\ UNCHANGED <<use, budget, others, spent, used>>

WindowRefused(w) ==
  /\ At(w, "window")
  /\ AllowRefused(calls[w].id, calls[w].now)
  /\ Returns(w)
  /\ UNCHANGED <<use, budget, others, spent, used>>

TargetAllowed(w) ==
  /\ At(w, "budget")
  /\ BudgetAllows(calls[w].id, calls[w].now)
  /\ To(w, "queue")
  /\ UNCHANGED <<use, mapVars, others, spent>>

\* Mutant: the window stays reserved when the budget refuses.
TargetRefusedKept(w) ==
  /\ At(w, "budget")
  /\ BudgetRefuses(calls[w].id, calls[w].now)
  /\ Returns(w)
  /\ UNCHANGED <<use, mapVars, others, spent>>

TargetRefused(w) ==
  /\ At(w, "budget")
  /\ BudgetRefuses(calls[w].id, calls[w].now)
  /\ To(w, "release")
  /\ UNCHANGED <<use, mapVars, others, spent>>

Queued(w) ==
  /\ At(w, "queue")
  /\ spent' = spent \cup {calls[w].seq}
  /\ Returns(w)
  /\ UNCHANGED <<use, mapVars, budget, others, used>>

QueueFull(w) ==
  /\ At(w, "queue")
  /\ To(w, "release")
  /\ UNCHANGED <<use, mapVars, budget, others, spent, used>>

Release(w) ==
  /\ At(w, "release")
  /\ Take({calls[w].id}, calls[w].now)
  /\ Returns(w)
  /\ UNCHANGED <<use, budget, others, spent, used>>

\* enqueueFingerprint asks the budget for a claimed node of the address.
ClaimedDial(a, now) ==
  /\ use = "legacy" /\ others < MaxOthers /\ others' = others + 1
  /\ BudgetAllows(a, now) \/ BudgetRefuses(a, now)
  /\ UNCHANGED <<use, mapVars, calls, spent>>

DialNext ==
  \/ Pass \/ AnyCall
  \/ \E w \in Workers :
       \/ \E id \in Ids : Sight(w, id)
       \/ \E v \in Values : WindowGranted(w, v)
       \/ WindowRefused(w) \/ TargetAllowed(w) \/ TargetRefused(w)
       \/ Queued(w) \/ QueueFull(w) \/ Release(w)
  \/ \E a \in Ids, now \in Readings : ClaimedDial(a, now)

DialSpec == DialInit /\ [][DialNext]_<<use, mapVars, dialVars>>

-----------------------------------------------------------------------------
(* Properties *)

\* "only a dial actually spends the window": a reservation that stands is that of
\* a queued dial or of a worker that has yet to decide, so that a node which the
\* budget or the queue turned away is not locked out for the whole window.
OnlyDialsSpend ==
  use = "legacy" =>
    \A id \in Held(entries) :
      \/ entries[id].seq \in spent
      \/ \E w \in Workers : /\ calls[w] # NoEntry /\ calls[w].id = id
                            /\ calls[w].seq = entries[id].seq

\* "maximum active fingerprint dials per second to one IPv4 address": in no span of
\* time are there more dials of an address than its bucket holds and the span
\* refills, although entries are dropped from the table and come back full and
\* calls carry readings out of order: every other dial gains at most Lag by that.
BudgetHonoured == \A a \in Ids : used[a] <= 2 * Burst * Cost
==============================================================================
