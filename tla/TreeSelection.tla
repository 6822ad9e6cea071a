---------------------------- MODULE TreeSelection ----------------------------
(***************************************************************************)
(* pick (cmd/dnspublisher/select.go): which of the ranked candidates of a  *)
(* network a tree of limited size carries.  Some slots are reserved for    *)
(* IPv6, and balanceClients shares the others among the clients: one slot  *)
(* each, the rest in proportion to the candidates each client has, whole   *)
(* slots first and then one by one by the largest remainder.               *)
(*                                                                         *)
(* Clients are numbered in the order of their names, Unknown first (its    *)
(* name begins with "<").  Shares are exact fractions here; the code       *)
(* computes them in floating point, where fractions that are equal may     *)
(* come out either way, so that equal remainders are taken in any order.   *)
(***************************************************************************)
EXTENDS Integers, Sequences, FiniteSets, FiniteSetsExt, Functions

CONSTANTS
  Named,     \* the number of recognised clients
  MaxLen,    \* bound: candidates, when none is dialable over IPv6
  MaxMixed,  \* bound: candidates, when some are
  MaxLimit   \* bound: --limit

ASSUME SelectAssumption ==
  Named \in Nat /\ MaxLen \in Nat /\ MaxMixed \in Nat /\ MaxLimit \in Nat

Unknown == 0
AllClients == Unknown..Named

\* v6: not dialable over IPv6, dialable by the port of IPv4, or by its own.
Candidate(families) == [client: AllClients, v6: families]
Lists(families, max) == UNION {[1..n -> Candidate(families)] : n \in 0..max}

VARIABLES
  cands,     \* the candidates, best first
  limit,     \* opt.limit
  balanced,  \* opt.balance is proportional
  reserved,  \* the indices reserveIPv6 marked
  slots,     \* per client: slots among the candidates not reserved
  fracs,     \* the clients by decreasing remainder
  next,      \* the place in fracs
  picked,    \* the indices selected
  step

selVars == <<cands, limit, balanced, reserved, slots, fracs, next, picked, step>>
input == <<cands, limit, balanced>>

SelInit ==
  /\ cands \in Lists({"none"}, MaxLen) \cup Lists({"none", "shared", "own"}, MaxMixed)
  /\ limit \in 0..MaxLimit /\ balanced \in BOOLEAN
  /\ reserved = {} /\ picked = {} /\ fracs = <<>> /\ next = 0
  /\ slots = [c \in AllClients |-> 0]
  /\ step = "reserve"

All == 1..Len(cands)

-----------------------------------------------------------------------------
(* reserveIPv6 *)

Dialable == {i \in All : cands[i].v6 # "none"}

\* math.Round of limit * dialable / all, for positive numbers.
Rounded(a, b) == (2 * a + b) \div (2 * b)

Want ==
  LET share == Rounded(limit * Cardinality(Dialable), Len(cands))
  IN Min({Max({share, 1}), Cardinality(Dialable), limit})

\* i is before j: records with a port of their own first.
BeforeV6(i, j) ==
  \/ cands[i].v6 = "own" /\ cands[j].v6 # "own"
  \/ cands[i].v6 = cands[j].v6 /\ i < j

Reserve ==
  /\ step = "reserve"
  /\ \/ /\ limit <= 0 \/ Len(cands) <= limit
        /\ picked' = All /\ step' = "done"
        /\ UNCHANGED reserved
     \/ /\ limit > 0 /\ Len(cands) > limit
        /\ reserved' = {j \in Dialable : Cardinality({i \in Dialable : BeforeV6(i, j)}) < Want}
        /\ step' = "fill"
        /\ UNCHANGED picked
  /\ UNCHANGED <<input, slots, fracs, next>>

-----------------------------------------------------------------------------
(* The slots that are free *)

Rest == All \ reserved
Room == limit - Cardinality(reserved)

\* The first n of the indices in S.
FirstOf(S, n) == {j \in S : Cardinality({i \in S : i < j}) < n}

\* mergeRanked
Merged(filled) == reserved \cup filled

\* Everything is reserved, the tree is not balanced, or all the rest fits.
FillRanked ==
  /\ step = "fill"
  /\ ~balanced \/ Room <= 0 \/ Cardinality(Rest) <= Room
  /\ picked' = Merged(FirstOf(Rest, Room))
  /\ step' = "done"
  /\ UNCHANGED <<input, reserved, slots, fracs, next>>

-----------------------------------------------------------------------------
(* balanceClients *)

Pool(c) == {i \in Rest : cands[i].client = c}
Size(c) == Cardinality(Pool(c))
InPool == {c \in AllClients : Pool(c) # {}}
Held(c) == \E i \in reserved : cands[i].client = c

\* order: the largest pool first, then by name.
Larger(c, d) == Size(c) > Size(d) \/ (Size(c) = Size(d) /\ c < d)

\* Mutant: the absence of a client is a client.
FloorsOfAll == {c \in InPool : ~Held(c)}

\* The clients that are owed a slot whatever their share.
Floors == {c \in InPool \ {Unknown} : ~Held(c)}

\* The slots after the floor loop.
Floored ==
  [c \in AllClients |->
     IF c \in Floors /\ Cardinality({d \in Floors : Larger(d, c)}) < Room THEN 1 ELSE 0]

Unfilled(s, c) == Size(c) - s[c]

\* The slots that f gives out, numbered for each client, and how many they are.
Seats(f) == UNION {{c} \X (1..f[c]) : c \in DOMAIN f}
Total(f) == Cardinality(Seats(f))

\* What remains after the floors, and the candidates it is shared among.
Remaining == Room - Total(Floored)
Free == Total([c \in AllClients |-> Unfilled(Floored, c)])

\* The whole slots of the client's share of what remains, and what is left of
\* the share, in parts of Free.
Whole(c) == Min({(Remaining * Unfilled(Floored, c)) \div Free, Unfilled(Floored, c)})
Left(c) == Remaining * Unfilled(Floored, c) - Whole(c) * Free

\* Whole shares of what remains, and the clients by what is left of the share.
Share ==
  /\ step = "fill"
  /\ balanced /\ Room > 0 /\ Cardinality(Rest) > Room
  /\ IF Free <= 0 \/ Remaining <= 0
       THEN slots' = Floored /\ fracs' = <<>>
       ELSE LET left == [c \in AllClients |-> Left(c)]
            IN /\ slots' = [c \in AllClients |-> Floored[c] + Whole(c)]
               /\ fracs' \in {q \in [1..Cardinality(InPool) -> InPool] :
                               /\ IsInjective(q)
                               /\ \A i, j \in DOMAIN q : i < j => left[q[i]] >= left[q[j]]}
  /\ next' = 1 /\ step' = "remainders"
  /\ UNCHANGED <<input, reserved, picked>>

\* The loop goes on: slots are left, and somebody to take them.
Unshared ==
  /\ Total(slots) < Room /\ fracs # <<>>
  /\ \E c \in InPool : slots[c] < Size(c)

\* Mutant: the loop does not move on.
HandOutFirst ==
  /\ step = "remainders" /\ Unshared
  /\ LET c == fracs[next]
     IN slots' = IF slots[c] < Size(c) THEN [slots EXCEPT ![c] = @ + 1] ELSE slots
  /\ next' = IF slots' = slots THEN (next % Len(fracs)) + 1 ELSE next
  /\ UNCHANGED <<input, reserved, fracs, picked, step>>

\* One turn of the loop: a slot for the next client that has a candidate left.
HandOut ==
  /\ step = "remainders" /\ Unshared
  /\ LET c == fracs[next]
     IN slots' = IF slots[c] < Size(c) THEN [slots EXCEPT ![c] = @ + 1] ELSE slots
  /\ next' = (next % Len(fracs)) + 1
  /\ UNCHANGED <<input, reserved, fracs, picked, step>>

\* Mutant: the remainders are not handed out.
FillWhole ==
  /\ step = "remainders"
  /\ picked' = Merged(UNION {FirstOf(Pool(c), slots[c]) : c \in AllClients})
  /\ step' = "done"
  /\ UNCHANGED <<input, reserved, slots, fracs, next>>

Fill ==
  /\ step = "remainders" /\ ~Unshared
  /\ picked' = Merged(UNION {FirstOf(Pool(c), slots[c]) : c \in AllClients})
  /\ step' = "done"
  /\ UNCHANGED <<input, reserved, slots, fracs, next>>

-----------------------------------------------------------------------------

SelNext == Reserve \/ FillRanked \/ Share \/ HandOut \/ Fill

SelSpec == SelInit /\ [][SelNext]_selVars

-----------------------------------------------------------------------------
(* Properties *)

\* A tree carries as many nodes as it may: --limit if there are candidates
\* enough, however reservation, floors, shares and rounding fall out.
FillsTree ==
  step = "done" => Cardinality(picked) = IF limit = 0 THEN Len(cands) ELSE Min({limit, Len(cands)})

\* Nobody is left out: "Every identified client gets one slot", counting the ones
\* that IPv6 holds, as long as there are slots for all of them, and the family has
\* "never less than one slot".
EveryClientCarried ==
  LET clients == {cands[i].client : i \in All} \ {Unknown}
      held == {cands[i].client : i \in reserved}
  IN step = "done" =>
       /\ balanced /\ Cardinality(clients \ held) <= Room =>
            clients \subseteq {cands[i].client : i \in picked}
       /\ Dialable # {} => picked \cap Dialable # {}

\* "the rest are shared out in proportion": beyond its floor a client gets the
\* whole slots of its exact share, or one more, so that the loop over the
\* remainders never comes round to a client twice.
SharesWithinOne ==
  LET remaining == Room - Total(Floored)
      free == Cardinality(Rest) - Total(Floored)
  IN step = "done" /\ fracs # <<>> =>
       \A c \in InPool :
         LET extra == slots[c] - Floored[c]
         IN /\ extra * free > remaining * Unfilled(Floored, c) - free
            /\ extra * free < remaining * Unfilled(Floored, c) + free
==============================================================================
