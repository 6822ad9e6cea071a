------------------------- MODULE TreeSelectionProofs -------------------------
(***************************************************************************)
(* What a tree carries, for any list of candidates, any clients and any    *)
(* limit.  Sums over the clients are cardinalities of sets of seats, so    *)
(* that they add, scale and compare without induction over the clients.    *)
(* The invariant says how far the loop over the remainders has come: the   *)
(* first k of fracs have a slot more than their floor and whole share.     *)
(* The lemma Exhausted is the core: when no remainder is left to serve, no *)
(* slot is left either, so that the loop ends on its first way round.      *)
(***************************************************************************)
EXTENDS TreeSelection, FiniteSetTheorems, NaturalsInduction, TLAPS

-----------------------------------------------------------------------------
(* 1. Counting *)

LEMMA MinOfTwo ==
  ASSUME NEW a \in Int, NEW b \in Int
  PROVE  Min({a, b}) = IF a <= b THEN a ELSE b
BY DEF Min

\* A strict order of all the elements of S.
Orders(R, S) ==
  /\ \A x \in S : <<x, x>> \notin R
  /\ \A x, y \in S : x = y \/ <<x, y>> \in R \/ <<y, x>> \in R
  /\ \A x, y, z \in S : <<x, y>> \in R /\ <<y, z>> \in R => <<x, z>> \in R

\* The elements of S before x.
Preds(R, S, x) == {y \in S : <<y, x>> \in R}
Rank(R, S, x) == Cardinality(Preds(R, S, x))

LEMMA RankGrows ==
  ASSUME NEW S, IsFiniteSet(S), NEW R, Orders(R, S)
  PROVE  /\ \A x \in S : Rank(R, S, x) \in 0..(Cardinality(S) - 1)
         /\ \A x, y \in S : <<x, y>> \in R => Rank(R, S, x) < Rank(R, S, y)
<1>0. Cardinality(S) \in Nat
  BY FS_CardinalityType
<1>1. ASSUME NEW x \in S PROVE Rank(R, S, x) \in 0..(Cardinality(S) - 1)
  <2>1. Preds(R, S, x) \subseteq S \ {x}
    BY DEF Preds, Orders
  <2>2. IsFiniteSet(S \ {x}) /\ Cardinality(S \ {x}) = Cardinality(S) - 1
    BY FS_RemoveElement
  <2>3. Cardinality(Preds(R, S, x)) <= Cardinality(S \ {x}) /\ IsFiniteSet(Preds(R, S, x))
    BY <2>1, <2>2, FS_Subset
  <2>4. Cardinality(Preds(R, S, x)) \in Nat
    BY <2>3, FS_CardinalityType
  <2> QED BY <2>2, <2>3, <2>4, <1>0 DEF Rank
<1>2. ASSUME NEW x \in S, NEW y \in S, <<x, y>> \in R
      PROVE  Rank(R, S, x) < Rank(R, S, y)
  <2>1. /\ Preds(R, S, x) \subseteq Preds(R, S, y)
        /\ x \in Preds(R, S, y) /\ x \notin Preds(R, S, x)
    BY <1>2 DEF Preds, Orders
  <2>2. IsFiniteSet(Preds(R, S, y))
    BY FS_Subset DEF Preds
  <2>3. /\ Cardinality(Preds(R, S, x)) <= Cardinality(Preds(R, S, y))
        /\ Cardinality(Preds(R, S, x)) # Cardinality(Preds(R, S, y))
    <3>1. /\ Cardinality(Preds(R, S, x)) <= Cardinality(Preds(R, S, y))
          /\ Cardinality(Preds(R, S, y)) = Cardinality(Preds(R, S, x)) =>
               Preds(R, S, y) = Preds(R, S, x)
      BY <2>1, <2>2, FS_Subset
    <3> QED BY <3>1, <2>1
  <2> QED BY <2>3, <1>1, <1>0 DEF Rank
<1> QED BY <1>1, <1>2

\* Every place in the order is that of exactly one element.
LEMMA RankPlaces ==
  ASSUME NEW S, IsFiniteSet(S), NEW R, Orders(R, S)
  PROVE  /\ \A x, y \in S : Rank(R, S, x) = Rank(R, S, y) => x = y
         /\ \A k \in 0..(Cardinality(S) - 1) : \E x \in S : Rank(R, S, x) = k
<1>0. Cardinality(S) \in Nat
  BY FS_CardinalityType
<1>1. ASSUME NEW x \in S, NEW y \in S, Rank(R, S, x) = Rank(R, S, y) PROVE x = y
  <2>1. x = y \/ <<x, y>> \in R \/ <<y, x>> \in R
    BY DEF Orders
  <2>2. Rank(R, S, x) \in Int /\ Rank(R, S, y) \in Int
    BY RankGrows, <1>0
  <2> QED BY <2>1, <2>2, <1>1, RankGrows
<1> DEFINE f == [x \in S |-> Rank(R, S, x)]
           T == 0..(Cardinality(S) - 1)
<1>2. f \in Injection(S, T)
  <2>1. f \in [S -> T]
    BY RankGrows
  <2> QED BY <2>1, <1>1 DEF Injection, IsInjective
<1>3. IsFiniteSet(T) /\ Cardinality(T) = Cardinality(S)
  BY <1>0, FS_Interval, SMTT(30)
<1>4. f \in Surjection(S, T)
  BY <1>2, <1>3, FS_Injection
<1>5. \A k \in T : \E x \in S : f[x] = k
  BY <1>4 DEF Surjection
<1> QED BY <1>1, <1>5

\* As many elements as asked for come first, if there are so many.
LEMMA FirstPlaces ==
  ASSUME NEW S, IsFiniteSet(S), NEW R, Orders(R, S), NEW n \in Nat
  PROVE  Cardinality({x \in S : Rank(R, S, x) < n}) =
           IF n <= Cardinality(S) THEN n ELSE Cardinality(S)
<1>0. Cardinality(S) \in Nat
  BY FS_CardinalityType
<1>1. CASE n > Cardinality(S)
  <2>1. {x \in S : Rank(R, S, x) < n} = S
    BY <1>0, <1>1, RankGrows
  <2> QED BY <2>1, <1>0, <1>1
<1>2. CASE n <= Cardinality(S)
  <2> DEFINE F == {x \in S : Rank(R, S, x) < n}
             T == 0..(n - 1)
             f == [x \in F |-> Rank(R, S, x)]
  <2>1. f \in [F -> T]
    BY RankGrows, <1>0
  <2>2. \A x, y \in F : f[x] = f[y] => x = y
    BY RankPlaces
  <2>3. \A k \in T : \E x \in F : f[x] = k
    BY RankPlaces, <1>0, <1>2
  <2>4. IsFiniteSet(T) /\ Cardinality(T) = n
    BY FS_Interval
  <2>5. f \in Injection(F, T) /\ f \in Surjection(F, T)
    BY <2>1, <2>2, <2>3 DEF Injection, IsInjective, Surjection
  <2> HIDE DEF F, T, f
  <2>6. Cardinality(F) = Cardinality(T)
    BY <2>4, <2>5, FS_Injection
  <2> QED BY <2>4, <2>6, <1>2 DEF F
<1> QED BY <1>0, <1>1, <1>2

-----------------------------------------------------------------------------
(* 2. Sums over the clients *)

Counts == [AllClients -> Nat]

LEMMA ClientsFinite == IsFiniteSet(AllClients)
BY SelectAssumption, FS_Interval DEF AllClients, Unknown

LEMMA SeatsAre ==
  ASSUME NEW f \in Counts
  PROVE  \A s : s \in Seats(f) <=> \E c \in AllClients, k \in Nat : k \in 1..f[c] /\ s = <<c, k>>
BY DEF Seats, Counts

LEMMA SeatAt ==
  ASSUME NEW f \in Counts, NEW c, NEW k
  PROVE  <<c, k>> \in Seats(f) <=> c \in AllClients /\ k \in 1..f[c]
BY SeatsAre

LEMMA SeatsFinite ==
  ASSUME NEW f \in Counts
  PROVE  IsFiniteSet(Seats(f)) /\ Total(f) \in Nat
<1> DEFINE g == [c \in AllClients |-> {c} \X (1..f[c])]
           T == {{c} \X (1..f[c]) : c \in AllClients}
<1>1. g \in Surjection(AllClients, T)
  BY DEF Surjection
<1>2. ASSUME NEW c \in AllClients PROVE IsFiniteSet({c} \X (1..f[c]))
  <2>1. IsFiniteSet({c})
    BY FS_Singleton
  <2>2. IsFiniteSet(1..f[c])
    BY FS_Interval DEF Counts
  <2> QED BY <2>1, <2>2, FS_Product, Zenon
<1>3. \A U \in T : IsFiniteSet(U)
  BY <1>2
<1>4. Seats(f) = UNION T
  BY DEF Seats, Counts
<1> HIDE DEF g, T
<1>5. IsFiniteSet(T)
  BY <1>1, ClientsFinite, FS_Surjection
<1>6. IsFiniteSet(Seats(f))
  BY <1>3, <1>4, <1>5, FS_UNION
<1> QED BY <1>6, FS_CardinalityType DEF Total

LEMMA SumMono ==
  ASSUME NEW f \in Counts, NEW g \in Counts, \A c \in AllClients : f[c] <= g[c]
  PROVE  Total(f) <= Total(g)
<1>1. Seats(f) \subseteq Seats(g)
  <2> SUFFICES ASSUME NEW s \in Seats(f) PROVE s \in Seats(g)
    OBVIOUS
  <2>1. PICK c \in AllClients, k \in Nat : k \in 1..f[c] /\ s = <<c, k>>
    BY SeatsAre
  <2>2. k \in 1..g[c]
    BY <2>1 DEF Counts
  <2> QED BY <2>1, <2>2, SeatsAre
<1> QED BY <1>1, SeatsFinite, FS_Subset DEF Total

LEMMA SumZero ==
  ASSUME NEW f \in Counts, \A c \in AllClients : f[c] = 0
  PROVE  Total(f) = 0
<1>1. Seats(f) = {}
  BY SeatsAre
<1> QED BY <1>1, FS_EmptySet DEF Total

\* The seats of a sum are those of f and, behind them, those of g.
LEMMA SumAdd ==
  ASSUME NEW f \in Counts, NEW g \in Counts
  PROVE  LET h == [c \in AllClients |-> f[c] + g[c]]
         IN  h \in Counts /\ Total(h) = Total(f) + Total(g)
<1> DEFINE h == [c \in AllClients |-> f[c] + g[c]]
           D == Seats(h) \ Seats(f)
           b == [s \in Seats(g) |-> <<s[1], f[s[1]] + s[2]>>]
<1>0. \A c \in AllClients : f[c] \in Nat /\ g[c] \in Nat
  BY DEF Counts
<1>1. h \in Counts
  BY <1>0 DEF Counts
<1>2. Seats(f) \subseteq Seats(h)
  <2> SUFFICES ASSUME NEW s \in Seats(f) PROVE s \in Seats(h)
    OBVIOUS
  <2>1. PICK c \in AllClients, k \in Nat : k \in 1..f[c] /\ s = <<c, k>>
    BY SeatsAre
  <2>2. k \in 1..h[c]
    BY <2>1, <1>0
  <2> QED BY <2>1, <2>2, <1>1, SeatsAre
<1>3. ASSUME NEW s \in Seats(g)
      PROVE  \E c \in AllClients, k \in Nat :
               k \in 1..g[c] /\ s = <<c, k>> /\ b[s] = <<c, f[c] + k>> /\ b[s] \in D
  <2>1. PICK c \in AllClients, k \in Nat : k \in 1..g[c] /\ s = <<c, k>>
    BY SeatsAre
  <2>2. b[s] = <<c, f[c] + k>>
    BY <2>1
  <2>3. f[c] + k \in 1..h[c] /\ f[c] + k \notin 1..f[c]
    BY <2>1, <1>0
  <2>4. <<c, f[c] + k>> \in Seats(h) /\ <<c, f[c] + k>> \notin Seats(f)
    BY <2>3, <1>1, SeatAt
  <2> QED BY <2>1, <2>2, <2>4
<1>4. ASSUME NEW s \in Seats(g), NEW t \in Seats(g), b[s] = b[t] PROVE s = t
  <2>1. PICK c \in AllClients, k \in Nat : k \in 1..g[c] /\ s = <<c, k>> /\ b[s] = <<c, f[c] + k>>
    BY <1>3, ZenonT(60)
  <2>2. PICK d \in AllClients, l \in Nat : l \in 1..g[d] /\ t = <<d, l>> /\ b[t] = <<d, f[d] + l>>
    BY <1>3, ZenonT(60)
  <2>3. c = d /\ f[c] + k = f[d] + l
    BY <2>1, <2>2, <1>4
  <2> QED BY <2>1, <2>2, <2>3, <1>0
<1>5. ASSUME NEW s \in D PROVE \E t \in Seats(g) : b[t] = s
  <2>1. PICK c \in AllClients, k \in Nat : k \in 1..h[c] /\ s = <<c, k>>
    BY <1>1, SeatsAre
  <2>2. k \notin 1..f[c]
    BY <2>1, SeatAt
  <2>3. k - f[c] \in 1..g[c] /\ f[c] + (k - f[c]) = k
    BY <2>1, <2>2, <1>0
  <2>4. <<c, k - f[c]>> \in Seats(g) /\ b[<<c, k - f[c]>>] = s
    BY <2>1, <2>3, SeatAt
  <2> QED BY <2>4
<1>6. b \in Injection(Seats(g), D) /\ b \in Surjection(Seats(g), D)
  <2>1. b \in [Seats(g) -> D]
    BY <1>3
  <2> QED BY <2>1, <1>4, <1>5 DEF Injection, IsInjective, Surjection
<1> HIDE DEF b
<1>7. IsFiniteSet(D) /\ Cardinality(D) = Total(h) - Total(f)
  <2>1. Seats(h) \cap Seats(f) = Seats(f)
    BY <1>2
  <2> QED BY <2>1, <1>1, SeatsFinite, FS_Difference DEF Total
<1>8. Cardinality(D) = Total(g)
  BY <1>6, <1>7, FS_Injection DEF Total
<1> HIDE DEF h
<1> QED BY <1>1, <1>7, <1>8, SeatsFinite DEF h

LEMMA OneLess ==
  ASSUME NEW m \in Int, NEW x \in Int
  PROVE  m * x = (m - 1) * x + x
OBVIOUS

\* Sums distribute.
LEMMA SumScale ==
  ASSUME NEW f \in Counts, NEW n \in Nat
  PROVE  LET h == [c \in AllClients |-> n * f[c]]
         IN  h \in Counts /\ Total(h) = n * Total(f)
<1> DEFINE H(m) == [c \in AllClients |-> m * f[c]]
           Wrong == {m \in Nat : Total(H(m)) # m * Total(f)}
<1>0. \A c \in AllClients : f[c] \in Nat
  BY DEF Counts
<1>1. \A m \in Nat : H(m) \in Counts
  BY <1>0 DEF Counts
<1>2. SUFFICES ASSUME Wrong # {} PROVE FALSE
  BY <1>1
<1>3. PICK m \in Wrong : \A k \in Wrong : ~(<<k, m>> \in OpToRel(<, Nat))
  BY <1>2, NatLessThanWellFounded, WFMin
<1>4. Total(f) \in Nat /\ m \in Nat
  BY SeatsFinite
<1>5. m # 0
  <2>1. Total(H(0)) = 0
    <3>1. \A c \in AllClients : H(0)[c] = 0
      BY <1>0
    <3> HIDE DEF H
    <3> QED BY <3>1, <1>1, SumZero
  <2> QED BY <2>1, <1>4
<1>6. m - 1 \in Nat /\ m - 1 \notin Wrong
  <2>1. m - 1 \in Nat /\ m - 1 < m
    BY <1>4, <1>5
  <2>2. \A k \in Nat : k < m => <<k, m>> \in OpToRel(<, Nat)
    <3> SUFFICES ASSUME NEW k \in Nat, k < m PROVE <<k, m>> \in OpToRel(<, Nat)
      OBVIOUS
    <3>1. <<k, m>> \in Nat \X Nat /\ <<k, m>>[1] = k /\ <<k, m>>[2] = m
      BY <1>4
    <3> QED BY <3>1, Zenon DEF OpToRel
  <2> QED BY <2>1, <2>2, <1>3, Zenon
<1>7. Total(H(m - 1)) = (m - 1) * Total(f)
  BY <1>6
<1>8. Total(H(m)) = Total(H(m - 1)) + Total(f)
  <2>1. H(m) = [c \in AllClients |-> H(m - 1)[c] + f[c]]
    <3>1. ASSUME NEW c \in AllClients PROVE m * f[c] = (m - 1) * f[c] + f[c]
      <4>1. m \in Int /\ f[c] \in Int
        BY <1>0, <1>4
      <4> HIDE DEF Wrong
      <4> QED BY <4>1, OneLess
    <3> QED BY <3>1
  <2>2. H(m - 1) \in Counts
    BY <1>1, <1>6
  <2> HIDE DEF H
  <2> QED BY <2>1, <2>2, SumAdd
<1>9. m * Total(f) = (m - 1) * Total(f) + Total(f)
  BY <1>4
<1> QED BY <1>7, <1>8, <1>9, <1>3

LEMMA SumOnes ==
  ASSUME NEW D \in SUBSET AllClients
  PROVE  LET h == [c \in AllClients |-> IF c \in D THEN 1 ELSE 0]
         IN  h \in Counts /\ Total(h) = Cardinality(D)
<1> DEFINE h == [c \in AllClients |-> IF c \in D THEN 1 ELSE 0]
           b == [c \in D |-> <<c, 1>>]
<1>1. h \in Counts
  BY DEF Counts
<1>2. b \in [D -> Seats(h)]
  <2>1. ASSUME NEW c \in D PROVE <<c, 1>> \in Seats(h)
    BY <1>1, SeatAt
  <2> QED BY <2>1
<1>3. ASSUME NEW s \in Seats(h) PROVE \E c \in D : b[c] = s
  <2>1. PICK c \in AllClients, k \in Nat : k \in 1..h[c] /\ s = <<c, k>>
    BY <1>1, SeatsAre
  <2>2. c \in D /\ k = 1
    BY <2>1
  <2> QED BY <2>1, <2>2
<1>4. b \in Injection(D, Seats(h)) /\ b \in Surjection(D, Seats(h))
  BY <1>2, <1>3 DEF Injection, IsInjective, Surjection
<1> HIDE DEF b, h
<1>5. Cardinality(D) = Total(h)
  BY <1>1, <1>4, SeatsFinite, FS_Injection DEF Total
<1> QED BY <1>1, <1>5 DEF h

\* One slot more.
LEMMA SumOneMore ==
  ASSUME NEW f \in Counts, NEW c \in AllClients
  PROVE  [f EXCEPT ![c] = @ + 1] \in Counts /\ Total([f EXCEPT ![c] = @ + 1]) = Total(f) + 1
<1> DEFINE h == [f EXCEPT ![c] = @ + 1]
           one == [d \in AllClients |-> IF d \in {c} THEN 1 ELSE 0]
<1>0. f \in [AllClients -> Nat] /\ f[c] + 1 \in Nat
  BY DEF Counts
<1>1. h \in Counts /\ h = [d \in AllClients |-> f[d] + one[d]]
  <2>1. h \in Counts
    BY <1>0 DEF Counts
  <2>2. \A d \in AllClients : h[d] = f[d] + one[d]
    BY <1>0
  <2> QED BY <2>1, <2>2, <1>0
<1>2. one \in Counts /\ Total(one) = 1
  <2>1. {c} \in SUBSET AllClients /\ Cardinality({c}) = 1
    BY FS_Singleton
  <2> QED BY <2>1, SumOnes
<1> HIDE DEF h, one
<1>3. Total(h) = Total(f) + Total(one)
  BY <1>1, <1>2, SumAdd
<1> QED BY <1>1, <1>2, <1>3 DEF h

-----------------------------------------------------------------------------
(* 3. The invariant *)

InputOK ==
  /\ cands \in Seq(Candidate({"none", "shared", "own"}))
  /\ limit \in Nat /\ balanced \in BOOLEAN

\* There are more candidates than the tree may carry.
Cut == limit > 0 /\ Len(cands) > limit

ReservedOK ==
  /\ reserved \subseteq Dialable /\ Cardinality(reserved) <= limit
  /\ Dialable # {} => reserved # {}

\* The first k of fracs have got a slot more than their floor and whole share,
\* and all of them have a remainder.
Handed(k) ==
  /\ next = (k % Len(fracs)) + 1
  /\ \A c \in AllClients :
       slots[c] = Floored[c] + Whole(c) + (IF \E i \in 1..k : fracs[i] = c THEN 1 ELSE 0)
  /\ \A i \in 1..k : Left(fracs[i]) > 0

\* All clients with a candidate, by decreasing remainder.
FracsOK ==
  /\ fracs \in [1..Cardinality(InPool) -> InPool] /\ IsInjective(fracs)
  /\ \A i, j \in 1..Cardinality(InPool) : i < j => Left(fracs[i]) >= Left(fracs[j])

SharesOK ==
  /\ balanced /\ Room > 0 /\ Cardinality(Rest) > Room
  /\ slots \in Counts /\ Total(slots) <= Room
  /\ \A c \in AllClients : Floored[c] <= slots[c] /\ slots[c] <= Size(c)
  /\ fracs = <<>> => Total(slots) = Room
  /\ fracs # <<>> => /\ Remaining > 0 /\ Free > 0 /\ FracsOK
                     /\ \E k \in 0..Len(fracs) : Handed(k)

SelInv ==
  /\ InputOK /\ step \in {"reserve", "fill", "remainders", "done"}
  /\ step \in {"reserve", "fill"} => fracs = <<>>
  /\ step \in {"fill", "remainders"} => Cut /\ ReservedOK
  /\ step = "remainders" => SharesOK
  /\ FillsTree /\ EveryClientCarried /\ SharesWithinOne

-----------------------------------------------------------------------------
(* 4. The candidates and their pools *)

LEMMA InputFacts ==
  ASSUME InputOK
  PROVE  /\ Len(cands) \in Nat /\ IsFiniteSet(All) /\ Cardinality(All) = Len(cands)
         /\ \A i \in All : /\ i \in Int /\ cands[i].client \in AllClients
                           /\ cands[i].v6 \in {"none", "shared", "own"}
<1>1. Len(cands) \in Nat
  BY DEF InputOK
<1>2. IsFiniteSet(All) /\ Cardinality(All) = Len(cands)
  <2> DEFINE n == Len(cands)
  <2> HIDE DEF n
  <2>1. n \in Nat
    BY <1>1 DEF n
  <2>2. IsFiniteSet(1..n) /\ Cardinality(1..n) = IF 1 > n THEN 0 ELSE n - 1 + 1
    BY <2>1, 1 \in Int, n \in Int, FS_Interval, Zenon
  <2>3. Cardinality(1..n) = n
    BY <2>1, <2>2
  <2> QED BY <2>2, <2>3 DEF All, n
<1>3. ASSUME NEW i \in All
      PROVE  i \in Int /\ cands[i] \in Candidate({"none", "shared", "own"})
  BY DEF All, InputOK
<1> QED BY <1>1, <1>2, <1>3 DEF Candidate

\* The candidates by their places in the list.
Places(S) == {p \in S \X S : p[1] < p[2]}

LEMMA PlacesOrder ==
  ASSUME NEW S \in SUBSET Int
  PROVE  Orders(Places(S), S)
BY DEF Orders, Places

LEMMA PlacesRank ==
  ASSUME NEW S \in SUBSET Int, NEW j \in S
  PROVE  Rank(Places(S), S, j) = Cardinality({i \in S : i < j})
<1>1. Preds(Places(S), S, j) = {i \in S : i < j}
  BY DEF Preds, Places
<1> QED BY <1>1 DEF Rank

\* FirstOf gives as many as asked for, if there are so many.
LEMMA FirstOfCount ==
  ASSUME NEW S \in SUBSET Int, IsFiniteSet(S), NEW n \in Nat
  PROVE  /\ FirstOf(S, n) \subseteq S
         /\ Cardinality(FirstOf(S, n)) = IF n <= Cardinality(S) THEN n ELSE Cardinality(S)
         /\ Cardinality(S) <= n => FirstOf(S, n) = S
<1>1. FirstOf(S, n) = {j \in S : Rank(Places(S), S, j) < n}
  BY PlacesRank DEF FirstOf
<1>2. Cardinality(FirstOf(S, n)) = IF n <= Cardinality(S) THEN n ELSE Cardinality(S)
  BY <1>1, PlacesOrder, FirstPlaces
<1>3. FirstOf(S, n) \subseteq S
  BY DEF FirstOf
<1>4. Cardinality(S) <= n => FirstOf(S, n) = S
  <2>1. Cardinality(S) \in Nat
    BY FS_CardinalityType
  <2> QED BY <2>1, <1>2, <1>3, FS_Subset
<1> QED BY <1>2, <1>3, <1>4

\* The candidates of a set, client by client.
Of(J, c) == {i \in J : cands[i].client = c}

LEMMA PoolsAddUp ==
  ASSUME InputOK, NEW J \in SUBSET All
  PROVE  LET f == [c \in AllClients |-> Cardinality(Of(J, c))]
         IN  f \in Counts /\ Total(f) = Cardinality(J)
<1> DEFINE f == [c \in AllClients |-> Cardinality(Of(J, c))]
           R(i) == Cardinality({j \in Of(J, cands[i].client) : j < i})
           b == [i \in J |-> <<cands[i].client, R(i) + 1>>]
<1>0. IsFiniteSet(J) /\ J \subseteq Int /\ \A i \in J : cands[i].client \in AllClients
  BY InputFacts, FS_Subset
<1>1. ASSUME NEW c \in AllClients
      PROVE  /\ IsFiniteSet(Of(J, c)) /\ Of(J, c) \in SUBSET Int /\ Cardinality(Of(J, c)) \in Nat
             /\ Orders(Places(Of(J, c)), Of(J, c))
  <2>1. Of(J, c) \in SUBSET J
    BY DEF Of
  <2>2. IsFiniteSet(Of(J, c)) /\ Of(J, c) \in SUBSET Int
    BY <1>0, <2>1, FS_Subset
  <2> QED BY <2>2, FS_CardinalityType, PlacesOrder
<1>2. f \in Counts
  BY <1>1 DEF Counts
<1>3. ASSUME NEW c \in AllClients, NEW i \in Of(J, c)
      PROVE  R(i) = Rank(Places(Of(J, c)), Of(J, c), i) /\ i \in J /\ cands[i].client = c
  <2>1. cands[i].client = c /\ i \in J
    BY DEF Of
  <2>2. Rank(Places(Of(J, c)), Of(J, c), i) = Cardinality({j \in Of(J, c) : j < i})
    BY <1>1, PlacesRank
  <2> QED BY <2>1, <2>2
<1>4. ASSUME NEW i \in J PROVE b[i] \in Seats(f)
  <2> DEFINE c == cands[i].client
  <2>1. c \in AllClients /\ i \in Of(J, c)
    BY <1>0 DEF Of
  <2> HIDE DEF c
  <2>2. R(i) \in 0..(Cardinality(Of(J, c)) - 1) /\ Cardinality(Of(J, c)) \in Nat
    BY <2>1, <1>1, <1>3, RankGrows
  <2>3. R(i) + 1 \in 1..f[c]
    BY <2>1, <2>2
  <2> QED BY <2>1, <2>3, <1>2, SeatAt DEF c
<1>5. ASSUME NEW i \in J, NEW j \in J, b[i] = b[j] PROVE i = j
  <2> DEFINE c == cands[i].client
  <2>1. cands[j].client = c /\ R(i) + 1 = R(j) + 1
    BY <1>5
  <2>2. c \in AllClients /\ i \in Of(J, c) /\ j \in Of(J, c)
    BY <1>0, <2>1 DEF Of
  <2> HIDE DEF c
  <2>3. R(i) \in Int /\ R(j) \in Int
    BY <2>2, <1>1, <1>3, RankGrows
  <2>4. Rank(Places(Of(J, c)), Of(J, c), i) = Rank(Places(Of(J, c)), Of(J, c), j)
    BY <2>1, <2>2, <2>3, <1>3
  <2> QED BY <2>2, <2>4, <1>1, RankPlaces
<1>6. ASSUME NEW s \in Seats(f) PROVE \E i \in J : b[i] = s
  <2>1. PICK c \in AllClients, k \in Nat : k \in 1..f[c] /\ s = <<c, k>>
    BY <1>2, SeatsAre
  <2>2. k - 1 \in 0..(Cardinality(Of(J, c)) - 1)
    BY <2>1, <1>1
  <2>3. PICK i \in Of(J, c) : Rank(Places(Of(J, c)), Of(J, c), i) = k - 1
    BY <2>2, <1>1, RankPlaces
  <2>4. R(i) + 1 = k /\ i \in J /\ cands[i].client = c
    BY <2>1, <2>3, <1>3
  <2> QED BY <2>1, <2>4
<1>7. b \in Injection(J, Seats(f)) /\ b \in Surjection(J, Seats(f))
  <2>1. b \in [J -> Seats(f)]
    BY <1>4
  <2> QED BY <2>1, <1>5, <1>6 DEF Injection, IsInjective, Surjection
<1> HIDE DEF b, f
<1>8. Cardinality(J) = Total(f)
  BY <1>2, <1>7, SeatsFinite, FS_Injection DEF Total
<1> QED BY <1>2, <1>8 DEF f

LEMMA RestFacts ==
  ASSUME InputOK, ReservedOK
  PROVE  /\ reserved \in SUBSET All /\ IsFiniteSet(reserved) /\ Cardinality(reserved) \in Nat
         /\ Rest \in SUBSET All /\ IsFiniteSet(Rest) /\ Rest \in SUBSET Int
         /\ Cardinality(Rest) = Len(cands) - Cardinality(reserved) /\ Cardinality(Rest) \in Nat
         /\ Room \in Nat
<1>1. reserved \in SUBSET All
  BY DEF ReservedOK, Dialable
<1>2. IsFiniteSet(reserved) /\ Cardinality(reserved) \in Nat
  BY <1>1, InputFacts, FS_Subset, FS_CardinalityType
<1>3. Rest \in SUBSET All /\ Rest \in SUBSET Int
  BY InputFacts DEF Rest
<1>4. IsFiniteSet(Rest) /\ Cardinality(Rest) \in Nat
  BY <1>3, InputFacts, FS_Subset, FS_CardinalityType
<1>5. Cardinality(Rest) = Len(cands) - Cardinality(reserved)
  <2>1. All \cap reserved = reserved
    BY <1>1
  <2>2. Cardinality(All \ reserved) = Cardinality(All) - Cardinality(All \cap reserved)
    BY InputFacts, FS_Difference
  <2> QED BY <2>1, <2>2, InputFacts DEF Rest
<1>6. Room \in Nat
  BY <1>2 DEF Room, InputOK, ReservedOK
<1> QED BY <1>1, <1>2, <1>3, <1>4, <1>5, <1>6

LEMMA PoolFacts ==
  ASSUME InputOK, ReservedOK
  PROVE  /\ \A c \in AllClients : /\ Pool(c) \in SUBSET Rest /\ Pool(c) \in SUBSET Int
                                  /\ IsFiniteSet(Pool(c)) /\ Size(c) \in Nat
                                  /\ Size(c) = 0 <=> c \notin InPool
         /\ [c \in AllClients |-> Size(c)] \in Counts
         /\ Total([c \in AllClients |-> Size(c)]) = Cardinality(Rest)
         /\ IsFiniteSet(InPool) /\ InPool \in SUBSET AllClients
<1>1. ASSUME NEW c \in AllClients
      PROVE  /\ Pool(c) \in SUBSET Rest /\ Pool(c) \in SUBSET Int
             /\ IsFiniteSet(Pool(c)) /\ Size(c) \in Nat
             /\ Size(c) = 0 <=> c \notin InPool
  <2>1. Pool(c) \in SUBSET Rest /\ Pool(c) \in SUBSET Int
    BY RestFacts DEF Pool
  <2>2. IsFiniteSet(Pool(c)) /\ Size(c) \in Nat
    BY <2>1, RestFacts, FS_Subset, FS_CardinalityType DEF Size
  <2>3. Size(c) = 0 <=> Pool(c) = {}
    BY <2>2, FS_EmptySet DEF Size
  <2> QED BY <2>1, <2>2, <2>3 DEF InPool
<1>2. [c \in AllClients |-> Size(c)] = [c \in AllClients |-> Cardinality(Of(Rest, c))]
  BY DEF Size, Pool, Of
<1>3. /\ [c \in AllClients |-> Size(c)] \in Counts
      /\ Total([c \in AllClients |-> Size(c)]) = Cardinality(Rest)
  BY <1>2, RestFacts, PoolsAddUp
<1>4. InPool \in SUBSET AllClients
  BY DEF InPool
<1>5. IsFiniteSet(InPool)
  BY <1>4, ClientsFinite, FS_Subset
<1> QED BY <1>1, <1>3, <1>4, <1>5

-----------------------------------------------------------------------------
(* 5. The floors *)

\* The clients by the size of their pools.
BySize == {p \in AllClients \X AllClients : Larger(p[1], p[2])}

LEMMA FloorFacts ==
  ASSUME InputOK, ReservedOK
  PROVE  /\ Floored \in Counts /\ Total(Floored) <= Room /\ Total(Floored) \in Nat
         /\ \A c \in AllClients : Floored[c] <= Size(c)
         /\ Cardinality(Floors) <= Room => \A c \in Floors : Floored[c] = 1
<1>1. Floors \in SUBSET AllClients /\ IsFiniteSet(Floors) /\ Floors \in SUBSET InPool
  <2>1. Floors \in SUBSET InPool
    BY DEF Floors
  <2> QED BY <2>1, PoolFacts, FS_Subset
<1>2. Orders(BySize, Floors)
  <2>1. \A c \in Floors : c \in AllClients /\ c \in Int /\ Size(c) \in Int
    BY <1>1, PoolFacts, SelectAssumption DEF AllClients, Unknown
  <2>2. \A c, d \in Floors : <<c, d>> \in BySize <=> Size(c) > Size(d) \/ (Size(c) = Size(d) /\ c < d)
    BY <2>1 DEF BySize, Larger
  <2> QED BY <2>1, <2>2 DEF Orders
<1>3. ASSUME NEW c \in Floors PROVE Cardinality({d \in Floors : Larger(d, c)}) = Rank(BySize, Floors, c)
  <2>1. {d \in Floors : Larger(d, c)} = Preds(BySize, Floors, c)
    BY <1>1 DEF Preds, BySize
  <2> QED BY <2>1 DEF Rank
<1> DEFINE D == {c \in Floors : Rank(BySize, Floors, c) < Room}
<1>4. Floored = [c \in AllClients |-> IF c \in D THEN 1 ELSE 0]
  BY <1>3 DEF Floored
<1>5. Cardinality(D) = IF Room <= Cardinality(Floors) THEN Room ELSE Cardinality(Floors)
  BY <1>1, <1>2, RestFacts, FirstPlaces
<1>6. Cardinality(Floors) \in Nat /\ Room \in Nat
  BY <1>1, RestFacts, FS_CardinalityType
<1>7. Floored \in Counts /\ Total(Floored) = Cardinality(D)
  <2>1. D \in SUBSET AllClients
    BY <1>1
  <2> QED BY <2>1, <1>4, SumOnes
<1>8. \A c \in AllClients : Floored[c] <= Size(c)
  <2>1. ASSUME NEW c \in AllClients, c \in D PROVE Floored[c] = 1 /\ Size(c) >= 1
    BY <2>1, <1>1, <1>4, PoolFacts
  <2>2. ASSUME NEW c \in AllClients, c \notin D PROVE Floored[c] = 0 /\ Size(c) >= 0
    BY <2>2, <1>4, PoolFacts
  <2> QED BY <2>1, <2>2
<1>9. ASSUME Cardinality(Floors) <= Room, NEW c \in Floors PROVE Floored[c] = 1
  <2>1. Rank(BySize, Floors, c) \in 0..(Cardinality(Floors) - 1)
    BY <1>1, <1>2, RankGrows
  <2>2. c \in D
    BY <2>1, <1>6, <1>9
  <2> QED BY <2>2, <1>1, <1>4
<1> HIDE DEF D
<1>10. Total(Floored) <= Room /\ Total(Floored) \in Nat
  BY <1>5, <1>6, <1>7
<1> QED BY <1>7, <1>8, <1>9, <1>10

\* What the floors leave, of the room and of the candidates.
LEMMA FreeFacts ==
  ASSUME InputOK, ReservedOK
  PROVE  /\ \A c \in AllClients : Unfilled(Floored, c) \in 0..Size(c)
         /\ [c \in AllClients |-> Unfilled(Floored, c)] \in Counts
         /\ Remaining \in Nat /\ Free \in Nat
         /\ Free = Cardinality(Rest) - Total(Floored)
         /\ Cardinality(Rest) > Room => Free > Remaining
<1> DEFINE u == [c \in AllClients |-> Unfilled(Floored, c)]
<1>1. ASSUME NEW c \in AllClients
      PROVE  /\ Unfilled(Floored, c) \in 0..Size(c) /\ Size(c) = Floored[c] + Unfilled(Floored, c)
             /\ Unfilled(Floored, c) \in Nat
  <2>1. Floored[c] \in Nat /\ Floored[c] <= Size(c) /\ Size(c) \in Nat
    BY FloorFacts, PoolFacts DEF Counts
  <2> QED BY <2>1 DEF Unfilled
<1>2. u \in Counts
  BY <1>1 DEF Counts
<1>3. [c \in AllClients |-> Size(c)] = [c \in AllClients |-> Floored[c] + u[c]]
  BY <1>1
<1> HIDE DEF u
<1>4. Cardinality(Rest) = Total(Floored) + Total(u)
  BY <1>2, <1>3, FloorFacts, PoolFacts, SumAdd
<1>5. Free = Total(u) /\ Free \in Nat
  BY <1>2, SeatsFinite DEF Free, u
<1>6. Remaining \in Nat
  BY FloorFacts, RestFacts DEF Remaining
<1> QED BY <1>1, <1>2, <1>4, <1>5, <1>6, FloorFacts, RestFacts DEF Remaining, u

-----------------------------------------------------------------------------
(* 6. The shares *)

LEMMA TimesMono ==
  ASSUME NEW f \in Nat, NEW a \in Nat, NEW b \in Nat, a <= b
  PROVE  f * a <= f * b
<1>1. b - a \in Nat /\ b = a + (b - a)
  OBVIOUS
<1>2. f * b = f * a + f * (b - a)
  BY <1>1
<1>3. f * (b - a) \in Nat /\ f * a \in Nat
  BY <1>1
<1> QED BY <1>2, <1>3

LEMMA TimesCancel ==
  ASSUME NEW f \in Nat, f > 0, NEW a \in Nat, NEW b \in Nat, f * a <= f * b
  PROVE  a <= b
<1> SUFFICES ASSUME b < a PROVE FALSE
  OBVIOUS
<1>1. f * (b + 1) <= f * a
  BY TimesMono
<1>2. f * (b + 1) = f * b + f /\ f * b \in Int /\ f * a \in Int
  OBVIOUS
<1> QED BY <1>1, <1>2

\* A share, in parts of f, between the whole slots and one more.
LEMMA Between ==
  ASSUME NEW p \in Nat, NEW f \in Nat, NEW l \in 0..(f - 1), NEW e \in Nat, NEW s \in Int,
         s = p + l, e = p \/ (e = p + f /\ l > 0)
  PROVE  e > s - f /\ e < s + f
OBVIOUS

\* The whole slots in a share of less than one in one, and what is left of it.
LEMMA ShareOf ==
  ASSUME NEW r \in Nat, NEW f \in Nat, NEW u \in Nat, r < f
  PROVE  LET w == (r * u) \div f
         IN  /\ w \in 0..u /\ r * u - w * f \in 0..(f - 1)
             /\ r * u - w * f > 0 => w < u
<1> DEFINE a == r * u
           w == a \div f
           m == a - w * f
<1>1. a \in Nat
  OBVIOUS
<1>2. w \in Nat /\ m \in 0..(f - 1)
  <2> HIDE DEF a
  <2>1. a \div f \in Nat /\ a = f * (a \div f) + (a % f) /\ a % f \in 0..(f - 1)
    BY <1>1
  <2>2. f * (a \div f) = (a \div f) * f
    BY <2>1
  <2> QED BY <1>1, <2>1, <2>2
<1>3. a <= u * f /\ u * f \in Nat
  <2>1. u * r <= u * f
    BY TimesMono
  <2> QED BY <2>1
<1>4. w <= u
  <2> SUFFICES ASSUME w > u PROVE FALSE
    BY <1>2
  <2> HIDE DEF w, a
  <2>1. f * (u + 1) <= f * w
    BY <1>2, TimesMono
  <2>2. f * (u + 1) = u * f + f /\ f * w = w * f /\ w * f \in Int
    BY <1>2
  <2> QED BY <1>1, <1>2, <1>3, <2>1, <2>2
<1>5. ASSUME m > 0 PROVE w < u
  <2> SUFFICES ASSUME w = u PROVE FALSE
    BY <1>2, <1>4
  <2>1. m = a - u * f
    OBVIOUS
  <2> HIDE DEF w, a, m
  <2> QED BY <1>1, <1>2, <1>3, <1>5, <2>1
<1> HIDE DEF w
<1>6. w \in 0..u
  BY <1>2, <1>4
<1> QED BY <1>2, <1>5, <1>6 DEF w

LEMMA WholeFacts ==
  ASSUME InputOK, ReservedOK, Cardinality(Rest) > Room, NEW c \in AllClients
  PROVE  /\ Whole(c) \in 0..Unfilled(Floored, c) /\ Left(c) \in 0..(Free - 1)
         /\ Whole(c) \in Nat /\ Left(c) \in Nat /\ Unfilled(Floored, c) \in Nat
         /\ Remaining * Unfilled(Floored, c) = Free * Whole(c) + Left(c)
         /\ Left(c) > 0 => Whole(c) < Unfilled(Floored, c)
         /\ c \notin InPool => Left(c) = 0
<1> DEFINE u == Unfilled(Floored, c)
           w == (Remaining * u) \div Free
<1>1. u \in Nat /\ Remaining \in Nat /\ Free \in Nat /\ Remaining < Free /\ u \in 0..Size(c)
      /\ Size(c) \in Nat
  BY FreeFacts, PoolFacts
<1> HIDE DEF u
<1>2. /\ w \in 0..u /\ Remaining * u - w * Free \in 0..(Free - 1)
      /\ Remaining * u - w * Free > 0 => w < u
  BY <1>1, ShareOf
<1>3. Whole(c) = w /\ Left(c) = Remaining * u - w * Free
  <2>1. Whole(c) = Min({w, u})
    BY DEF Whole, u
  <2> HIDE DEF w
  <2>2. Whole(c) = w
    BY <2>1, <1>1, <1>2, MinOfTwo
  <2> QED BY <2>2 DEF Left, u
<1> HIDE DEF w
<1>4. Remaining * u = Free * w + Left(c)
  <2>1. Free * w = w * Free /\ w * Free \in Int /\ Remaining * u \in Int
    BY <1>1, <1>2
  <2> QED BY <1>3, <2>1
<1>5. ASSUME c \notin InPool PROVE Left(c) = 0
  <2>1. u = 0 /\ w = 0
    BY <1>1, <1>2, <1>5, PoolFacts
  <2>2. Remaining * u = 0 /\ w * Free = 0
    BY <2>1, <1>1
  <2> QED BY <2>2, <1>3
<1> QED BY <1>1, <1>2, <1>3, <1>4, <1>5 DEF u

\* The whole slots do not take more than what remains.
LEMMA WholeTotal ==
  ASSUME InputOK, ReservedOK, Cardinality(Rest) > Room
  PROVE  LET w == [c \in AllClients |-> Whole(c)]
         IN  w \in Counts /\ Total(w) <= Remaining /\ Total(w) \in Nat
<1> DEFINE w == [c \in AllClients |-> Whole(c)]
           u == [c \in AllClients |-> Unfilled(Floored, c)]
           fw == [c \in AllClients |-> Free * w[c]]
           ru == [c \in AllClients |-> Remaining * u[c]]
<1>1. w \in Counts /\ u \in Counts
  BY WholeFacts, FreeFacts DEF Counts
<1>2. Free \in Nat /\ Free > 0 /\ Remaining \in Nat /\ Total(u) = Free
  BY FreeFacts DEF Free
<1>3. \A c \in AllClients : fw[c] <= ru[c]
  <2> SUFFICES ASSUME NEW c \in AllClients PROVE Free * Whole(c) <= Remaining * Unfilled(Floored, c)
    OBVIOUS
  <2>1. /\ Remaining * Unfilled(Floored, c) = Free * Whole(c) + Left(c)
        /\ Whole(c) \in Nat /\ Left(c) \in Nat
    BY WholeFacts
  <2>2. Free * Whole(c) \in Nat
    BY <2>1, <1>2
  <2> QED BY <2>1, <2>2
<1> HIDE DEF w, u
<1>4. fw \in Counts /\ Total(fw) = Free * Total(w)
  BY <1>1, <1>2, SumScale
<1>5. ru \in Counts /\ Total(ru) = Remaining * Free
  BY <1>1, <1>2, SumScale
<1> HIDE DEF fw, ru
<1>6. Total(w) \in Nat
  BY <1>1, SeatsFinite
<1>7. Free * Total(w) <= Free * Remaining
  <2>1. Total(fw) <= Total(ru)
    BY <1>3, <1>4, <1>5, SumMono
  <2>2. Remaining * Free = Free * Remaining
    BY <1>2
  <2> QED BY <1>4, <1>5, <2>1, <2>2
<1>8. Total(w) <= Remaining
  BY <1>2, <1>6, <1>7, TimesCancel
<1> QED BY <1>1, <1>6, <1>8 DEF w

-----------------------------------------------------------------------------
(* 7. The remainders *)

\* One slot for each of the first k of fracs.
Given(k) == [c \in AllClients |-> IF \E i \in 1..k : fracs[i] = c THEN 1 ELSE 0]

LEMMA HandedSlots ==
  ASSUME InputOK, ReservedOK, Cardinality(Rest) > Room, slots \in Counts,
         NEW k \in Nat, Handed(k)
  PROVE  LET e == [c \in AllClients |-> Whole(c) + Given(k)[c]]
         IN  e \in Counts /\ Total(slots) = Total(Floored) + Total(e)
<1> DEFINE e == [c \in AllClients |-> Whole(c) + Given(k)[c]]
<1>1. e \in Counts
  <2>1. \A c \in AllClients : Whole(c) \in Nat /\ Given(k)[c] \in Nat
    BY WholeFacts DEF Given
  <2> QED BY <2>1 DEF Counts
<1>2. slots = [c \in AllClients |-> Floored[c] + e[c]]
  <2>1. ASSUME NEW c \in AllClients PROVE slots[c] = Floored[c] + e[c]
    <3>1. Floored[c] \in Nat /\ Whole(c) \in Nat
      BY FloorFacts, WholeFacts DEF Counts
    <3>2. slots[c] = Floored[c] + Whole(c) + (IF \E i \in 1..k : fracs[i] = c THEN 1 ELSE 0)
      BY DEF Handed
    <3> QED BY <3>1, <3>2 DEF Given
  <2> QED BY <2>1 DEF Counts
<1> HIDE DEF e
<1>3. Total(slots) = Total(Floored) + Total(e)
  BY <1>1, <1>2, FloorFacts, SumAdd
<1> QED BY <1>1, <1>3 DEF e

\* All that have a candidate are in fracs.
LEMMA FracsAll ==
  ASSUME InputOK, ReservedOK, FracsOK
  PROVE  /\ Len(fracs) = Cardinality(InPool) /\ Cardinality(InPool) \in Nat
         /\ \A c \in InPool : \E i \in 1..Len(fracs) : fracs[i] = c
         /\ \A i \in 1..Len(fracs) : fracs[i] \in InPool
<1> DEFINE n == Cardinality(InPool)
<1>1. n \in Nat /\ IsFiniteSet(InPool)
  BY PoolFacts, FS_CardinalityType
<1>2. IsFiniteSet(1..n) /\ Cardinality(1..n) = n
  BY <1>1, FS_Interval
<1>3. fracs \in Injection(1..n, InPool)
  BY DEF FracsOK, Injection
<1>4. fracs \in Surjection(1..n, InPool)
  BY <1>1, <1>2, <1>3, FS_Injection
<1>5. Len(fracs) = n
  <2>1. fracs \in [1..n -> InPool]
    BY DEF FracsOK
  <2> HIDE DEF n
  <2> QED BY <1>1, <2>1
<1> QED BY <1>1, <1>3, <1>4, <1>5 DEF Surjection, Injection

\* Once nobody with a remainder waits for a slot, no slot is left: the loop ends
\* on its first way round.
LEMMA Exhausted ==
  ASSUME InputOK, ReservedOK, Cardinality(Rest) > Room, slots \in Counts, FracsOK,
         NEW k \in 0..Len(fracs), Handed(k),
         k < Len(fracs) => Left(fracs[k + 1]) = 0
  PROVE  Total(slots) >= Room
<1> DEFINE e == [c \in AllClients |-> Whole(c) + Given(k)[c]]
           u == [c \in AllClients |-> Unfilled(Floored, c)]
           fe == [c \in AllClients |-> Free * e[c]]
           ru == [c \in AllClients |-> Remaining * u[c]]
<1>0. k \in Nat /\ Len(fracs) \in Nat
  BY FracsAll
<1>1. e \in Counts /\ Total(slots) = Total(Floored) + Total(e)
  BY <1>0, HandedSlots
<1>2. u \in Counts /\ Free \in Nat /\ Free > 0 /\ Remaining \in Nat /\ Total(u) = Free
  BY FreeFacts DEF Free
<1>3. ASSUME NEW c \in AllClients PROVE ru[c] <= fe[c]
  <2>1. /\ Remaining * Unfilled(Floored, c) = Free * Whole(c) + Left(c)
        /\ Whole(c) \in Nat /\ Left(c) \in 0..(Free - 1)
    BY WholeFacts
  <2>2. Free * Whole(c) \in Nat
    BY <2>1, <1>2
  <2>3. CASE \E i \in 1..k : fracs[i] = c
    <3>1. e[c] = Whole(c) + 1
      BY <2>3 DEF Given
    <3>2. Free * (Whole(c) + 1) = Free * Whole(c) + Free
      BY <2>1, <1>2
    <3> QED BY <3>1, <3>2, <2>1, <2>2, <1>2
  <2>4. CASE ~\E i \in 1..k : fracs[i] = c
    <3>1. e[c] = Whole(c)
      BY <2>1, <2>4 DEF Given
    <3>2. Left(c) = 0
      <4>1. CASE c \notin InPool
        BY <4>1, WholeFacts
      <4>2. CASE c \in InPool
        <5>1. PICK i \in 1..Len(fracs) : fracs[i] = c
          BY <4>2, FracsAll
        <5>2. i >= k + 1 /\ k + 1 \in 1..Len(fracs)
          BY <1>0, <5>1, <2>4
        <5>3. fracs[k + 1] \in AllClients /\ Left(fracs[k + 1]) = 0
          BY <1>0, <5>2, FracsAll, PoolFacts
        <5>4. CASE i = k + 1
          BY <5>1, <5>3, <5>4
        <5>5. CASE i > k + 1
          <6>1. Left(fracs[k + 1]) >= Left(fracs[i])
            BY <5>2, <5>5, FracsAll DEF FracsOK
          <6> QED BY <6>1, <5>1, <5>3, <2>1, <1>2
        <5> QED BY <5>2, <5>4, <5>5, <1>0
      <4> QED BY <4>1, <4>2
    <3> QED BY <3>1, <3>2, <2>1, <2>2
  <2> QED BY <2>3, <2>4
<1> HIDE DEF e, u
<1>4. fe \in Counts /\ Total(fe) = Free * Total(e)
  BY <1>1, <1>2, SumScale
<1>5. ru \in Counts /\ Total(ru) = Remaining * Free
  BY <1>1, <1>2, SumScale
<1> HIDE DEF fe, ru
<1>6. Total(e) \in Nat
  BY <1>1, SeatsFinite
<1>7. Free * Remaining <= Free * Total(e)
  <2>1. Total(ru) <= Total(fe)
    BY <1>3, <1>4, <1>5, SumMono
  <2>2. Remaining * Free = Free * Remaining
    BY <1>2
  <2> QED BY <1>4, <1>5, <2>1, <2>2
<1>8. Remaining <= Total(e)
  BY <1>2, <1>6, <1>7, TimesCancel
<1> QED BY <1>1, <1>6, <1>8, FloorFacts, RestFacts DEF Remaining

\* The next client has a remainder, has no slot for it yet, and has a candidate.
LEMMA NextInTurn ==
  ASSUME InputOK, ReservedOK, SharesOK, Unshared,
         NEW k \in 0..Len(fracs), Handed(k)
  PROVE  /\ k + 1 \in 1..Len(fracs) /\ next = k + 1 /\ k \in Nat /\ Len(fracs) \in Nat
         /\ fracs[k + 1] \in AllClients /\ Left(fracs[k + 1]) > 0
         /\ ~\E i \in 1..k : fracs[i] = fracs[k + 1]
         /\ slots[fracs[k + 1]] < Size(fracs[k + 1])
<1>1. FracsOK /\ fracs # <<>> /\ slots \in Counts /\ Cardinality(Rest) > Room /\ Total(slots) < Room
  BY DEF SharesOK, Unshared
<1>2. k \in Nat /\ Len(fracs) \in Nat
  BY <1>1, FracsAll
<1>3. k < Len(fracs) /\ Left(fracs[k + 1]) # 0
  <2>1. Total(slots) \in Nat /\ Room \in Nat
    BY <1>1, SeatsFinite, RestFacts
  <2>2. ~(Total(slots) >= Room)
    BY <1>1, <2>1
  <2>3. ~(k < Len(fracs) => Left(fracs[k + 1]) = 0)
    BY <2>2, <1>1, Exhausted
  <2> QED BY <2>3
<1>4. k + 1 \in 1..Len(fracs)
  BY <1>2, <1>3
<1>5. next = k + 1
  <2>1. k % Len(fracs) = k
    BY <1>2, <1>3
  <2> QED BY <2>1 DEF Handed
<1> DEFINE c == fracs[k + 1]
<1>6. c \in AllClients
  BY <1>1, <1>4, FracsAll, PoolFacts
<1>7. ~\E i \in 1..k : fracs[i] = c
  <2>1. \A i, j \in 1..Len(fracs) : fracs[i] = fracs[j] => i = j
    BY <1>1, FracsAll DEF FracsOK, IsInjective
  <2>2. \A i \in 1..k : i \in 1..Len(fracs) /\ i # k + 1
    BY <1>2, <1>3
  <2> QED BY <2>1, <2>2, <1>4
<1> HIDE DEF c
<1>8. Left(c) > 0 /\ Whole(c) < Unfilled(Floored, c)
  <2>1. Left(c) \in Nat /\ (Left(c) > 0 => Whole(c) < Unfilled(Floored, c))
    BY <1>1, <1>6, WholeFacts
  <2> QED BY <2>1, <1>3 DEF c
<1>9. slots[c] < Size(c)
  <2>1. slots[c] = Floored[c] + Whole(c) + 0
    BY <1>6, <1>7 DEF Handed
  <2>2. Floored[c] \in Nat /\ Whole(c) \in Nat /\ Size(c) \in Nat
    BY <1>1, <1>6, FloorFacts, WholeFacts, PoolFacts DEF Counts
  <2> QED BY <2>1, <2>2, <1>8 DEF Unfilled
<1> QED BY <1>2, <1>4, <1>5, <1>6, <1>7, <1>8, <1>9 DEF c

-----------------------------------------------------------------------------
(* 8. The steps *)

\* Floors, shares and pools are functions of the input and what is reserved.
LEMMA SameInput ==
  ASSUME UNCHANGED <<cands, limit, balanced, reserved>>
  PROVE  /\ InputOK' <=> InputOK
         /\ Cut' <=> Cut
         /\ ReservedOK' <=> ReservedOK
         /\ Rest' = Rest /\ Room' = Room /\ InPool' = InPool /\ Floored' = Floored
         /\ Remaining' = Remaining /\ Free' = Free
         /\ \A c : /\ Size(c)' = Size(c) /\ Whole(c)' = Whole(c) /\ Left(c)' = Left(c)
                  /\ Unfilled(Floored, c)' = Unfilled(Floored, c)
<1>1. Rest' = Rest /\ Room' = Room /\ Dialable' = Dialable
  BY DEF Rest, All, Room, Dialable
<1>2. (InputOK' <=> InputOK) /\ (Cut' <=> Cut) /\ (ReservedOK' <=> ReservedOK)
  BY <1>1 DEF InputOK, Cut, ReservedOK
<1>3. \A c : Pool(c)' = Pool(c) /\ Held(c)' = Held(c)
  BY <1>1 DEF Pool, Held
<1>4. InPool' = InPool /\ \A c : Size(c)' = Size(c)
  BY <1>3 DEF InPool, Size
<1>5. Floors' = Floors /\ \A c, d : Larger(c, d)' <=> Larger(c, d)
  BY <1>3, <1>4 DEF Floors, Larger
<1>6. Floored' = Floored
  <2>1. \A c : {d \in Floors : Larger(d, c)}' = {d \in Floors : Larger(d, c)}
    BY <1>5
  <2> QED BY <1>1, <1>5, <2>1 DEF Floored
<1>7. \A c : Unfilled(Floored, c)' = Unfilled(Floored, c)
  BY <1>4, <1>6 DEF Unfilled
<1>8. Remaining' = Remaining
  BY <1>1, <1>6 DEF Remaining
<1>9. Free' = Free
  <2>1. [c \in AllClients |-> Unfilled(Floored, c)]' = [c \in AllClients |-> Unfilled(Floored, c)]
    BY <1>7
  <2> QED BY <2>1 DEF Free
<1>10. \A c : Whole(c)' = Whole(c)
  BY <1>7, <1>8, <1>9 DEF Whole
<1>11. \A c : Left(c)' = Left(c)
  BY <1>7, <1>8, <1>9, <1>10 DEF Left
<1> QED BY <1>1, <1>2, <1>4, <1>6, <1>7, <1>8, <1>9, <1>10, <1>11

LEMMA WantFacts ==
  ASSUME InputOK, Cut
  PROVE  /\ IsFiniteSet(Dialable) /\ Want \in Nat
         /\ Want <= Cardinality(Dialable) /\ Want <= limit
         /\ Dialable # {} => Want > 0
<1> DEFINE share == Rounded(limit * Cardinality(Dialable), Len(cands))
           a == Max({share, 1})
           d == Cardinality(Dialable)
<1>1. IsFiniteSet(Dialable) /\ d \in Nat /\ (d = 0 => Dialable = {})
  <2>1. Dialable \subseteq All
    BY DEF Dialable
  <2>2. IsFiniteSet(Dialable)
    BY <2>1, InputFacts, FS_Subset
  <2> QED BY <2>2, FS_CardinalityType, FS_EmptySet
<1> HIDE DEF d
<1>2. share \in Int
  <2>1. limit * d \in Nat /\ Len(cands) \in Nat /\ Len(cands) > 0
    BY <1>1, InputFacts DEF InputOK, Cut
  <2>2. \A x, y \in Nat : y > 0 => (2 * x + y) \div (2 * y) \in Int
    OBVIOUS
  <2> QED BY <2>1, <2>2 DEF Rounded, d
<1> HIDE DEF share
<1>3. a \in Int /\ a >= 1
  BY <1>2 DEF Max
<1> HIDE DEF a
<1>4. limit \in Int /\ limit > 0
  BY DEF InputOK, Cut
<1>5. Want = Min({a, d, limit})
  BY DEF Want, a, share, d
<1>6. Want \in {a, d, limit} /\ Want <= a /\ Want <= d /\ Want <= limit
  BY <1>1, <1>3, <1>4, <1>5 DEF Min
<1> QED BY <1>1, <1>3, <1>4, <1>6 DEF d

\* The candidates by the port they are dialable on.
ByFamily == {p \in All \X All : BeforeV6(p[1], p[2])}

LEMMA ReserveStep ==
  ASSUME SelInv, Reserve
  PROVE  SelInv'
<1> USE DEF Reserve, input
<1>1. InputOK /\ InputOK' /\ fracs' = <<>> /\ step = "reserve"
  BY DEF SelInv, InputOK
<1>2. CASE limit <= 0 \/ Len(cands) <= limit
  <2>1. picked' = All /\ step' = "done" /\ reserved' = reserved
    BY <1>1, <1>2 DEF InputOK
  <2>2. limit = 0 \/ (Len(cands) <= limit /\ Len(cands) \in Nat /\ limit \in Nat)
    BY <1>1, <1>2, InputFacts DEF InputOK
  <2>3. Cardinality(picked') = Len(cands)
    BY <1>1, <2>1, InputFacts
  <2>4. FillsTree'
    <3>1. limit # 0 => Min({limit, Len(cands)}) = Len(cands)
      BY <1>1, <2>2, MinOfTwo
    <3> QED BY <2>3, <3>1 DEF FillsTree
  <2>5. EveryClientCarried'
    <3>1. All' = All /\ Dialable' = Dialable /\ Dialable \subseteq All
      BY DEF All, Dialable
    <3> QED BY <2>1, <3>1 DEF EveryClientCarried
  <2>6. SharesWithinOne'
    BY <1>1 DEF SharesWithinOne
  <2> QED BY <1>1, <2>1, <2>4, <2>5, <2>6 DEF SelInv
<1>3. CASE limit > 0 /\ Len(cands) > limit
  <2>1. /\ step' = "fill" /\ Cut /\ Cut'
        /\ reserved' = {j \in Dialable : Cardinality({i \in Dialable : BeforeV6(i, j)}) < Want}
    BY <1>1, <1>3, InputFacts DEF Cut, InputOK
  <2>2. Orders(ByFamily, Dialable)
    <3>1. \A i \in Dialable : i \in All /\ i \in Int /\ cands[i].v6 \in {"shared", "own"}
      BY <1>1, InputFacts DEF Dialable
    <3>2. \A i, j \in Dialable : <<i, j>> \in ByFamily <=> BeforeV6(i, j)
      BY <3>1 DEF ByFamily
    <3> QED BY <3>1, <3>2 DEF Orders, BeforeV6
  <2>3. reserved' = {j \in Dialable : Rank(ByFamily, Dialable, j) < Want}
    <3>1. ASSUME NEW j \in Dialable
          PROVE  {i \in Dialable : BeforeV6(i, j)} = Preds(ByFamily, Dialable, j)
      BY DEF Preds, ByFamily, Dialable
    <3> QED BY <2>1, <3>1 DEF Rank
  <2>4. Cardinality(reserved') = Want
    <3>1. Cardinality(Dialable) \in Nat
      BY <1>1, <2>1, WantFacts, FS_CardinalityType
    <3> HIDE DEF Reserve
    <3>2. IsFiniteSet(Dialable) /\ Want \in Nat /\ Want <= Cardinality(Dialable)
      BY <1>1, <2>1, WantFacts
    <3>3. Cardinality({j \in Dialable : Rank(ByFamily, Dialable, j) < Want}) = Want
      BY <2>2, <3>1, <3>2, FirstPlaces
    <3> QED BY <2>3, <3>3
  <2>5. ReservedOK'
    <3>1. Dialable' = Dialable /\ limit' = limit
      BY DEF Dialable, All
    <3>2. reserved' \subseteq Dialable /\ Cardinality(reserved') <= limit
      BY <1>1, <2>1, <2>4, WantFacts
    <3>3. Dialable # {} => reserved' # {}
      <4> HIDE DEF Reserve
      <4>1. Dialable # {} => Cardinality(reserved') > 0
        BY <1>1, <2>1, <2>4, WantFacts
      <4>2. Cardinality({}) = 0
        BY FS_EmptySet
      <4> QED BY <4>1, <4>2
    <3> QED BY <3>1, <3>2, <3>3 DEF ReservedOK
  <2>6. FillsTree' /\ EveryClientCarried' /\ SharesWithinOne'
    BY <2>1 DEF FillsTree, EveryClientCarried, SharesWithinOne
  <2> QED BY <1>1, <2>1, <2>5, <2>6 DEF SelInv
<1> QED BY <1>2, <1>3

\* What is filled in beside the reserved candidates makes up the limit.
LEMMA PickedCount ==
  ASSUME InputOK, ReservedOK, Cut, NEW F \in SUBSET Rest, Cardinality(F) = Room
  PROVE  Cardinality(Merged(F)) = Min({limit, Len(cands)})
<1>1. IsFiniteSet(F) /\ F \cap reserved = {}
  BY RestFacts, FS_Subset DEF Rest
<1>2. Cardinality(reserved \cup F) = Cardinality(reserved) + Cardinality(F)
  <2>1. Cardinality(reserved \cap F) = 0
    <3>1. reserved \cap F = {}
      BY <1>1
    <3> QED BY <3>1, FS_EmptySet
  <2>2. Cardinality(reserved \cup F) = Cardinality(reserved) + Cardinality(F) - Cardinality(reserved \cap F)
    BY <1>1, RestFacts, FS_Union
  <2>3. Cardinality(F) \in Nat /\ Cardinality(reserved) \in Nat
    BY RestFacts
  <2> QED BY <2>1, <2>2, <2>3
<1>3. limit \in Int /\ Len(cands) \in Int /\ limit <= Len(cands)
  BY InputFacts DEF InputOK, Cut
<1>4. Min({limit, Len(cands)}) = limit
  BY <1>3, MinOfTwo
<1> QED BY <1>2, <1>3, <1>4, RestFacts DEF Merged, Room

\* The clients nobody has reserved a slot for are those that get a floor.
LEMMA FloorsAre ==
  ASSUME InputOK, ReservedOK
  PROVE  Floors = ({cands[i].client : i \in All} \ {Unknown}) \ {cands[i].client : i \in reserved}
BY InputFacts DEF Floors, InPool, Pool, Held, Rest

LEMMA FillRankedStep ==
  ASSUME SelInv, FillRanked
  PROVE  SelInv'
<1> USE DEF FillRanked, input
<1>1. /\ InputOK /\ Cut /\ ReservedOK /\ step = "fill" /\ step' = "done" /\ fracs' = <<>>
      /\ picked' = Merged(FirstOf(Rest, Room))
  BY DEF SelInv
<1>2. InputOK' /\ Room' = Room /\ All' = All /\ Dialable' = Dialable
  BY <1>1 DEF InputOK, Room, All, Dialable
<1>3. Cardinality(Rest) > Room
  BY <1>1, RestFacts, InputFacts DEF Cut, Room, InputOK
<1>4. FirstOf(Rest, Room) \in SUBSET Rest /\ Cardinality(FirstOf(Rest, Room)) = Room
  BY <1>1, <1>3, RestFacts, FirstOfCount
<1>5. FillsTree'
  <2>1. Cardinality(picked') = Min({limit, Len(cands)})
    BY <1>1, <1>4, PickedCount
  <2> QED BY <1>1, <2>1 DEF FillsTree, Cut
<1>6. EveryClientCarried'
  <2> DEFINE clients == {cands[i].client : i \in All} \ {Unknown}
             held == {cands[i].client : i \in reserved}
  <2>1. reserved \subseteq picked'
    BY <1>1 DEF Merged
  <2>2. Dialable # {} => picked' \cap Dialable # {}
    BY <1>1, <2>1 DEF ReservedOK
  <2>3. ASSUME balanced, Cardinality(clients \ held) <= Room
        PROVE  clients \subseteq {cands[i].client : i \in picked'}
    <3>1. Room = 0
      BY <1>1, <1>3, <2>3, RestFacts
    <3>2. IsFiniteSet(Floors) /\ Floors = clients \ held
      <4>1. Floors \subseteq InPool
        BY DEF Floors
      <4> QED BY <4>1, <1>1, PoolFacts, FloorsAre, FS_Subset
    <3>3. clients \ held = {}
      <4>1. Cardinality(clients \ held) \in Nat
        BY <3>2, FS_CardinalityType
      <4>2. Cardinality(clients \ held) = 0
        BY <4>1, <3>1, <2>3
      <4> QED BY <4>2, <3>2, FS_EmptySet
    <3> QED BY <3>3, <2>1
  <2> QED BY <1>1, <1>2, <2>2, <2>3 DEF EveryClientCarried
<1>7. SharesWithinOne'
  BY <1>1 DEF SharesWithinOne
<1> QED BY <1>1, <1>2, <1>5, <1>6, <1>7 DEF SelInv

\* The properties are about a selection that is done.
LEMMA NotDone ==
  ASSUME step' # "done"
  PROVE  FillsTree' /\ EveryClientCarried' /\ SharesWithinOne'
BY DEF FillsTree, EveryClientCarried, SharesWithinOne

LEMMA ShareStep ==
  ASSUME SelInv, Share
  PROVE  SelInv'
<1>1. /\ InputOK /\ Cut /\ ReservedOK /\ step' = "remainders" /\ next' = 1
      /\ balanced /\ Room > 0 /\ Cardinality(Rest) > Room
      /\ UNCHANGED <<cands, limit, balanced, reserved>>
  BY DEF SelInv, Share, input
<1>2. Remaining \in Nat /\ Free \in Nat /\ Free > Remaining /\ Room \in Nat
  BY <1>1, FreeFacts, RestFacts
<1>3. Floored \in Counts /\ Total(Floored) \in Nat /\ \A c \in AllClients : Floored[c] <= Size(c)
  BY <1>1, FloorFacts
<1>4. SharesOK'
  <2>1. CASE Remaining <= 0
    <3>1. slots' = Floored /\ fracs' = <<>>
      BY <2>1 DEF Share
    <3>2. Total(Floored) = Room
      BY <2>1, <1>2, <1>3 DEF Remaining
    <3>3. \A c \in AllClients : Floored[c] \in Nat
      BY <1>3 DEF Counts
    <3> QED BY <3>1, <3>2, <3>3, <1>1, <1>2, <1>3, SameInput DEF SharesOK
  <2>2. CASE Remaining > 0
    <3> DEFINE left == [c \in AllClients |-> Left(c)]
               w == [c \in AllClients |-> Whole(c)]
               n == Cardinality(InPool)
    <3>0. ~(Free <= 0 \/ Remaining <= 0)
      BY <2>2, <1>2
    <3>1. /\ slots' = [c \in AllClients |-> Floored[c] + Whole(c)]
          /\ fracs' \in {q \in [1..n -> InPool] :
                          /\ IsInjective(q)
                          /\ \A i, j \in DOMAIN q : i < j => left[q[i]] >= left[q[j]]}
      BY <3>0 DEF Share
    <3>2. ASSUME NEW c \in AllClients
          PROVE  /\ Floored[c] \in Nat /\ Whole(c) \in Nat
                 /\ Floored[c] + Whole(c) <= Size(c)
      <4>1. Floored[c] \in Nat /\ Whole(c) \in 0..Unfilled(Floored, c) /\ Size(c) \in Nat
            /\ Unfilled(Floored, c) \in Nat /\ Unfilled(Floored, c) = Size(c) - Floored[c]
        BY <1>1, <1>3, WholeFacts, PoolFacts DEF Counts, Unfilled
      <4> QED BY <4>1
    <3>3. slots' \in Counts /\ Total(slots') <= Room
      <4>1. w \in Counts /\ Total(w) \in Nat /\ Total(w) <= Remaining
        BY <1>1, WholeTotal
      <4>2. slots' = [c \in AllClients |-> Floored[c] + w[c]]
        BY <3>1
      <4> HIDE DEF w
      <4>3. slots' \in Counts /\ Total(slots') = Total(Floored) + Total(w)
        BY <4>1, <4>2, <1>3, SumAdd
      <4> QED BY <4>1, <4>3, <1>2, <1>3 DEF Remaining
    <3>4. \A c \in AllClients : Floored[c] <= slots'[c] /\ slots'[c] <= Size(c)
      BY <3>1, <3>2
    <3>5. fracs' \in [1..n -> InPool] /\ IsInjective(fracs')
      BY <3>1
    <3>6. \A i, j \in 1..n : i < j => Left(fracs'[i]) >= Left(fracs'[j])
      <4>1. \A i, j \in 1..n : i < j => left[fracs'[i]] >= left[fracs'[j]]
        BY <3>1, <3>5
      <4>2. \A i \in 1..n : left[fracs'[i]] = Left(fracs'[i])
        BY <3>5, <1>1, PoolFacts
      <4> QED BY <4>1, <4>2
    <3>7. n \in Nat /\ Len(fracs') = n
      <4>1. n \in Nat
        BY <1>1, PoolFacts, FS_CardinalityType
      <4> HIDE DEF n
      <4> QED BY <3>5, <4>1
    <3>8. n > 0
      <4>1. InPool # {}
        <5>1. Rest # {}
          BY <1>1, <1>2, FS_EmptySet
        <5>2. PICK i \in Rest : TRUE
          BY <5>1
        <5>3. cands[i].client \in AllClients
          BY <1>1, <5>2, RestFacts, InputFacts
        <5> QED BY <5>2, <5>3 DEF InPool, Pool
      <4> QED BY <4>1, <3>7, <1>1, PoolFacts, FS_EmptySet
    <3>9. FracsOK'
      <4>1. InPool' = InPool /\ \A i \in 1..n : Left(fracs[i])' = Left(fracs'[i])
        <5>1. \A i \in 1..n : fracs'[i] \in AllClients
          BY <3>5, <1>1, PoolFacts
        <5> QED BY <5>1, <1>1, SameInput
      <4> HIDE DEF n
      <4>2. n' = n
        BY <4>1 DEF n
      <4>3. fracs' \in [1..Cardinality(InPool') -> InPool']
        BY <4>1, <3>5 DEF n
      <4>4. \A i, j \in 1..Cardinality(InPool') : i < j => Left(fracs[i])' >= Left(fracs[j])'
        BY <4>1, <3>6 DEF n
      <4> QED BY <4>3, <4>4, <3>5 DEF FracsOK
    <3>10. Handed(0)'
      <4>1. 0 % n = 0
        BY <3>7, <3>8
      <4>2. \A c \in AllClients : slots'[c] = Floored'[c] + Whole(c)' + 0
        BY <3>1, <3>2, <1>1, SameInput
      <4>3. ~\E i \in 1..0 : TRUE
        OBVIOUS
      <4> HIDE DEF n
      <4> QED BY <4>1, <4>2, <4>3, <3>7, <1>1 DEF Handed
    <3>11. 0 \in 0..Len(fracs')
      BY <3>7
    <3> HIDE DEF n
    <3> QED BY <3>3, <3>4, <3>9, <3>10, <3>11, <3>7, <3>8, <2>2, <1>1, <1>2, SameInput DEF SharesOK
  <2> QED BY <2>1, <2>2, <1>2
<1> QED BY <1>1, <1>4, SameInput, NotDone DEF SelInv

LEMMA HandOutStep ==
  ASSUME SelInv, HandOut
  PROVE  SelInv'
<1>1. /\ InputOK /\ Cut /\ ReservedOK /\ SharesOK /\ Unshared /\ step' = "remainders"
      /\ fracs' = fracs /\ UNCHANGED <<cands, limit, balanced, reserved>>
  BY DEF SelInv, HandOut, input
<1>2. PICK k \in 0..Len(fracs) : Handed(k)
  BY <1>1 DEF SharesOK, Unshared
<1> DEFINE c == fracs[k + 1]
<1>3. /\ k + 1 \in 1..Len(fracs) /\ next = k + 1 /\ k \in Nat /\ Len(fracs) \in Nat
      /\ c \in AllClients /\ Left(c) > 0
      /\ ~\E i \in 1..k : fracs[i] = c
      /\ slots[c] < Size(c)
  BY <1>1, <1>2, NextInTurn
<1>4. /\ slots' = [slots EXCEPT ![c] = @ + 1]
      /\ next' = ((k + 1) % Len(fracs)) + 1
  BY <1>3 DEF HandOut
<1>5. slots \in Counts /\ Total(slots) < Room /\ Total(slots) \in Nat /\ Room \in Nat
  BY <1>1, SeatsFinite, RestFacts DEF SharesOK, Unshared
<1>6. slots' \in Counts /\ Total(slots') <= Room
  <2>1. slots' \in Counts /\ Total(slots') = Total(slots) + 1
    BY <1>3, <1>4, <1>5, SumOneMore
  <2> QED BY <2>1, <1>5
<1>7. \A d \in AllClients : slots'[d] = slots[d] + (IF d = c THEN 1 ELSE 0)
  BY <1>3, <1>4, <1>5 DEF Counts
<1> HIDE DEF c
<1>8. ASSUME NEW d \in AllClients PROVE Floored[d] <= slots'[d] /\ slots'[d] <= Size(d)
  <2>1. /\ Floored[d] <= slots[d] /\ slots[d] <= Size(d)
        /\ Floored[d] \in Nat /\ slots[d] \in Nat /\ Size(d) \in Nat
    BY <1>1, FloorFacts, PoolFacts DEF SharesOK, Counts
  <2>2. CASE d = c
    BY <2>1, <2>2, <1>3, <1>7
  <2>3. CASE d # c
    BY <2>1, <2>3, <1>7
  <2> QED BY <2>2, <2>3
<1>9. FracsOK /\ fracs # <<>> /\ Remaining > 0 /\ Free > 0
  BY <1>1 DEF SharesOK, Unshared
<1>10. \A i \in 1..Len(fracs) : fracs[i] \in AllClients /\ Left(fracs[i])' = Left(fracs[i])
  <2>1. \A i \in 1..Len(fracs) : fracs[i] \in AllClients
    BY <1>1, <1>9, FracsAll, PoolFacts
  <2> QED BY <2>1, <1>1, SameInput
<1>11. FracsOK'
  <2>1. InPool' = InPool /\ Len(fracs) = Cardinality(InPool)
    BY <1>1, <1>9, SameInput, FracsAll
  <2>2. \A i \in 1..Cardinality(InPool) : Left(fracs[i])' = Left(fracs[i])
    BY <1>1, <1>10, <2>1
  <2> QED BY <1>1, <1>9, <2>1, <2>2 DEF FracsOK
<1>12. Handed(k + 1)'
  <2>1. ASSUME NEW d \in AllClients
        PROVE  slots'[d] = Floored[d] + Whole(d) + (IF \E i \in 1..(k + 1) : fracs[i] = d THEN 1 ELSE 0)
    <3>1. /\ slots[d] = Floored[d] + Whole(d) + (IF \E i \in 1..k : fracs[i] = d THEN 1 ELSE 0)
          /\ Floored[d] \in Nat /\ Whole(d) \in Nat
      BY <1>1, <1>2, FloorFacts, WholeFacts DEF Handed, Counts, SharesOK
    <3>2. (\E i \in 1..(k + 1) : fracs[i] = d) <=> ((\E i \in 1..k : fracs[i] = d) \/ d = c)
      BY <1>3 DEF c
    <3>3. CASE d = c
      BY <3>1, <3>2, <3>3, <1>3, <1>7
    <3>4. CASE d # c
      BY <3>1, <3>2, <3>4, <1>7
    <3> QED BY <3>3, <3>4
  <2>2. \A i \in 1..(k + 1) : Left(fracs[i]) > 0
    BY <1>2, <1>3 DEF Handed, c
  <2>3. \A d \in AllClients : Floored'[d] = Floored[d] /\ Whole(d)' = Whole(d)
    BY <1>1, SameInput
  <2>4. \A i \in 1..(k + 1) : Left(fracs[i])' > 0
    BY <1>1, <1>3, <1>10, <2>2
  <2> QED BY <1>1, <1>4, <2>1, <2>3, <2>4 DEF Handed
<1>13. SharesOK'
  <2>1. k + 1 \in 0..Len(fracs')
    BY <1>1, <1>3
  <2>2. balanced /\ Room > 0 /\ Cardinality(Rest) > Room
    BY <1>1 DEF SharesOK
  <2> QED BY <2>1, <2>2, <1>1, <1>6, <1>8, <1>9, <1>11, <1>12, SameInput DEF SharesOK
<1> QED BY <1>1, <1>13, SameInput, NotDone DEF SelInv

\* When the loop ends all slots are taken.
LEMMA AllTaken ==
  ASSUME InputOK, ReservedOK, SharesOK, ~Unshared
  PROVE  Total(slots) = Room
<1>1. slots \in Counts /\ Total(slots) \in Nat /\ Total(slots) <= Room /\ Room \in Nat
  BY SeatsFinite, RestFacts DEF SharesOK
<1>2. CASE Total(slots) >= Room
  BY <1>1, <1>2
<1>3. CASE fracs = <<>>
  BY <1>3 DEF SharesOK
<1>4. CASE \A c \in InPool : ~(slots[c] < Size(c))
  <2> DEFINE all == [c \in AllClients |-> Size(c)]
  <2>1. all \in Counts /\ Total(all) = Cardinality(Rest) /\ Cardinality(Rest) > Room
        /\ Cardinality(Rest) \in Nat
    BY PoolFacts, RestFacts DEF SharesOK
  <2>2. \A c \in AllClients : all[c] <= slots[c]
    <3> SUFFICES ASSUME NEW c \in AllClients PROVE Size(c) <= slots[c]
      OBVIOUS
    <3>1. Size(c) \in Nat /\ slots[c] \in Nat /\ (c \notin InPool => Size(c) = 0)
      BY <1>1, PoolFacts DEF Counts
    <3> QED BY <3>1, <1>4
  <2> HIDE DEF all
  <2>3. Total(all) <= Total(slots)
    BY <1>1, <2>1, <2>2, SumMono
  <2> QED BY <1>1, <2>1, <2>3
<1> QED BY <1>1, <1>2, <1>3, <1>4 DEF Unshared

LEMMA FillStep ==
  ASSUME SelInv, Fill
  PROVE  SelInv'
<1> DEFINE P(c) == FirstOf(Pool(c), slots[c])
           F == UNION {P(c) : c \in AllClients}
<1>1. /\ InputOK /\ Cut /\ ReservedOK /\ SharesOK /\ ~Unshared /\ step' = "done"
      /\ slots' = slots /\ fracs' = fracs /\ picked' = Merged(F)
      /\ UNCHANGED <<cands, limit, balanced, reserved>>
  BY DEF SelInv, Fill, input
<1>2. ASSUME NEW c \in AllClients
      PROVE  P(c) \subseteq Pool(c) /\ Cardinality(P(c)) = slots[c] /\ slots[c] \in Nat
  <2>1. slots[c] \in Nat /\ slots[c] <= Size(c)
    BY <1>1 DEF SharesOK, Counts
  <2>2. Pool(c) \in SUBSET Int /\ IsFiniteSet(Pool(c))
    BY <1>1, PoolFacts
  <2> QED BY <2>1, <2>2, FirstOfCount DEF Size
<1>3. F \in SUBSET Rest
  BY <1>2 DEF Pool
<1>4. \A c \in AllClients : Of(F, c) = P(c)
  <2>1. \A c \in AllClients : \A i \in P(c) : cands[i].client = c
    BY <1>2 DEF Pool
  <2> HIDE DEF P
  <2> QED BY <2>1 DEF Of
<1>5. Cardinality(F) = Room
  <2>1. [c \in AllClients |-> Cardinality(Of(F, c))] = slots
    <3>1. \A c \in AllClients : Cardinality(Of(F, c)) = slots[c]
      BY <1>2, <1>4
    <3> HIDE DEF F
    <3> QED BY <3>1, <1>1 DEF SharesOK, Counts
  <2>2. F \in SUBSET All
    BY <1>1, <1>3, RestFacts
  <2> HIDE DEF F
  <2> QED BY <2>1, <2>2, <1>1, PoolsAddUp, AllTaken
<1>6. FillsTree'
  <2> HIDE DEF F
  <2>1. Cardinality(picked') = Min({limit, Len(cands)})
    BY <1>1, <1>3, <1>5, PickedCount
  <2> QED BY <2>1, <1>1 DEF FillsTree, Cut
<1>7. EveryClientCarried'
  <2> DEFINE clients == {cands[i].client : i \in All} \ {Unknown}
             held == {cands[i].client : i \in reserved}
  <2>1. reserved \subseteq picked' /\ F \subseteq picked'
    BY <1>1 DEF Merged
  <2>2. Dialable # {} => picked' \cap Dialable # {}
    BY <1>1, <2>1 DEF ReservedOK
  <2>3. ASSUME Cardinality(clients \ held) <= Room, NEW c \in clients
        PROVE  \E i \in picked' : cands[i].client = c
    <3>1. CASE c \in held
      BY <3>1, <2>1
    <3>2. CASE c \notin held
      <4>1. Floors = clients \ held /\ c \in Floors /\ c \in AllClients
        <5>1. Floors = clients \ held
          BY <1>1, FloorsAre
        <5>2. c \in Floors
          BY <5>1, <3>2
        <5> QED BY <5>1, <5>2, <1>1, PoolFacts DEF Floors
      <4>2. Floored[c] = 1 /\ Floored[c] <= slots[c]
        BY <4>1, <2>3, <1>1, FloorFacts DEF SharesOK
      <4>3. P(c) # {}
        <5>1. Cardinality(P(c)) > 0
          BY <4>1, <4>2, <1>2
        <5> HIDE DEF P
        <5> QED BY <5>1, FS_EmptySet
      <4>4. PICK i \in P(c) : TRUE
        BY <4>3
      <4>5. i \in F /\ cands[i].client = c
        BY <4>1, <4>4, <1>2 DEF Pool
      <4> QED BY <4>5, <2>1
    <3> QED BY <3>1, <3>2
  <2>4. All' = All /\ Dialable' = Dialable /\ Room' = Room
    BY <1>1 DEF All, Dialable, Room
  <2> HIDE DEF F
  <2> QED BY <1>1, <2>2, <2>3, <2>4 DEF EveryClientCarried
<1>8. SharesWithinOne'
  <2> SUFFICES ASSUME fracs # <<>>, NEW c \in InPool
               PROVE  LET extra == slots[c] - Floored[c]
                          free == Cardinality(Rest) - Total(Floored)
                      IN  /\ extra * free > (Room - Total(Floored)) * Unfilled(Floored, c) - free
                          /\ extra * free < (Room - Total(Floored)) * Unfilled(Floored, c) + free
    BY <1>1, SameInput, PoolFacts DEF SharesWithinOne
  <2>1. PICK k \in 0..Len(fracs) : Handed(k)
    BY <1>1 DEF SharesOK
  <2>2. c \in AllClients /\ Cardinality(Rest) > Room
    BY <1>1, PoolFacts DEF SharesOK
  <2> DEFINE one == IF \E i \in 1..k : fracs[i] = c THEN 1 ELSE 0
             extra == slots[c] - Floored[c]
  <2>3. one = 1 => Left(c) > 0
    BY <2>1 DEF Handed
  <2>4. /\ Whole(c) \in Nat /\ Left(c) \in 0..(Free - 1) /\ Floored[c] \in Nat
        /\ Remaining * Unfilled(Floored, c) = Free * Whole(c) + Left(c)
    BY <1>1, <2>2, WholeFacts, FloorFacts DEF Counts
  <2>5. extra = Whole(c) + one
    <3>1. slots[c] = Floored[c] + Whole(c) + one
      BY <2>1, <2>2 DEF Handed
    <3> QED BY <3>1, <2>4
  <2>6. Free \in Nat /\ Free > 0 /\ Free = Cardinality(Rest) - Total(Floored)
    BY <1>1, <2>2, FreeFacts
  <2>7. extra * Free > Remaining * Unfilled(Floored, c) - Free
        /\ extra * Free < Remaining * Unfilled(Floored, c) + Free
    <3>1. Free * Whole(c) \in Nat /\ Whole(c) * Free = Free * Whole(c)
          /\ (Whole(c) + 1) * Free = Free * Whole(c) + Free
      BY <2>4, <2>6
    <3>2. one = 0 \/ (one = 1 /\ Left(c) > 0)
      BY <2>3
    <3> HIDE DEF extra, one
    <3>3. extra * Free = Free * Whole(c) \/ (extra * Free = Free * Whole(c) + Free /\ Left(c) > 0)
      BY <3>1, <3>2, <2>4, <2>5
    <3>4. extra * Free \in Nat /\ Remaining * Unfilled(Floored, c) \in Int
      <4> DEFINE p == Free * Whole(c)
      <4>0. p \in Nat
        BY <3>1
      <4> HIDE DEF p
      <4>1. p + Free \in Nat /\ p + Left(c) \in Int
        BY <4>0, <2>4, <2>6
      <4> QED BY <4>0, <4>1, <3>3, <2>4 DEF p
    <3> QED BY <3>1, <3>3, <3>4, <2>4, <2>6, Between
  <2> QED BY <2>6, <2>7 DEF Remaining
<1>9. InputOK'
  BY <1>1, SameInput
<1> QED BY <1>1, <1>6, <1>7, <1>8, <1>9 DEF SelInv

-----------------------------------------------------------------------------
(* 9. The theorems *)

LEMMA InitInv == SelInit => SelInv
<1> SUFFICES ASSUME SelInit PROVE SelInv
  OBVIOUS
<1>1. cands \in Seq(Candidate({"none", "shared", "own"}))
  <2>1. ASSUME NEW V, V \subseteq {"none", "shared", "own"}, NEW m, m \in Nat,
               NEW q \in Lists(V, m)
        PROVE  q \in Seq(Candidate({"none", "shared", "own"}))
    <3>1. PICK n \in 0..m : q \in [1..n -> Candidate(V)]
      BY DEF Lists
    <3>2. Candidate(V) \subseteq Candidate({"none", "shared", "own"})
      <4> SUFFICES ASSUME NEW x \in Candidate(V)
                   PROVE  x \in Candidate({"none", "shared", "own"})
        OBVIOUS
      <4> QED BY <2>1, Zenon DEF Candidate
    <3>4. n \in Nat
      BY <2>1
    <3>3. q \in [1..n -> Candidate({"none", "shared", "own"})]
      BY <3>1, <3>2
    <3> QED BY <3>3, <3>4
  <2>2. \/ cands \in Lists({"none"}, MaxLen)
        \/ cands \in Lists({"none", "shared", "own"}, MaxMixed)
    BY DEF SelInit
  <2> QED BY <2>1, <2>2, SelectAssumption
<1>2. limit \in Nat /\ balanced \in BOOLEAN /\ step = "reserve" /\ fracs = <<>>
  BY SelectAssumption DEF SelInit
<1> QED BY <1>1, <1>2 DEF SelInv, InputOK, FillsTree, EveryClientCarried, SharesWithinOne

LEMMA StepInv == SelInv /\ [SelNext]_selVars => SelInv'
<1> SUFFICES ASSUME SelInv, [SelNext]_selVars PROVE SelInv'
  OBVIOUS
<1>1. CASE Reserve
  BY <1>1, ReserveStep
<1>2. CASE FillRanked
  BY <1>2, FillRankedStep
<1>3. CASE Share
  BY <1>3, ShareStep
<1>4. CASE HandOut
  BY <1>4, HandOutStep
<1>5. CASE Fill
  BY <1>5, FillStep
<1>6. CASE UNCHANGED selVars
  <2>1. UNCHANGED <<cands, limit, balanced, reserved, slots, fracs, next, picked, step>>
    BY <1>6 DEF selVars
  <2>2. InputOK' /\ (Cut' <=> Cut) /\ (ReservedOK' <=> ReservedOK)
    BY <2>1, SameInput DEF SelInv
  <2>3. SharesOK => SharesOK'
    <3> SUFFICES ASSUME SharesOK PROVE SharesOK'
      OBVIOUS
    <3>1. \A c \in AllClients : slots'[c] = slots[c] /\ Size(c)' = Size(c)
      BY <2>1, SameInput
    <3>2. FracsOK /\ fracs # <<>> => FracsOK' /\ \A k \in 0..Len(fracs) : Handed(k) => Handed(k)'
      <4> SUFFICES ASSUME FracsOK, fracs # <<>>
                   PROVE  FracsOK' /\ \A k \in 0..Len(fracs) : Handed(k) => Handed(k)'
        OBVIOUS
      <4>1. \A i : Left(fracs[i])' = Left(fracs[i])
        BY <2>1, SameInput
      <4>2. FracsOK'
        BY <2>1, <4>1, SameInput DEF FracsOK
      <4>3. ASSUME NEW k \in 0..Len(fracs), Handed(k) PROVE Handed(k)'
        BY <2>1, <4>1, <4>3, SameInput DEF Handed
      <4> QED BY <4>2, <4>3
    <3> QED BY <2>1, <3>1, <3>2, SameInput DEF SharesOK
  <2>4. FillsTree' /\ EveryClientCarried' /\ SharesWithinOne'
    <3>1. FillsTree /\ EveryClientCarried /\ SharesWithinOne
      BY DEF SelInv
    <3>2. FillsTree' /\ EveryClientCarried'
      BY <3>1, <2>1, ZenonT(60) DEF FillsTree, EveryClientCarried, All, Dialable, Room
    <3>3. SharesWithinOne'
      <4>1. InPool' = InPool /\ InPool \subseteq AllClients /\ Floored' = Floored
            /\ Room' = Room /\ Rest' = Rest
        BY <2>1, SameInput DEF InPool
      <4>2. \A c \in InPool : Unfilled(Floored, c)' = Unfilled(Floored, c)
        BY <4>1, <2>1, SameInput
      <4> QED BY <3>1, <2>1, <4>1, <4>2 DEF SharesWithinOne
    <3> QED BY <3>2, <3>3
  <2> QED BY <2>1, <2>2, <2>3, <2>4 DEF SelInv
<1> QED BY <1>1, <1>2, <1>3, <1>4, <1>5, <1>6 DEF SelNext

LEMMA Inductive == SelSpec => []SelInv
BY InitInv, StepInv, PTL DEF SelSpec

\* A tree carries --limit nodes, or all the candidates there are: whatever is
\* reserved for IPv6, however many floors there are and however the shares
\* round, balanceClients leaves no slot empty and fills none twice.
THEOREM TreeIsFull == SelSpec => []FillsTree
<1>1. SelInv => FillsTree
  BY DEF SelInv
<1> QED BY <1>1, Inductive, PTL

\* No recognised client is left out of a balanced tree that has slots for all of
\* them, and IPv6 is in every tree that has a candidate for it.
THEOREM NobodyLeftOut == SelSpec => []EveryClientCarried
<1>1. SelInv => EveryClientCarried
  BY DEF SelInv
<1> QED BY <1>1, Inductive, PTL

\* What a client gets beyond its floor is less than one slot away from its exact
\* share: the loop over the remainders ends before it comes round.
THEOREM SharesAreFair == SelSpec => []SharesWithinOne
<1>1. SelInv => SharesWithinOne
  BY DEF SelInv
<1> QED BY <1>1, Inductive, PTL
==============================================================================
