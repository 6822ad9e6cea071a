----------------------- MODULE ReadinessHistoryProofs -----------------------
(***************************************************************************)
(* What holds of the readiness record and of the fork schedule under it    *)
(* for any releases, operators' lists, intervals and retention.            *)
(*                                                                         *)
(* The history: its points are of one schedule, in order and apart, go     *)
(* only by their age, and are thinned out without losing the newest or the *)
(* dense window.  Here a schedule may be anything.                         *)
(*                                                                         *)
(* The schedule: the SQL mirror of ReadinessAt, the eras, the verdicts on  *)
(* execution nodes and the series across an activation, for every network  *)
(* that is well formed when it is loaded (LoadAssumption).  How load comes *)
(* to it, a fold over the operator's list, is not looked into.             *)
(***************************************************************************)
EXTENDS ReadinessHistory, SequenceTheorems, FiniteSetTheorems, WellFoundedInduction, TLAPS

\* The points of a series with the given schedule.
PointsOf(schedule) == [at: Nat, of: {schedule}]

ActivationOf(schedule) == IF schedule[1] # 0 THEN schedule[1] ELSE schedule[2]

\* The points are of the schedule, in order, apart, and within the retention.
Curve(points, schedule) ==
  /\ points \in Seq(PointsOf(schedule))
  /\ \A i, j \in 1..Len(points) : i < j => points[i].at < points[j].at
  /\ \A i \in 2..Len(points) :
       points[i].at - points[i - 1].at >= IntervalAt(points[i].at, ActivationOf(schedule))
  /\ \A i \in 1..Len(points) : points[Len(points)].at - points[i].at <= Retention

HistoryInv ==
  /\ clock \in Nat
  /\ \A key \in DOMAIN store : Curve(store[key].points, store[key].schedule)

-----------------------------------------------------------------------------
(* Append and its retention *)

LEMMA LeastIndex ==
  ASSUME NEW S \in SUBSET Nat, S # {}
  PROVE  Min(S) \in S /\ \A i \in S : Min(S) <= i
<1>1. PICK m \in S : \A i \in S : <<i, m>> \notin OpToRel(<, Nat)
  BY NatLessThanWellFounded, WFMin
<1>2. ASSUME NEW i \in S PROVE m <= i
  <2>1. <<i, m>> \in Nat \X Nat /\ <<i, m>>[1] = i /\ <<i, m>>[2] = m
    OBVIOUS
  <2>2. ~(i < m)
    BY <1>1, <2>1, Zenon DEF OpToRel
  <2> QED BY <2>2
<1> QED BY <1>2 DEF Min

LEMMA IntervalPositive ==
  ASSUME NEW at, NEW activation
  PROVE  IntervalAt(at, activation) \in Nat \ {0}
BY HistoryAssumption DEF IntervalAt

\* The leading points before the cutoff go, and no others.
LEMMA RetainedPoints ==
  ASSUME NEW S, NEW points \in Seq(S), NEW cutoff \in Int, points # <<>>,
         \A i \in 1..Len(points) : points[i].at \in Int,
         points[Len(points)].at >= cutoff
  PROVE  \E first \in 1..Len(points) :
           /\ Retained(points, cutoff) \in Seq(S)
           /\ Len(Retained(points, cutoff)) = Len(points) - first + 1
           /\ \A i \in 1..(Len(points) - first + 1) :
                Retained(points, cutoff)[i] = points[first + i - 1]
           /\ points[first].at >= cutoff
           /\ \A i \in 1..(first - 1) : points[i].at < cutoff
<1> DEFINE I == {i \in DOMAIN points : points[i].at >= cutoff}
           first == Min(I)
<1>1. Len(points) \in Nat \ {0} /\ DOMAIN points = 1..Len(points)
  BY LenProperties, EmptySeq
<1>2. I \in SUBSET Nat /\ I # {}
  BY <1>1
<1>3. first \in I /\ \A i \in I : first <= i
  BY <1>2, LeastIndex
<1> HIDE DEF first
<1>4. first \in 1..Len(points) /\ points[first].at >= cutoff
  BY <1>1, <1>3
<1>5. \A i \in 1..(first - 1) : points[i].at < cutoff
  BY <1>1, <1>3, <1>4
<1>6. \A i \in first..Len(points) : points[i] \in S
  BY <1>1, <1>4, ElementOfSeq
<1>7. Retained(points, cutoff) = SubSeq(points, first, Len(points))
  BY DEF Retained, first
<1>8. /\ SubSeq(points, first, Len(points)) \in Seq(S)
      /\ Len(SubSeq(points, first, Len(points))) = Len(points) - first + 1
      /\ \A i \in 1..(Len(points) - first + 1) :
           SubSeq(points, first, Len(points))[i] = points[first + i - 1]
  BY <1>1, <1>4, <1>6, SubSeqProperties
<1> QED BY <1>4, <1>5, <1>7, <1>8

\* A point that Append accepts, and what is kept with it.
LEMMA AppendedPoints ==
  ASSUME clock \in Nat, NEW schedule, NEW points, Curve(points, schedule),
         points # <<>> =>
           clock - points[Len(points)].at >= IntervalAt(clock, ActivationOf(schedule))
  PROVE  LET new == Retained(Append(points, [at |-> clock, of |-> schedule]), clock - Retention)
         IN  /\ Curve(new, schedule) /\ new # <<>> /\ new[Len(new)].at = clock
             /\ \A i \in 1..Len(points) :
                  points[i].at < clock - Retention \/ \E j \in 1..Len(new) : new[j] = points[i]
<1> DEFINE S == PointsOf(schedule)
           p == [at |-> clock, of |-> schedule]
           all == Append(points, p)
           cutoff == clock - Retention
           new == Retained(all, cutoff)
           n == Len(points)
<1>1. points \in Seq(S) /\ p \in S /\ p.at = clock /\ Retention \in Nat
  BY HistoryAssumption DEF Curve, PointsOf
<1>a. \A x \in S : x.at \in Nat
  BY DEF PointsOf
<1> HIDE DEF S
<1>2. n \in Nat /\ \A i \in 1..n : points[i] \in S /\ points[i].at \in Nat
  BY <1>1, <1>a, LenProperties, ElementOfSeq
<1>3. /\ all \in Seq(S) /\ Len(all) = n + 1 /\ all[n + 1] = p
      /\ \A i \in 1..n : all[i] = points[i]
  BY <1>1, <1>2, AppendProperties
<1> HIDE DEF p
<1>4. n > 0 => points # <<>>
  BY EmptySeq
<1> HIDE DEF n, all
<1>5. \A i, j \in 1..(n + 1) : i < j => all[i].at < all[j].at
  <2> SUFFICES ASSUME NEW i \in 1..(n + 1), NEW j \in 1..(n + 1), i < j PROVE all[i].at < all[j].at
    OBVIOUS
  <2>1. CASE j <= n
    <3>1. i \in 1..n /\ j \in 1..n
      BY <1>2, <2>1
    <3> QED BY <1>3, <3>1 DEF Curve, n
  <2>2. CASE j = n + 1
    <3>1. i \in 1..n /\ n \in 1..n /\ points # <<>>
      BY <1>2, <1>4, <2>2
    <3>2. points[i].at <= points[n].at
      <4>1. CASE i = n
        BY <1>2, <3>1, <4>1
      <4>2. CASE i < n
        BY <1>2, <3>1, <4>2 DEF Curve, n
      <4> QED BY <1>2, <3>1, <4>1, <4>2
    <3>3. points[n].at < clock
      BY <1>2, <3>1, IntervalPositive DEF n
    <3>4. all[i].at = points[i].at /\ all[j].at = clock
      BY <1>1, <1>3, <2>2, <3>1
    <3>5. points[i].at \in Nat /\ points[n].at \in Nat
      BY <1>2, <3>1
    <3> QED BY <3>2, <3>3, <3>4, <3>5
  <2> QED BY <1>2, <2>1, <2>2
<1>6. \A i \in 2..(n + 1) :
        all[i].at - all[i - 1].at >= IntervalAt(all[i].at, ActivationOf(schedule))
  <2> SUFFICES ASSUME NEW i \in 2..(n + 1)
               PROVE  all[i].at - all[i - 1].at >= IntervalAt(all[i].at, ActivationOf(schedule))
    OBVIOUS
  <2>1. CASE i <= n
    <3>1. i \in 2..n /\ i \in 1..n /\ i - 1 \in 1..n
      BY <1>2, <2>1
    <3> QED BY <1>3, <3>1 DEF Curve, n
  <2>2. CASE i = n + 1
    <3>1. n \in 1..n /\ points # <<>> /\ i - 1 = n
      BY <1>2, <1>4, <2>2
    <3> QED BY <1>1, <1>3, <2>2, <3>1 DEF n
  <2> QED BY <1>2, <2>1, <2>2
<1>7. PICK first \in 1..(n + 1) :
           /\ new \in Seq(S) /\ Len(new) = n + 1 - first + 1
           /\ \A i \in 1..(n + 1 - first + 1) : new[i] = all[first + i - 1]
           /\ all[first].at >= cutoff
           /\ \A i \in 1..(first - 1) : all[i].at < cutoff
  <2>1. all # <<>>
    BY <1>2, <1>3, EmptySeq
  <2>2. \A i \in 1..Len(all) : all[i].at \in Int
    BY <1>3, <1>a, ElementOfSeq
  <2>3. all[Len(all)].at >= cutoff /\ cutoff \in Int
    BY <1>1, <1>3
  <2> HIDE DEF new
  <2>4. PICK first \in 1..Len(all) :
           /\ Retained(all, cutoff) \in Seq(S)
           /\ Len(Retained(all, cutoff)) = Len(all) - first + 1
           /\ \A i \in 1..(Len(all) - first + 1) :
                Retained(all, cutoff)[i] = all[first + i - 1]
           /\ all[first].at >= cutoff
           /\ \A i \in 1..(first - 1) : all[i].at < cutoff
    <3> HIDE DEF cutoff
    <3> QED BY <1>3, <2>1, <2>2, <2>3, RetainedPoints
  <2>5. new = Retained(all, cutoff) /\ Len(all) = n + 1
    BY <1>3 DEF new
  <2> HIDE DEF cutoff
  <2>6. first \in 1..(n + 1)
    BY <2>5
  <2>7. /\ new \in Seq(S) /\ Len(new) = n + 1 - first + 1
        /\ \A i \in 1..(n + 1 - first + 1) : new[i] = all[first + i - 1]
        /\ all[first].at >= cutoff
        /\ \A i \in 1..(first - 1) : all[i].at < cutoff
    BY <1>2, <2>4, <2>5
  <2> QED BY <2>6, <2>7
<1> HIDE DEF new
<1> DEFINE m == n + 1 - first + 1
<1>8. m \in Nat \ {0} /\ first \in Nat /\ first >= 1 /\ first <= n + 1
  BY <1>2, <1>7
<1>9. new # <<>> /\ new[Len(new)] = p
  <2>1. m \in 1..m /\ first + m - 1 = n + 1
    BY <1>2, <1>8
  <2>2. new[m] = all[first + m - 1]
    BY <1>7, <2>1
  <2> QED BY <1>3, <1>7, <1>8, <2>1, <2>2, EmptySeq
<1>10. \A i, j \in 1..m : i < j => new[i].at < new[j].at
  <2> SUFFICES ASSUME NEW i \in 1..m, NEW j \in 1..m, i < j PROVE new[i].at < new[j].at
    OBVIOUS
  <2>1. new[i] = all[first + i - 1] /\ new[j] = all[first + j - 1]
    BY <1>7
  <2>2. first + i - 1 \in 1..(n + 1) /\ first + j - 1 \in 1..(n + 1) /\ first + i - 1 < first + j - 1
    BY <1>2, <1>8
  <2> QED BY <1>5, <2>1, <2>2
<1>11. \A i \in 2..m : new[i].at - new[i - 1].at >= IntervalAt(new[i].at, ActivationOf(schedule))
  <2> SUFFICES ASSUME NEW i \in 2..m
               PROVE  new[i].at - new[i - 1].at >= IntervalAt(new[i].at, ActivationOf(schedule))
    OBVIOUS
  <2>1. i \in 1..m /\ i - 1 \in 1..m
    BY <1>8
  <2>2. new[i] = all[first + i - 1] /\ new[i - 1] = all[first + (i - 1) - 1]
    BY <1>7, <2>1
  <2>3. first + i - 1 \in 2..(n + 1) /\ first + (i - 1) - 1 = (first + i - 1) - 1
    BY <1>2, <1>8
  <2> QED BY <1>6, <2>2, <2>3
<1>12. \A i \in 1..m : new[m].at - new[i].at <= Retention
  <2> SUFFICES ASSUME NEW i \in 1..m PROVE new[m].at - new[i].at <= Retention
    OBVIOUS
  <2>1. new[m].at = clock
    BY <1>1, <1>7, <1>9
  <2>2. new[1] = all[first] /\ 1 \in 1..m
    BY <1>7, <1>8
  <2>3. new[1].at \in Nat /\ new[i].at \in Nat
    BY <1>7, <1>8, <1>a, <2>2, ElementOfSeq
  <2>4. new[i].at >= new[1].at
    BY <1>8, <1>10, <2>2, <2>3
  <2> QED BY <1>1, <1>7, <2>1, <2>2, <2>3, <2>4
<1>13. Curve(new, schedule)
  BY <1>7, <1>10, <1>11, <1>12 DEF Curve, S
<1>14. ASSUME NEW i \in 1..n
       PROVE  points[i].at < cutoff \/ \E j \in 1..m : new[j] = points[i]
  <2>1. CASE i < first
    BY <1>2, <1>3, <1>7, <1>8, <2>1
  <2>2. CASE i >= first
    <3> DEFINE j == i - first + 1
    <3>1. j \in 1..m /\ first + j - 1 = i
      BY <1>2, <1>8, <2>2
    <3>2. new[j] = all[first + j - 1]
      BY <1>7, <3>1
    <3> QED BY <1>3, <3>1, <3>2
  <2> QED BY <1>2, <1>8, <2>1, <2>2
<1> QED BY <1>1, <1>7, <1>9, <1>13, <1>14 DEF new, n, all, p

-----------------------------------------------------------------------------
(* recordReadiness *)

\* What is read back is a curve of the target's schedule, whatever the target is.
LEMMA StoredCurve ==
  ASSUME HistoryInv, NEW t
  PROVE  Stored(t).schedule = Schedule(t) /\ Curve(Stored(t).points, Schedule(t))
<1>1. CASE Name(t) \in DOMAIN store /\ store[Name(t)].schedule = Schedule(t)
  BY <1>1 DEF Stored, HistoryInv
<1>2. CASE ~(Name(t) \in DOMAIN store /\ store[Name(t)].schedule = Schedule(t))
  <2>1. Stored(t).schedule = Schedule(t) /\ Stored(t).points = <<>>
    BY <1>2 DEF Stored, Fresh
  <2>2. <<>> \in Seq(PointsOf(Schedule(t))) /\ Len(<<>>) = 0
    BY EmptySeq
  <2>3. Curve(<<>>, Schedule(t))
    BY <2>2 DEF Curve
  <2> QED BY <2>1, <2>3
<1> QED BY <1>1, <1>2

\* A step leaves the stored series alone or records a point of one of them.
LEMMA StoreKinds ==
  ASSUME HistoryInv, [Next]_vars
  PROVE  /\ clock' \in Nat
         /\ \/ store' = store
            \/ clock' = clock /\ \E t : ~TooSoon(t, Stored(t).points) /\ Put(t, Stored(t))
<1>1. CASE UNCHANGED vars
  BY <1>1 DEF vars, HistoryInv
<1>2. CASE Tick \/ StepBack \/ Restart \/ Upgrade
  BY <1>2 DEF Tick, StepBack, Restart, Upgrade, HistoryInv
<1>3. CASE StoreFails(Target) \/ RecordEarly(Target)
  BY <1>3 DEF StoreFails, RecordEarly, HistoryInv
<1>4. CASE Record(Target)
  BY <1>4 DEF Record, HistoryInv
<1> QED BY <1>1, <1>2, <1>3, <1>4 DEF Next

\* A recorded point makes a curve of the series it is appended to, and takes from it
\* only what is older than the retention.
LEMMA RecordedPoint ==
  ASSUME HistoryInv, NEW t, ~TooSoon(t, Stored(t).points), Put(t, Stored(t))
  PROVE  /\ DOMAIN store' = DOMAIN store \cup {Name(t)}
         /\ \A key \in DOMAIN store : key # Name(t) => store'[key] = store[key]
         /\ store'[Name(t)].schedule = Schedule(t)
         /\ Curve(store'[Name(t)].points, Schedule(t))
         /\ store'[Name(t)].points[Len(store'[Name(t)].points)].at = clock
         /\ \A i \in 1..Len(Stored(t).points) :
              \/ Stored(t).points[i].at < clock - Retention
              \/ \E j \in 1..Len(store'[Name(t)].points) :
                   store'[Name(t)].points[j] = Stored(t).points[i]
<1> DEFINE points == Stored(t).points
           new == Retained(Append(points, [at |-> clock, of |-> Schedule(t)]), clock - Retention)
<1>1. Stored(t).schedule = Schedule(t) /\ Curve(points, Schedule(t)) /\ clock \in Nat
  BY StoredCurve DEF HistoryInv
<1>2. /\ store' = [key \in DOMAIN store \cup {Name(t)} |->
                     IF key = Name(t) THEN Appended(t, Stored(t)) ELSE store[key]]
      /\ Appended(t, Stored(t)) = [schedule |-> Schedule(t), points |-> new]
  BY <1>1 DEF Put, Appended
<1>3. ActivationOf(Schedule(t)) = Activation(t)
  BY DEF ActivationOf, Activation, Schedule
<1> HIDE DEF points
<1>4. points # <<>> => clock - points[Len(points)].at >= IntervalAt(clock, ActivationOf(Schedule(t)))
  <2>1. ASSUME points # <<>> PROVE points[Len(points)].at \in Nat
    <3>1. points \in Seq(PointsOf(Schedule(t)))
      BY <1>1 DEF Curve
    <3>2. Len(points) \in 1..Len(points)
      BY <2>1, <3>1, EmptySeq
    <3>3. points[Len(points)] \in PointsOf(Schedule(t))
      BY <3>1, <3>2, ElementOfSeq
    <3> QED BY <3>3 DEF PointsOf
  <2>2. ~(points # <<>> /\ clock - points[Len(points)].at < IntervalAt(clock, Activation(t)))
    BY DEF TooSoon, Last, points
  <2> QED BY <1>1, <1>3, <2>1, <2>2, IntervalPositive
<1>5. /\ Curve(new, Schedule(t)) /\ new[Len(new)].at = clock
      /\ \A i \in 1..Len(points) :
           points[i].at < clock - Retention \/ \E j \in 1..Len(new) : new[j] = points[i]
  BY <1>1, <1>4, AppendedPoints
<1> HIDE DEF new
<1>6. store'[Name(t)] = [schedule |-> Schedule(t), points |-> new]
  BY <1>2
<1>7. store'[Name(t)].schedule = Schedule(t) /\ store'[Name(t)].points = new
  BY <1>6
<1>8. /\ DOMAIN store' = DOMAIN store \cup {Name(t)}
      /\ \A key \in DOMAIN store : key # Name(t) => store'[key] = store[key]
  BY <1>2
<1> QED BY <1>5, <1>7, <1>8 DEF points

LEMMA HistoryInvNext == HistoryInv /\ [Next]_vars => HistoryInv'
<1> SUFFICES ASSUME HistoryInv, [Next]_vars, NEW key \in DOMAIN store'
             PROVE  clock' \in Nat /\ Curve(store'[key].points, store'[key].schedule)
  BY StoreKinds DEF HistoryInv, Curve
<1>1. clock' \in Nat
  BY StoreKinds
<1>2. CASE store' = store
  BY <1>1, <1>2 DEF HistoryInv
<1>3. ASSUME NEW t, ~TooSoon(t, Stored(t).points), Put(t, Stored(t))
      PROVE  Curve(store'[key].points, store'[key].schedule)
  <2>1. CASE key = Name(t)
    BY <1>3, <2>1, RecordedPoint
  <2>2. CASE key # Name(t)
    BY <1>3, <2>2, RecordedPoint DEF HistoryInv
  <2> QED BY <2>1, <2>2
<1> QED BY <1>1, <1>2, <1>3, StoreKinds

LEMMA HistoryInvInit == Init => HistoryInv
BY DEF Init, HistoryInv

-----------------------------------------------------------------------------
(* thinHistory *)

\* The number of the elements of S before i.
Place(S, i) == Cardinality({j \in S : j < i})

LEMMA PlaceFacts ==
  ASSUME NEW S \in SUBSET Nat, IsFiniteSet(S)
  PROVE  /\ \A i \in S : Place(S, i) \in 0..(Cardinality(S) - 1)
         /\ \A i, j \in S : i < j => Place(S, i) < Place(S, j)
         /\ \A k \in 0..(Cardinality(S) - 1) : \E i \in S : Place(S, i) = k
<1>0. Cardinality(S) \in Nat
  BY FS_CardinalityType
<1>1. ASSUME NEW i \in S PROVE Place(S, i) \in 0..(Cardinality(S) - 1)
  <2> DEFINE B == {j \in S : j < i}
  <2>1. B \subseteq S \ {i}
    OBVIOUS
  <2>2. IsFiniteSet(S \ {i}) /\ Cardinality(S \ {i}) = Cardinality(S) - 1
    BY FS_RemoveElement
  <2>3. Cardinality(B) <= Cardinality(S \ {i}) /\ IsFiniteSet(B)
    BY <2>1, <2>2, FS_Subset
  <2> HIDE DEF B
  <2>4. Cardinality(B) \in Nat
    BY <2>3, FS_CardinalityType
  <2> QED BY <2>2, <2>3, <2>4, <1>0 DEF Place, B
<1>2. ASSUME NEW i \in S, NEW j \in S, i < j PROVE Place(S, i) < Place(S, j)
  <2> DEFINE B == {l \in S : l < i}
             C == {l \in S : l < j}
  <2>0. \A l \in S : l \in Int
    OBVIOUS
  <2>1. B \subseteq C /\ i \in C /\ i \notin B
    <3>1. ASSUME NEW l \in B PROVE l \in C
      <4>1. l \in S /\ l \in Int /\ i \in Int /\ j \in Int /\ l < i
        BY <2>0
      <4> QED BY <4>1, <1>2
    <3>2. i \in Int /\ ~(i < i)
      BY <2>0
    <3> QED BY <3>1, <3>2, <1>2
  <2>2. IsFiniteSet(C)
    <3>1. C \subseteq S
      OBVIOUS
    <3> QED BY <3>1, FS_Subset
  <2>3. Cardinality(B) <= Cardinality(C) /\ (Cardinality(C) = Cardinality(B) => C = B)
    BY <2>1, <2>2, FS_Subset
  <2>4. Cardinality(B) # Cardinality(C)
    BY <2>1, <2>3
  <2>5. Cardinality(B) \in Int /\ Cardinality(C) \in Int
    BY <1>1, <1>0 DEF Place
  <2> QED BY <2>3, <2>4, <2>5 DEF Place
<1> DEFINE f == [i \in S |-> Place(S, i)]
           T == 0..(Cardinality(S) - 1)
<1>3. f \in Injection(S, T)
  <2>1. f \in [S -> T]
    BY <1>1
  <2>2. ASSUME NEW i \in S, NEW j \in S, f[i] = f[j] PROVE i = j
    <3>1. Place(S, i) = Place(S, j) /\ Place(S, i) \in Int
      BY <1>0, <1>1, <2>2
    <3> QED BY <3>1, <1>2
  <2> QED BY <2>1, <2>2 DEF Injection, IsInjective
<1>4. IsFiniteSet(T) /\ Cardinality(T) = Cardinality(S)
  <2> DEFINE n == Cardinality(S)
  <2>1. n \in Nat
    BY <1>0
  <2> HIDE DEF n
  <2>2. IsFiniteSet(0..(n - 1)) /\ Cardinality(0..(n - 1)) = n
    BY <2>1, FS_Interval
  <2> QED BY <2>2 DEF n
<1>5. f \in Surjection(S, T)
  BY <1>3, <1>4, FS_Injection
<1>6. \A k \in T : \E i \in S : f[i] = k
  BY <1>5 DEF Surjection
<1> QED BY <1>1, <1>2, <1>6

\* InOrder has the elements of S and no others, in their order.
LEMMA InOrderFacts ==
  ASSUME NEW S \in SUBSET Nat, IsFiniteSet(S)
  PROVE  /\ Cardinality(S) \in Nat /\ DOMAIN InOrder(S) = 1..Cardinality(S)
         /\ \A k \in 1..Cardinality(S) : InOrder(S)[k] \in S
         /\ \A k, l \in 1..Cardinality(S) : k < l => InOrder(S)[k] < InOrder(S)[l]
         /\ \A i \in S : \E k \in 1..Cardinality(S) : InOrder(S)[k] = i
         /\ \A m \in S : (\A i \in S : i <= m) => InOrder(S)[Cardinality(S)] = m
<1> DEFINE n == Cardinality(S)
           q == InOrder(S)
<1>0. n \in Nat /\ DOMAIN q = 1..n
  BY FS_CardinalityType DEF InOrder
<1>1. ASSUME NEW k \in 1..n PROVE q[k] \in S /\ Place(S, q[k]) = k - 1
  <2>1. q[k] = CHOOSE i \in S : Place(S, i) = k - 1
    BY DEF InOrder, Place
  <2>2. k - 1 \in 0..(n - 1)
    BY <1>0
  <2> HIDE DEF q
  <2>3. \E i \in S : Place(S, i) = k - 1
    BY <2>2, PlaceFacts DEF n
  <2> QED BY <2>1, <2>3
<1> HIDE DEF q, n
<1>a. \A k \in 1..n : q[k] \in Nat /\ k \in Int
  <2>1. \A i \in S : i \in Nat
    OBVIOUS
  <2>2. ASSUME NEW k \in 1..n PROVE q[k] \in Nat /\ k \in Int
    <3>1. q[k] \in S
      BY <1>1, Zenon
    <3>2. k \in Int
      BY <1>0
    <3> QED BY <2>1, <3>1, <3>2
  <2> QED BY <2>2
<1>2. ASSUME NEW k \in 1..n, NEW l \in 1..n, k < l PROVE q[k] < q[l]
  <2>1. q[k] \in Nat /\ q[l] \in Nat /\ Place(S, q[k]) < Place(S, q[l])
    BY <1>a, <1>1, <1>2
  <2>2. CASE q[k] = q[l]
    BY <2>1, <2>2, <1>1, <1>a
  <2>3. CASE q[l] < q[k]
    <3>1. Place(S, q[l]) < Place(S, q[k])
      BY <2>3, <1>1, PlaceFacts
    <3> QED BY <3>1, <1>1, <1>2, <1>a
  <2> QED BY <2>1, <2>2, <2>3
<1>3. ASSUME NEW i \in S PROVE \E k \in 1..n : q[k] = i
  <2>1. Place(S, i) + 1 \in 1..n
    BY <1>0, PlaceFacts DEF n
  <2> DEFINE k == Place(S, i) + 1
  <2>2. q[k] \in S /\ Place(S, q[k]) = Place(S, i) /\ Place(S, i) \in Int
    BY <1>0, <1>1, <2>1, PlaceFacts DEF n
  <2> HIDE DEF k
  <2>3. q[k] \in Nat /\ i \in Nat
    BY <2>2
  <2>4. ~(q[k] < i) /\ ~(i < q[k])
    <3>1. q[k] < i => Place(S, q[k]) < Place(S, i)
      BY <2>2, PlaceFacts
    <3>2. i < q[k] => Place(S, i) < Place(S, q[k])
      BY <2>2, PlaceFacts
    <3> QED BY <3>1, <3>2, <2>2
  <2> QED BY <2>1, <2>3, <2>4 DEF k
<1>4. ASSUME NEW m \in S, \A i \in S : i <= m PROVE q[n] = m
  <2>1. PICK k \in 1..n : q[k] = m
    BY <1>3
  <2>2. ~(k < n)
    <3> SUFFICES ASSUME k < n PROVE FALSE
      OBVIOUS
    <3>1. n \in 1..n
      BY <1>0, <2>1
    <3>2. q[k] < q[n] /\ q[n] \in S
      BY <1>1, <1>2, <3>1
    <3>3. m \in Nat /\ q[n] \in Nat /\ q[n] <= m /\ m < q[n]
      BY <3>2, <2>1, <1>4
    <3> QED BY <3>3
  <2> QED BY <2>1, <2>2, <1>0
<1> QED BY <1>0, <1>1, <1>2, <1>3, <1>4 DEF q, n

\* Every step-th of a set is no more than its share of it.
LEMMA EveryStepth ==
  ASSUME NEW S \in SUBSET Nat, IsFiniteSet(S), NEW n \in Nat \ {0}, Cardinality(S) > n
  PROVE  LET step == (Cardinality(S) + n - 1) \div n
             E == {i \in S : Place(S, i) % step = 0}
         IN  IsFiniteSet(E) /\ Cardinality(E) <= n
<1> DEFINE size == Cardinality(S)
           step == (size + n - 1) \div n
           E == {i \in S : Place(S, i) % step = 0}
           f == [i \in E |-> Place(S, i) \div step]
           T == 0..(n - 1)
<1>0. size \in Nat
  BY FS_CardinalityType
<1> HIDE DEF size
<1>1. step \in Nat \ {0} /\ step * n >= size
  <2> DEFINE a == size + n - 1
  <2>1. a \in Nat /\ a >= n /\ size > n
    BY <1>0 DEF size
  <2> HIDE DEF a
  <2>2. a \div n \in Nat /\ a = n * (a \div n) + (a % n) /\ a % n \in 0..(n - 1)
    BY <2>1
  <2> DEFINE d == a \div n
  <2>3. step = d
    BY DEF a
  <2> HIDE DEF d
  <2>4. d \in Nat /\ a = n * d + (a % n) /\ a % n \in 0..(n - 1)
    BY <2>2 DEF d
  <2>5. n * d = d * n /\ n * d \in Nat /\ (d = 0 => n * d = 0)
    BY <2>4
  <2>6. d # 0
    BY <2>1, <2>4, <2>5
  <2>7. d * n >= size
    <3>1. a = size + n - 1
      BY DEF a
    <3> QED BY <3>1, <2>1, <2>4, <2>5, <1>0
  <2> QED BY <2>3, <2>4, <2>6, <2>7
<1> HIDE DEF step
<1>2. ASSUME NEW i \in E
      PROVE  Place(S, i) \div step \in T /\ Place(S, i) = step * (Place(S, i) \div step)
  <2> DEFINE p == Place(S, i)
  <2>1. p \in Nat /\ p < size /\ p % step = 0
    BY <1>0, PlaceFacts DEF size
  <2> HIDE DEF p
  <2> DEFINE d == p \div step
  <2>2. d \in Nat /\ p = step * d + (p % step)
    BY <1>1, <2>1
  <2> HIDE DEF d
  <2>3. p = step * d
    <3>1. step * d \in Nat
      BY <1>1, <2>2
    <3> QED BY <2>1, <2>2, <3>1
  <2>4. d < n
    <3> SUFFICES ASSUME d >= n PROVE FALSE
      BY <2>2
    <3>1. step * d = step * n + step * (d - n) /\ step * (d - n) \in Nat /\ step * n \in Nat
      <4>1. d = n + (d - n) /\ d - n \in Nat
        BY <2>2
      <4> QED BY <4>1, <1>1
    <3> QED BY <3>1, <2>1, <2>3, <1>0, <1>1
  <2> QED BY <2>2, <2>3, <2>4 DEF d, p
<1>3. f \in Injection(E, T)
  <2>1. f \in [E -> T]
    BY <1>2
  <2>2. ASSUME NEW i \in E, NEW j \in E, f[i] = f[j] PROVE i = j
    <3>1. Place(S, i) = Place(S, j)
      BY <1>2, <2>2
    <3>2. i \in Nat /\ j \in Nat /\ Place(S, i) \in Int
      BY <1>0, PlaceFacts DEF size
    <3> QED BY <3>1, <3>2, PlaceFacts
  <2> QED BY <2>1, <2>2 DEF Injection, IsInjective
<1>4. IsFiniteSet(T) /\ Cardinality(T) = n
  BY FS_Interval
<1>5. IsFiniteSet(E) /\ Cardinality(E) <= n
  <2>1. E \subseteq S
    OBVIOUS
  <2> HIDE DEF E, T, f
  <2>2. IsFiniteSet(E)
    BY <2>1, FS_Subset
  <2> QED BY <1>3, <1>4, <2>2, FS_Injection
<1> QED BY <1>5 DEF step, size

\* What CurveServed asks of the points that are served, of those that are stored.
Serves(served, points, schedule, activation) ==
  LET dense == {p \in Range(served) : DenseAt(p.at, activation)}
  IN  /\ \A p \in Range(served) : p.of = schedule
      /\ \A i \in 2..Len(served) : served[i - 1].at < served[i].at
      /\ Last(served) = Last(points)
      /\ \A p \in Range(points) : DenseAt(p.at, activation) => p \in dense
      /\ Cardinality(Range(served) \ (dense \cup {Last(points)})) <= MaxPoints

\* The points of a curve at m places in their order, with the last, all the dense
\* ones and those of E.
LEMMA ServedFrom ==
  ASSUME NEW points, NEW schedule, Curve(points, schedule), NEW activation,
         NEW m \in Nat \ {0}, NEW q \in [1..m -> 1..Len(points)],
         \A k, l \in 1..m : k < l => q[k] < q[l],
         q[m] = Len(points),
         \A i \in 1..Len(points) :
           DenseAt(points[i].at, activation) => \E k \in 1..m : q[k] = i,
         NEW E, IsFiniteSet(E), Cardinality(E) <= MaxPoints,
         \A k \in 1..m :
           DenseAt(points[q[k]].at, activation) \/ q[k] = Len(points) \/ q[k] \in E
  PROVE  Serves([k \in 1..m |-> points[q[k]]], points, schedule, activation)
<1> DEFINE served == [k \in 1..m |-> points[q[k]]]
           n == Len(points)
           dense == {p \in Range(served) : DenseAt(p.at, activation)}
<1>1. points \in Seq(PointsOf(schedule)) /\ n \in Nat
  BY LenProperties DEF Curve
<1>2. \A i \in 1..n : points[i] \in PointsOf(schedule)
  BY <1>1, ElementOfSeq
<1>3. Len(served) = m /\ DOMAIN served = 1..m
  OBVIOUS
<1>4. Range(served) = {points[q[k]] : k \in 1..m}
  BY DEF Range
<1>5. Range(points) = {points[i] : i \in 1..n}
  BY <1>1, LenProperties DEF Range
<1>6. Last(served) = points[n] /\ Last(points) = points[n]
  BY <1>3 DEF Last
<1>7. \A p \in Range(served) : p.of = schedule
  <2>1. \A p \in PointsOf(schedule) : p.of = schedule
    BY DEF PointsOf
  <2> QED BY <1>2, <1>4, <2>1
<1>8. ASSUME NEW i \in 2..m PROVE served[i - 1].at < served[i].at
  <2>1. i - 1 \in 1..m /\ i \in 1..m /\ i - 1 < i
    OBVIOUS
  <2>2. q[i - 1] < q[i] /\ q[i - 1] \in 1..n /\ q[i] \in 1..n
    BY <2>1
  <2> QED BY <2>1, <2>2 DEF Curve
<1>9. ASSUME NEW p \in Range(points), DenseAt(p.at, activation) PROVE p \in dense
  BY <1>4, <1>5, <1>9
<1>10. Cardinality(Range(served) \ (dense \cup {points[n]})) <= MaxPoints
  <2> DEFINE R == Range(served) \ (dense \cup {points[n]})
             D == {i \in E : points[i] \in R}
             f == [i \in D |-> points[i]]
  <2>1. \A p \in R : \E i \in D : f[i] = p
    <3> SUFFICES ASSUME NEW p \in R PROVE \E i \in D : f[i] = p
      OBVIOUS
    <3>1. PICK k \in 1..m : p = points[q[k]]
      BY <1>4
    <3>2. ~DenseAt(points[q[k]].at, activation) /\ q[k] # n
      BY <3>1
    <3>3. q[k] \in E
      BY <3>2
    <3> QED BY <3>1, <3>3
  <2>2. f \in [D -> R]
    OBVIOUS
  <2>3. f \in Surjection(D, R)
    BY <2>1, <2>2 DEF Surjection
  <2>4. D \subseteq E
    OBVIOUS
  <2> HIDE DEF R, D, f
  <2>5. IsFiniteSet(D) /\ Cardinality(D) <= Cardinality(E)
    BY <2>4, FS_Subset
  <2>6. IsFiniteSet(R) /\ Cardinality(R) <= Cardinality(D)
    BY <2>3, <2>5, FS_Surjection
  <2>7. Cardinality(R) \in Int /\ Cardinality(D) \in Int /\ Cardinality(E) \in Int /\ MaxPoints \in Int
    BY <2>5, <2>6, FS_CardinalityType, HistoryAssumption
  <2> QED BY <2>5, <2>6, <2>7 DEF R
<1> HIDE DEF served
<1> QED BY <1>3, <1>6, <1>7, <1>8, <1>9, <1>10 DEF Serves, served

\* A curve is served whole or thinned, and either way as CurveServed asks.
LEMMA ThinnedCurve ==
  ASSUME NEW points, NEW schedule, Curve(points, schedule), NEW activation,
         ThinHistory(points, activation) # <<>>
  PROVE  Serves(ThinHistory(points, activation), points, schedule, activation)
<1> DEFINE n == Len(points)
           regular == Regular(points, activation)
           step == (Cardinality(regular) + MaxPoints - 1) \div MaxPoints
           kept == KeptPlaces(points, regular, step)
<1>1. points \in Seq(PointsOf(schedule)) /\ n \in Nat /\ DOMAIN points = 1..n
  BY LenProperties DEF Curve
<1>2. regular \in SUBSET (1..n) /\ regular \in SUBSET Nat
      /\ \A i \in 1..n : i \notin regular <=> DenseAt(points[i].at, activation)
  BY <1>1 DEF Regular
<1>3. IsFiniteSet(1..n)
  BY <1>1, FS_Interval
<1>4. IsFiniteSet(regular) /\ Cardinality(regular) \in Nat /\ MaxPoints \in Nat \ {0}
  BY <1>2, <1>3, FS_Subset, FS_CardinalityType, HistoryAssumption
<1> HIDE DEF regular
<1>5. CASE Cardinality(regular) <= MaxPoints
  <2>1. ThinHistory(points, activation) = points
    BY <1>5 DEF ThinHistory, regular
  <2>2. n \in Nat \ {0}
    BY <2>1, <1>1, EmptySeq
  <2> DEFINE q == [k \in 1..n |-> k]
  <2>3. /\ q \in [1..n -> 1..n] /\ q[n] = n /\ \A k \in 1..n : q[k] = k
        /\ \A k, l \in 1..n : k < l => q[k] < q[l]
    BY <2>2
  <2> HIDE DEF q
  <2>4. points = [k \in 1..n |-> points[q[k]]]
    BY <1>1, <2>3
  <2>5. \A i \in 1..n : DenseAt(points[i].at, activation) => \E k \in 1..n : q[k] = i
    BY <2>3
  <2>6. \A k \in 1..n : DenseAt(points[q[k]].at, activation) \/ q[k] = n \/ q[k] \in regular
    BY <2>3, <1>2
  <2>7. Serves([k \in 1..n |-> points[q[k]]], points, schedule, activation)
    BY <2>2, <2>3, <2>5, <2>6, <1>4, <1>5, ServedFrom
  <2> QED BY <2>1, <2>4, <2>7
<1>6. CASE ~(Cardinality(regular) <= MaxPoints)
  <2> DEFINE E == {i \in regular : Place(regular, i) % step = 0}
             m == Cardinality(kept)
             q == InOrder(kept)
  <2>1. ThinHistory(points, activation) = [k \in DOMAIN q |-> points[q[k]]]
    BY <1>6 DEF ThinHistory, regular
  <2>2. kept \in SUBSET (1..n) /\ kept \in SUBSET Nat
    BY <1>1 DEF KeptPlaces
  <2>3. IsFiniteSet(kept)
    BY <2>2, <1>3, FS_Subset
  <2>4. n > 0
    <3> SUFFICES ASSUME n = 0 PROVE FALSE
      BY <1>1
    <3>1. regular = {}
      BY <1>2
    <3> QED BY <3>1, <1>4, <1>6, FS_EmptySet
  <2>5. n \in kept
    BY <2>4, <1>1 DEF KeptPlaces
  <2>6. \A i \in 1..n : DenseAt(points[i].at, activation) => i \in kept
    BY <1>1, <1>2 DEF KeptPlaces
  <2>7. \A i \in kept : DenseAt(points[i].at, activation) \/ i = n \/ i \in E
    BY <1>1, <1>2 DEF KeptPlaces, Place
  <2>8. IsFiniteSet(E) /\ Cardinality(E) <= MaxPoints
    BY <1>2, <1>4, <1>6, EveryStepth
  <2> HIDE DEF kept, E
  <2>9. /\ m \in Nat /\ DOMAIN q = 1..m /\ \A k \in 1..m : q[k] \in kept
        /\ \A k, l \in 1..m : k < l => q[k] < q[l]
        /\ \A i \in kept : \E k \in 1..m : q[k] = i
        /\ (\A i \in kept : i <= n) => q[m] = n
    BY <2>2, <2>3, <2>5, InOrderFacts
  <2>10. q[m] = n
    <3>1. \A i \in kept : i <= n
      BY <2>2, <1>1
    <3> QED BY <2>9, <3>1
  <2>11. m \in Nat \ {0}
    BY <2>5, <2>9
  <2>12. q \in [1..m -> 1..n]
    <3>1. q = [k \in 1..m |-> q[k]]
      BY <2>9 DEF InOrder
    <3> HIDE DEF q, m
    <3> QED BY <3>1, <2>2, <2>9
  <2> HIDE DEF q, m
  <2>13. Serves([k \in 1..m |-> points[q[k]]], points, schedule, activation)
    <3>1. \A k \in 1..m : DenseAt(points[q[k]].at, activation) \/ q[k] = n \/ q[k] \in E
      BY <2>7, <2>9
    <3>2. \A i \in 1..n : DenseAt(points[i].at, activation) => \E k \in 1..m : q[k] = i
      BY <2>6, <2>9
    <3>3. \A k, l \in 1..m : k < l => q[k] < q[l]
      BY <2>9
    <3> HIDE DEF step
    <3> QED BY <3>1, <3>2, <3>3, <2>8, <2>10, <2>11, <2>12, ServedFrom
  <2> QED BY <2>1, <2>9, <2>13
<1> QED BY <1>5, <1>6

-----------------------------------------------------------------------------

LEMMA StoredHalf == HistoryInv => CurveStored
<1> SUFFICES ASSUME HistoryInv, NEW key \in DOMAIN store
             PROVE  LET h == store[key]
                    IN  /\ \A p \in Range(h.points) :
                             p.of = h.schedule /\ Last(h.points).at - p.at <= Retention
                        /\ \A i \in 2..Len(h.points) :
                             h.points[i].at - h.points[i - 1].at >=
                               IntervalAt(h.points[i].at, ActivationOf(h.schedule))
  BY DEF CurveStored, ActivationOf
<1> DEFINE points == store[key].points
           schedule == store[key].schedule
<1>1. Curve(points, schedule)
  BY DEF HistoryInv
<1> HIDE DEF points, schedule
<1>2. points \in Seq(PointsOf(schedule))
  BY <1>1 DEF Curve
<1>3. ASSUME NEW p \in Range(points) PROVE p.of = schedule /\ Last(points).at - p.at <= Retention
  <2>1. PICK i \in 1..Len(points) : p = points[i]
    BY <1>2, <1>3, LenProperties DEF Range
  <2>2. p \in PointsOf(schedule)
    BY <1>2, <2>1, ElementOfSeq
  <2> QED BY <1>1, <2>1, <2>2 DEF Curve, PointsOf, Last
<1> QED BY <1>1, <1>3 DEF Curve, points, schedule

LEMMA ServedHalf == HistoryInv => CurveServed
<1> SUFFICES ASSUME HistoryInv, NEW t, HistoryFor(t) # <<>>
             PROVE  Serves(HistoryFor(t), store[Name(t)].points, Schedule(t), Activation(t))
  BY DEF CurveServed, Serves
<1>1. Name(t) \in DOMAIN store /\ store[Name(t)].schedule = Schedule(t)
  BY DEF HistoryFor
<1>2. HistoryFor(t) = ThinHistory(store[Name(t)].points, Activation(t))
  BY <1>1 DEF HistoryFor
<1>3. Curve(store[Name(t)].points, Schedule(t))
  BY <1>1 DEF HistoryInv
<1> QED BY <1>2, <1>3, ThinnedCurve

\* A series is one curve, as recordReadiness stores it and as the API serves it,
\* whatever restarts, releases, store errors and changes of the clock come between:
\* stored, the points are of one schedule, in order, no closer than the interval of
\* their time and within the retention; served, they are of the present schedule, in
\* order, with the newest one and the whole dense window, and thinned to the limit.
THEOREM SeriesIsOneCurve == Spec => []OneCurve
<1>1. HistoryInv => OneCurve
  BY StoredHalf, ServedHalf DEF OneCurve
<1> QED BY <1>1, HistoryInvInit, HistoryInvNext, PTL DEF Spec

\* A point of a series goes only by its age, whatever fails and however often the
\* crawler restarts (PointsKept).
THEOREM PointsGoByAge == Spec => PointsKept
<1> DEFINE Kept ==
      \A key \in DOMAIN store :
        /\ key \in DOMAIN store'
        /\ store'[key].schedule = store[key].schedule =>
             \A p \in Range(store[key].points) :
               p \in Range(store'[key].points) \/ p.at < Last(store'[key].points).at - Retention
<1>1. ASSUME HistoryInv, [Next]_vars PROVE Kept
  <2> SUFFICES ASSUME NEW key \in DOMAIN store
               PROVE  /\ key \in DOMAIN store'
                      /\ store'[key].schedule = store[key].schedule =>
                           \A p \in Range(store[key].points) :
                             \/ p \in Range(store'[key].points)
                             \/ p.at < Last(store'[key].points).at - Retention
    OBVIOUS
  <2>1. CASE store' = store
    BY <2>1
  <2>2. ASSUME NEW t, ~TooSoon(t, Stored(t).points), Put(t, Stored(t))
        PROVE  /\ key \in DOMAIN store'
               /\ store'[key].schedule = store[key].schedule =>
                    \A p \in Range(store[key].points) :
                      \/ p \in Range(store'[key].points)
                      \/ p.at < Last(store'[key].points).at - Retention
    <3>1. key \in DOMAIN store'
      BY <1>1, <2>2, RecordedPoint
    <3>2. CASE key # Name(t)
      BY <1>1, <2>2, <3>1, <3>2, RecordedPoint
    <3>3. ASSUME key = Name(t), store'[key].schedule = store[key].schedule,
                 NEW p \in Range(store[key].points)
          PROVE  p \in Range(store'[key].points) \/ p.at < Last(store'[key].points).at - Retention
      <4> DEFINE points == store[key].points
                 new == store'[key].points
      <4>1. store'[key].schedule = Schedule(t)
        BY <1>1, <2>2, <3>3, RecordedPoint
      <4>2. Stored(t).points = points
        BY <3>3, <4>1 DEF Stored
      <4>3. /\ Curve(new, Schedule(t)) /\ new[Len(new)].at = clock
            /\ \A i \in 1..Len(points) :
                 points[i].at < clock - Retention \/ \E j \in 1..Len(new) : new[j] = points[i]
        <5>1. /\ Curve(store'[Name(t)].points, Schedule(t))
              /\ store'[Name(t)].points[Len(store'[Name(t)].points)].at = clock
              /\ \A i \in 1..Len(Stored(t).points) :
                   \/ Stored(t).points[i].at < clock - Retention
                   \/ \E j \in 1..Len(store'[Name(t)].points) :
                        store'[Name(t)].points[j] = Stored(t).points[i]
          BY <1>1, <2>2, RecordedPoint
        <5> QED BY <3>3, <4>2, <5>1
      <4>4. points \in Seq(PointsOf(store[key].schedule)) /\ new \in Seq(PointsOf(Schedule(t)))
        BY <1>1, <4>3 DEF HistoryInv, Curve
      <4> HIDE DEF points, new
      <4>5. PICK i \in 1..Len(points) : p = points[i]
        <5>1. p \in Range(points)
          BY <3>3 DEF points
        <5> QED BY <4>4, <5>1, LenProperties DEF Range
      <4>6. CASE p.at < clock - Retention
        BY <4>3, <4>6 DEF Last, new
      <4>7. ASSUME NEW j \in 1..Len(new), new[j] = p PROVE p \in Range(new)
        BY <4>4, <4>7, LenProperties DEF Range
      <4> QED BY <4>3, <4>5, <4>6, <4>7 DEF new
    <3> QED BY <3>1, <3>2, <3>3
  <2> QED BY <1>1, <2>1, <2>2, StoreKinds
<1> QED BY <1>1, HistoryInvInit, HistoryInvNext, PTL DEF Spec, PointsKept

-----------------------------------------------------------------------------
(* readinessConditionAt *)

LEMMA GreatestIndex ==
  ASSUME NEW n \in Nat, NEW S \in SUBSET (0..n), S # {}
  PROVE  Max(S) \in S /\ \A i \in S : i <= Max(S)
<1> DEFINE D == {n - i : i \in S}
<1>0. \A i \in S : i \in 0..n
  OBVIOUS
<1>1. D \in SUBSET Nat /\ D # {}
  <2>1. ASSUME NEW i \in S PROVE n - i \in Nat
    <3>1. i \in 0..n
      BY <1>0
    <3> QED BY <3>1
  <2> QED BY <2>1
<1>2. Min(D) \in D /\ \A d \in D : Min(D) <= d
  BY <1>1, LeastIndex
<1>3. PICK m \in S : Min(D) = n - m
  BY <1>2
<1>4. \A i \in S : i <= m
  <2> SUFFICES ASSUME NEW i \in S PROVE i <= m
    OBVIOUS
  <2>1. n - m <= n - i
    BY <1>2, <1>3
  <2> QED BY <2>1, <1>0
<1> QED BY <1>4, <1>0 DEF Max

\* The fork that is tracked is one of the instants.
LEMMA TrackedIsOne ==
  ASSUME NEW T \in SUBSET Nat, NEW at \in Nat
  PROVE  Tracked(T, at) = 0 \/ Tracked(T, at) \in T
<1> DEFINE ahead == {t \in T : t > at}
           past == {t \in T : t <= at /\ at - t < Grace}
<1>1. CASE ahead # {}
  <2>1. Tracked(T, at) = Min(ahead)
    BY <1>1 DEF Tracked
  <2>2. ahead \in SUBSET Nat
    OBVIOUS
  <2>3. Min(ahead) \in ahead
    BY <1>1, <2>2, LeastIndex
  <2> QED BY <2>1, <2>3
<1>2. CASE ahead = {} /\ past # {}
  <2>1. Tracked(T, at) = Max(past)
    BY <1>2 DEF Tracked
  <2>2. past \in SUBSET (0..at)
    <3> SUFFICES ASSUME NEW t \in past PROVE t \in 0..at
      OBVIOUS
    <3>1. t \in Nat /\ t <= at
      OBVIOUS
    <3> QED BY <3>1
  <2>3. Max(past) \in past
    BY <1>2, <2>2, GreatestIndex
  <2> QED BY <2>1, <2>3
<1>3. CASE ahead = {} /\ past = {}
  BY <1>3 DEF Tracked
<1> QED BY <1>1, <1>2, <1>3

Phases == {"none", "scheduled", "activated", "cancelled"}

\* A fork of the execution layer that is scheduled has a time, and one of the
\* consensus layer an epoch that is not FAR_FUTURE_EPOCH.
TargetOK(t) ==
  /\ t.el.phase \in Phases /\ (t.el.phase = "scheduled" => t.el.time # 0)
  /\ t.el.phase = "activated" => t.el.pre # NoHash
  /\ t.cl.phase \in Phases /\ (t.cl.phase = "scheduled" => t.cl.time # Far)
  /\ t.cl.phase = "activated" => t.cl.pre # NoDigest

\* A network always has a hash and a digest.
LEMMA SomeHash ==
  /\ \A times, at : ForkId(times, at).hash # NoHash
  /\ \A c, epoch : DigestAt(c, epoch) # NoDigest
<1>1. ASSUME NEW times, NEW at PROVE 0 \in ForkId(times, at).hash
  BY DEF ForkId
<1>2. ASSUME NEW v, NEW e, NEW m PROVE <<v>> # <<>> /\ <<v, e, m>> # <<>>
  OBVIOUS
<1>3. ASSUME NEW c, NEW epoch PROVE DigestAt(c, epoch) # NoDigest
  BY <1>2 DEF DigestAt, NoDigest
<1> QED BY <1>1, <1>3 DEF NoHash

LEMMA LayersOK ==
  ASSUME NEW n, \A f \in Transitions(n.cl) : f.epoch \in Nat, NEW at \in Nat
  PROVE  /\ TargetOK(ForkTargetAt(n, at)) /\ TargetOK(LayerForkTargetsAt(n, at))
         /\ LayerForkTargetsAt(n, at) = [el |-> LayerForkTargetsAt(n, at).el, cl |-> LayerForkTargetsAt(n, at).cl]
<1> DEFINE forks == Transitions(n.cl)
           e == ELTargetAt(n, Tracked(n.times, at), at)
           epochs == {f.epoch : f \in forks} \ {0, Far}
           c == CLTargetAt(n, forks, Tracked(epochs, at), at)
           t == LayerForkTargetsAt(n, at)
<1>1. /\ e.phase \in Phases /\ (e.phase = "scheduled" => e.time # 0)
      /\ e.phase = "activated" => e.pre # NoHash
  BY SomeHash DEF ELTargetAt, ELTarget, NoTarget, Phases
<1>2. /\ c.phase \in Phases /\ (c.phase = "scheduled" => c.time # Far)
      /\ c.phase = "activated" => c.pre # NoDigest
  <2> DEFINE x == Tracked(epochs, at)
             f == CHOOSE f \in forks : f.epoch = x
  <2>1. CASE x = 0
    BY <2>1 DEF CLTargetAt, NoTarget, Phases
  <2>2. CASE x # 0
    <3>1. epochs \in SUBSET Nat
      OBVIOUS
    <3>2. x \in epochs
      BY <2>2, <3>1, TrackedIsOne
    <3>3. f.epoch = x /\ x # Far
      BY <3>2
    <3>4. c = CLTarget(n, f, at)
      BY <2>2 DEF CLTargetAt
    <3> QED BY <3>3, <3>4, SomeHash DEF CLTarget, Phases
  <2> QED BY <2>1, <2>2
<1>3. ASSUME NEW target, NEW off, NEW x
      PROVE  \/ CancelledTargetAt(target, off, x, at) = target
             \/ CancelledTargetAt(target, off, x, at).phase = "cancelled"
  BY DEF CancelledTargetAt, CancelledTarget
<1>4. /\ t = [el |-> t.el, cl |-> t.cl]
      /\ t.el = e \/ t.el.phase = "cancelled"
      /\ t.cl = c \/ t.cl.phase = "cancelled"
  BY <1>3 DEF LayerForkTargetsAt, LayerTargets
<1> HIDE DEF e, c, t
<1>5. TargetOK(t)
  BY <1>1, <1>2, <1>4 DEF TargetOK, Phases
<1>6. OneUpgrade(t) \in {t, [t EXCEPT !.cl = NoTarget], [t EXCEPT !.el = NoTarget]}
  BY DEF OneUpgrade
<1>7. TargetOK([t EXCEPT !.cl = NoTarget]) /\ TargetOK([t EXCEPT !.el = NoTarget])
  BY <1>4, <1>5 DEF TargetOK, NoTarget, Phases
<1> QED BY <1>4, <1>5, <1>6, <1>7 DEF ForkTargetAt, t

\* The clause and the function agree, on any row.
LEMMA SameVerdict ==
  ASSUME NEW n, NEW t, NEW ev, NEW at, ev.layer \in {"el", "cl"}, t.phase \in Phases,
         t.phase = "scheduled" /\ ev.layer = "el" => t.time # 0,
         t.phase = "scheduled" /\ ev.layer = "cl" => t.time # Far,
         t.phase = "activated" /\ ev.layer = "el" => t.pre # NoHash,
         t.phase = "activated" /\ ev.layer = "cl" => t.pre # NoDigest,
         NEW nulls \in SUBSET AbsentColumns(ev),
         NEW want \in {"ready", "pending", "not_ready", "mismatch", "unknown", "stale"}
  PROVE  ReadinessConditionAt(n, t, want, ev, nulls, at) <=> want = ReadinessAt(n, t, ev, at)
<1> DEFINE current == RowForkCurrentAt(n, ev.layer, ev.hash, ev.next, at)
           sqlCurrent == CurrentForkConditionAt(n, ev, nulls, at)
           onPre == SqlEquals(ev, nulls, "hash", t.pre)
           matched == SqlMatched(ev, nulls)
<1>a. current \in BOOLEAN
  BY DEF RowForkCurrentAt
<1>b. "hash" \in nulls => ev.hash = IF ev.layer = "el" THEN NoHash ELSE NoDigest
  BY DEF AbsentColumns
<1>c. "digest" \in nulls => ev.digest = NoDigest
  BY DEF AbsentColumns
<1>d. nulls \subseteq {"hash", "digest"}
  BY DEF AbsentColumns
<1>e. current => "hash" \notin nulls
  BY <1>b, SomeHash DEF RowForkCurrentAt, Current
<1>1. sqlCurrent = Sql(current)
  <2>1. CASE "hash" \in nulls
    <3>1. "null" \in CurrentForkTests(n, ev, nulls, at)
      BY <2>1 DEF CurrentForkTests, SqlEquals
    <3>2. sqlCurrent = "false"
      BY <3>1 DEF CurrentForkConditionAt, CoalesceFalse, SqlAnd
    <3> QED BY <1>a, <1>e, <2>1, <3>2 DEF Sql
  <2>2. CASE "hash" \notin nulls
    BY <2>2 DEF CurrentForkConditionAt, CurrentForkTests, CoalesceFalse, SqlAnd, SqlEquals, Sql, RowForkCurrentAt
  <2> QED BY <2>1, <2>2
<1>2. t.phase = "activated" => onPre = Sql(ev.hash = t.pre) \/ (onPre = "null" /\ ev.hash # t.pre)
  BY <1>b DEF SqlEquals
<1>3. current => matched = Sql(Matched(ev))
  BY <1>c, <1>d, <1>e DEF SqlMatched, SqlAnd, Sql, Matched
<1>4. matched \in {"true", "false", "null"}
  BY DEF SqlMatched, SqlAnd
<1> HIDE DEF current, sqlCurrent, onPre, matched
<1>5. CASE t.phase = "none"
  BY <1>5 DEF ReadinessConditionAt, SqlReadiness, ReadinessAt
<1>6. CASE t.phase = "cancelled" /\ ev.layer = "el"
  BY <1>a, <1>1, <1>6 DEF ReadinessConditionAt, SqlReadiness, ReadinessAt, CancelledReadiness,
     SqlCancelled, SqlAnd, SqlNot, Sql, current, sqlCurrent
<1>7. CASE t.phase = "cancelled" /\ ev.layer = "cl"
  BY <1>a, <1>1, <1>3, <1>4, <1>7 DEF ReadinessConditionAt, SqlReadiness, ReadinessAt, CancelledReadiness,
     SqlCancelled, SqlAnd, SqlNot, Sql, current, sqlCurrent, matched
<1>8. CASE t.phase = "activated" /\ ev.layer = "el"
  BY <1>a, <1>1, <1>2, <1>8 DEF ReadinessConditionAt, SqlReadiness, ReadinessAt, ActivatedReadiness,
     SqlActivated, SqlAnd, SqlNot, Sql, current, sqlCurrent, onPre
<1>9. CASE t.phase = "activated" /\ ev.layer = "cl"
  BY <1>a, <1>1, <1>2, <1>9 DEF ReadinessConditionAt, SqlReadiness, ReadinessAt, ActivatedReadiness,
     SqlActivated, SqlAnd, SqlNot, Sql, current, sqlCurrent, onPre
<1>10. CASE t.phase = "scheduled" /\ ev.layer = "el"
  BY <1>a, <1>1, <1>10 DEF ReadinessConditionAt, SqlReadiness, ReadinessAt, ScheduledReadiness,
     SqlScheduledEL, SqlAnd, SqlNot, Sql, current, sqlCurrent
<1>11. CASE t.phase = "scheduled" /\ ev.layer = "cl"
  BY <1>a, <1>1, <1>3, <1>4, <1>11 DEF ReadinessConditionAt, SqlReadiness, ReadinessAt, ScheduledReadiness,
     SqlScheduledCL, SqlAnd, SqlNot, Sql, Announced, current, sqlCurrent, matched
<1> QED BY <1>5, <1>6, <1>7, <1>8, <1>9, <1>10, <1>11 DEF Phases

\* The network is one that a release loads, and so are those to come.
Releases == UNION {Range(r) : r \in Rollouts}

NetInv ==
  /\ \E x \in Releases : net = Load(x.compiled, x.list)
  /\ next \in Seq(Releases)

LEMMA NetInvInit == Init => NetInv
<1> SUFFICES ASSUME NEW r \in Rollouts, net = Load(r[1].compiled, r[1].list), next = Tail(r)
             PROVE  NetInv
  BY DEF Init
<1>1. r # <<>> /\ r \in Seq(Range(r))
  BY HistoryAssumption
<1>2. r \in Seq(Releases)
  <2>1. Range(r) \subseteq Releases
    BY DEF Releases
  <2>2. \A i \in 1..Len(r) : r[i] \in Releases
    BY <1>1, <2>1, ElementOfSeq
  <2> QED BY <1>1, <2>2
<1>3. r[1] \in Releases /\ Tail(r) \in Seq(Releases)
  BY <1>1, <1>2, HeadTailProperties
<1> QED BY <1>3 DEF NetInv

LEMMA NetInvNext == NetInv /\ [Next]_vars => NetInv'
<1> SUFFICES ASSUME NetInv, [Next]_vars PROVE NetInv'
  OBVIOUS
<1>1. CASE Upgrade
  <2>1. /\ next \in Seq(Releases) /\ next # <<>> /\ next' = Tail(next)
        /\ net' = Load(Head(next).compiled, Head(next).list)
    BY <1>1 DEF Upgrade, NetInv
  <2>2. Head(next) \in Releases /\ Tail(next) \in Seq(Releases)
    BY <2>1, HeadTailProperties
  <2> QED BY <2>1, <2>2 DEF NetInv
<1>2. CASE Tick \/ StepBack \/ Restart \/ StoreFails(Target) \/ RecordEarly(Target) \/ Record(Target)
  <2>1. net' = net /\ next' = next
    BY <1>2 DEF Tick, StepBack, Restart, StoreFails, RecordEarly, Record
  <2> QED BY <2>1 DEF NetInv
<1>3. CASE UNCHANGED vars
  BY <1>3 DEF vars, NetInv
<1> QED BY <1>1, <1>2, <1>3 DEF Next

\* What load makes of a release.
LoadedNet(n) ==
  /\ 0 \notin n.times
  /\ \A c \in n.elOff : c.time # 0 /\ c.pre = ForkId(n.times, c.time - 1).hash
  /\ \E original : n.onEL = OnCancelledEL(n.times, original, {c.time : c \in n.elOff})
  /\ \E len \in Nat : \A c \in n.elOff \cup n.clOff : c.nth \in 0..len

LEMMA LoadFacts ==
  ASSUME NEW compiled, NEW list, list \in Seq(Range(list)), NEW n, n = Load(compiled, list)
  PROVE  LoadedNet(n)
<1> DEFINE forks == ELForks(compiled, list)
           times == IdTimes(forks)
<1>1. /\ n.times = times /\ n.elOff = ELOff(list, times)
      /\ n.onEL = OnCancelledEL(times, IdTimes(compiled.el), {c.time : c \in n.elOff})
  BY DEF Load, Assembled, Indexed
<1>2. 0 \notin times
  BY DEF IdTimes
<1>3. \A c \in ELOff(list, times) : c.time # 0 /\ c.pre = ForkId(times, c.time - 1).hash
  BY DEF ELOff
<1>4. n.clOff = CLOff(compiled, list, Canonical(compiled, list))
  BY DEF Load, Assembled, Indexed
<1>5. DOMAIN list \subseteq 0..Len(list) /\ Len(list) \in Nat
  BY LenProperties
<1>6. \A c \in ELOff(list, times) : c.nth \in DOMAIN list
  BY DEF ELOff
<1>7. \A c \in CLOff(compiled, list, Canonical(compiled, list)) : c.nth \in DOMAIN list
  BY DEF CLOff
<1> HIDE DEF times
<1>8. \A c \in n.elOff \cup n.clOff : c.nth \in 0..Len(list)
  BY <1>1, <1>4, <1>5, <1>6, <1>7
<1> QED BY <1>1, <1>2, <1>3, <1>5, <1>8 DEF LoadedNet

\* A well-formed schedule, without its sequences.
LEMMA ScheduleFacts ==
  ASSUME NEW c, WellFormed(c)
  PROVE  /\ DOMAIN c.forks = 1..Len(c.forks) /\ Len(c.forks) \in Nat \ {0}
         /\ DOMAIN c.blobs = 1..Len(c.blobs) /\ Len(c.blobs) \in Nat
         /\ \A i \in DOMAIN c.forks : c.forks[i].epoch \in Nat /\ c.forks[i].epoch \in RegularEpochs(c)
         /\ \A i \in DOMAIN c.blobs : c.blobs[i].epoch \in Nat
         /\ \A i, j \in DOMAIN c.forks : i <= j => c.forks[i].epoch <= c.forks[j].epoch
         /\ \A i, j \in DOMAIN c.blobs : i <= j => c.blobs[i].epoch <= c.blobs[j].epoch
<1>1. c.forks \in Seq(Range(c.forks)) /\ c.blobs \in Seq(Range(c.blobs)) /\ c.forks # <<>>
  BY DEF WellFormed, InEpochOrder
<1>2. DOMAIN c.forks = 1..Len(c.forks) /\ Len(c.forks) \in Nat \ {0}
  BY <1>1, EmptySeq, LenProperties
<1>3. DOMAIN c.blobs = 1..Len(c.blobs) /\ Len(c.blobs) \in Nat
  BY <1>1, LenProperties
<1>4. \A i \in DOMAIN c.forks : c.forks[i].epoch \in RegularEpochs(c)
  BY DEF RegularEpochs
<1>5. InEpochOrder(c.forks) /\ InEpochOrder(c.blobs)
  BY DEF WellFormed
<1>6. ASSUME NEW s, InEpochOrder(s)
      PROVE  /\ \A i \in DOMAIN s : s[i].epoch \in Nat
             /\ \A i, j \in DOMAIN s : i <= j => s[i].epoch <= s[j].epoch
  BY <1>6 DEF InEpochOrder
<1> QED BY <1>2, <1>3, <1>4, <1>5, <1>6

\* What is a transition is a fork of the schedule or a live blob entry.
LEMMA TransitionKinds ==
  ASSUME NEW c, WellFormed(c), NEW f \in Transitions(c)
  PROVE  /\ \/ \E i \in DOMAIN c.forks : f.epoch = c.forks[i].epoch
            \/ \E i \in LiveBlobs(c) : f.epoch = c.blobs[i].epoch
         /\ f.epoch \in Nat
<1>1. CASE \E e \in RegularEpochs(c) : f = c.forks[Max({i \in DOMAIN c.forks : c.forks[i].epoch = e})]
  <2>1. PICK e \in RegularEpochs(c) : f = c.forks[Max({i \in DOMAIN c.forks : c.forks[i].epoch = e})]
    BY <1>1
  <2> DEFINE S == {i \in DOMAIN c.forks : c.forks[i].epoch = e}
  <2>2. S # {}
    BY <2>1 DEF RegularEpochs
  <2>3. S \in SUBSET (0..Len(c.forks)) /\ Len(c.forks) \in Nat
    BY ScheduleFacts
  <2>4. Max(S) \in S
    BY <2>2, <2>3, GreatestIndex
  <2>5. Max(S) \in DOMAIN c.forks /\ f = c.forks[Max(S)]
    BY <2>1, <2>4
  <2> HIDE DEF S
  <2> QED BY <2>5, ScheduleFacts
<1>2. CASE f \in Numbered(c, BPOs(c))
  <2>1. PICK i \in LiveBlobs(c) : f.epoch = c.blobs[i].epoch
    <3> DEFINE B == BPOs(c)
               nm(i) == BPONames[Cardinality({j \in B : j <= i})]
               vn(i) == ForkAt(c, c.blobs[i].epoch).version
    <3>1. Numbered(c, B) = {[name |-> nm(i), epoch |-> c.blobs[i].epoch, version |-> vn(i)] : i \in B \cap LiveBlobs(c)}
      BY DEF Numbered
    <3> HIDE DEF nm, vn
    <3>2. f \in Numbered(c, B)
      BY <1>2
    <3> HIDE DEF B
    <3> QED BY <3>1, <3>2
  <2>2. i \in DOMAIN c.blobs
    BY DEF LiveBlobs
  <2> QED BY <2>1, <2>2, ScheduleFacts
<1> QED BY <1>1, <1>2 DEF Transitions

LEMMA NetFacts ==
  ASSUME NetInv
  PROVE  /\ WellFormed(net.cl) /\ \A f \in Transitions(net.cl) : f.epoch \in Nat
         /\ CancelledInstants(net) \in SUBSET Nat
         /\ net.times \in SUBSET (Nat \ {0})
         /\ \A c \in net.elOff : c.time \in Nat \ {0} /\ c.pre = ForkId(net.times, c.time - 1).hash
         /\ \E original : net.onEL = OnCancelledEL(net.times, original, {c.time : c \in net.elOff})
         /\ \E len \in Nat : \A c \in net.elOff \cup net.clOff : c.nth \in 0..len
<1>1. PICK x \in Releases : net = Load(x.compiled, x.list)
  BY DEF NetInv
<1>2. PICK r \in Rollouts : x \in Range(r)
  BY <1>1 DEF Releases
<1>3. PICK i \in DOMAIN r : x = r[i]
  BY <1>2 DEF Range
<1>4. WellFormed(net.cl) /\ net.times \cup CancelledInstants(net) \subseteq Nat
  BY <1>1, <1>3, LoadAssumption
<1>5. \A c \in net.elOff : c.time \in CancelledInstants(net)
  BY DEF CancelledInstants
<1>6. /\ 0 \notin net.times
      /\ \A c \in net.elOff : c.time # 0 /\ c.pre = ForkId(net.times, c.time - 1).hash
      /\ \E original : net.onEL = OnCancelledEL(net.times, original, {c.time : c \in net.elOff})
      /\ \E len \in Nat : \A c \in net.elOff \cup net.clOff : c.nth \in 0..len
  <2>1. LoadedNet(net)
    <3>1. x.list \in Seq(Range(x.list))
      BY <1>3, HistoryAssumption
    <3> QED BY <1>1, <3>1, LoadFacts
  <2> QED BY <2>1 DEF LoadedNet
<1>7. \A f \in Transitions(net.cl) : f.epoch \in Nat
  BY <1>4, TransitionKinds
<1>8. net.times \in SUBSET (Nat \ {0})
  BY <1>4, <1>6
<1>9. \A c \in net.elOff : c.time \in Nat \ {0} /\ c.pre = ForkId(net.times, c.time - 1).hash
  BY <1>4, <1>5, <1>6
<1> QED BY <1>4, <1>6, <1>7, <1>8, <1>9

\* The cancelled fork that is picked is one of those at the instant.
LEMMA PickedFacts ==
  ASSUME NEW off, NEW len \in Nat, \A c \in off : c.nth \in 0..len,
         NEW t \in {c.time : c \in off}, NEW at
  PROVE  Picked(off, t, at) \in off /\ Picked(off, t, at).time = t
<1> DEFINE there == {d \in off : d.time = t}
           places == {c.nth : c \in there}
           place == IF t > at THEN Min(places) ELSE Max(places)
<1>1. places # {} /\ places \in SUBSET (0..len) /\ places \in SUBSET Nat
  OBVIOUS
<1>2. \A p \in places : \E c \in off : c.time = t /\ c.nth = p
  OBVIOUS
<1>3. Picked(off, t, at) = CHOOSE c \in off : c.time = t /\ c.nth = place
  BY DEF Picked
<1> HIDE DEF places
<1>4. place \in places
  BY <1>1, LeastIndex, GreatestIndex
<1> HIDE DEF place
<1> QED BY <1>2, <1>3, <1>4

\* readinessConditionAt selects a row for a readiness exactly if ReadinessAt gives it
\* that one: for any schedules, operators' lists, forks and rows.
THEOREM SqlAgreesWithGo == Spec => []SqlMirrorsGo
<1>1. NetInv => SqlMirrorsGo
  <2> SUFFICES ASSUME NetInv, NEW at \in Instants, NEW ev \in ELRows(net) \cup CLRows(net, ForkTargetAt(net, at).cl),
                      NEW nulls \in SUBSET AbsentColumns(ev),
                      NEW want \in {"ready", "pending", "not_ready", "mismatch", "unknown", "stale"}
               PROVE  ReadinessConditionAt(net, ForkTargetAt(net, at)[ev.layer], want, ev, nulls, at) <=>
                        want = ReadinessAt(net, ForkTargetAt(net, at)[ev.layer], ev, at)
    BY DEF SqlMirrorsGo
  <2>1. \A f \in Transitions(net.cl) : f.epoch \in Nat
    BY NetFacts
  <2>2. at \in Nat
    BY HistoryAssumption DEF Instants
  <2> DEFINE t == ForkTargetAt(net, at)
  <2>3. TargetOK(t)
    BY <2>1, <2>2, LayersOK
  <2>4. ev.layer \in {"el", "cl"}
    BY DEF ELRows, CLRows
  <2> HIDE DEF t
  <2>5. t[ev.layer].phase \in Phases
        /\ (t[ev.layer].phase = "scheduled" /\ ev.layer = "el" => t[ev.layer].time # 0)
        /\ (t[ev.layer].phase = "scheduled" /\ ev.layer = "cl" => t[ev.layer].time # Far)
        /\ (t[ev.layer].phase = "activated" /\ ev.layer = "el" => t[ev.layer].pre # NoHash)
        /\ (t[ev.layer].phase = "activated" /\ ev.layer = "cl" => t[ev.layer].pre # NoDigest)
    BY <2>3, <2>4 DEF TargetOK
  <2> QED BY <2>4, <2>5, SameVerdict DEF t
<1> QED BY <1>1, NetInvInit, NetInvNext, PTL DEF Spec

-----------------------------------------------------------------------------
(* The execution layer *)

\* What ForkId gives, without its sets.
LEMMA ForkIdFacts ==
  ASSUME NEW T \in SUBSET Nat, NEW at \in Nat
  PROVE  /\ \A u : u \in ForkId(T, at).hash <=> u = 0 \/ (u \in T /\ u <= at)
         /\ ForkId(T, at).next = 0 <=> (\A u \in T : u <= at)
         /\ (\E u \in T : u > at) =>
              /\ ForkId(T, at).next \in T /\ ForkId(T, at).next > at
              /\ \A u \in T : u > at => ForkId(T, at).next <= u
<1> DEFINE ahead == {t \in T : t > at}
<1>0. \A u \in T : u \in Nat
  OBVIOUS
<1>1. ForkId(T, at) = [hash |-> {0} \cup (T \ ahead), next |-> IF ahead = {} THEN 0 ELSE Min(ahead)]
  BY DEF ForkId
<1>2. \A u : u \in ForkId(T, at).hash <=> u = 0 \/ (u \in T /\ u <= at)
  <2>1. \A u \in T : u \notin ahead <=> u <= at
    BY <1>0
  <2>2. ForkId(T, at).hash = {0} \cup (T \ ahead)
    BY <1>1
  <2>3. at >= 0
    OBVIOUS
  <2> HIDE DEF ahead
  <2> QED BY <2>1, <2>2, <2>3, Zenon
<1>3. CASE ahead = {}
  <2>1. ForkId(T, at).next = 0
    BY <1>1, <1>3
  <2>2. \A u \in T : u <= at /\ ~(u > at)
    BY <1>0, <1>3
  <2> QED BY <1>2, <2>1, <2>2
<1>4. CASE ahead # {}
  <2>1. ahead \in SUBSET Nat
    OBVIOUS
  <2>2. Min(ahead) \in ahead /\ \A u \in ahead : Min(ahead) <= u
    BY <1>4, <2>1, LeastIndex
  <2>3. ForkId(T, at).next = Min(ahead)
    BY <1>1, <1>4
  <2> DEFINE m == Min(ahead)
  <2>4. m \in T /\ m > at
    BY <2>2
  <2>5. \A u \in T : u > at => m <= u
    BY <2>2
  <2> HIDE DEF m
  <2>6. m \in Nat /\ m # 0 /\ ~(m <= at)
    BY <1>0, <2>4
  <2>7. ForkId(T, at).next = m
    BY <2>3 DEF m
  <2> QED BY <1>2, <2>4, <2>5, <2>6, <2>7
<1> QED BY <1>3, <1>4

\* A hash is that of the last fork it has.
LEMMA SameHash ==
  ASSUME NEW T \in SUBSET Nat, NEW U \in SUBSET Nat, NEW a \in Nat, NEW b \in Nat,
         \A u : (u \in T /\ u <= a) <=> (u \in U /\ u <= b)
  PROVE  ForkId(T, a).hash = ForkId(U, b).hash
<1>1. \A u : u \in ForkId(T, a).hash <=> u \in ForkId(U, b).hash
  BY ForkIdFacts
<1>2. ForkId(T, a).hash = {0} \cup (T \ {t \in T : t > a}) /\ ForkId(U, b).hash = {0} \cup (U \ {t \in U : t > b})
  BY DEF ForkId
<1> QED BY <1>1, <1>2

\* A row becomes current, or stops being it, only across a boundary of the era and
\* of its own layer.
LEMMA CurrencyHasABoundary ==
  ASSUME NetInv, NEW from \in Instants, NEW to \in (from + 1)..MaxTime
  PROVE  BoundaryBetween(from, to)
<1>1. from \in Nat /\ to \in Nat /\ from < to
  BY HistoryAssumption DEF Instants
<1>2. net.times \in SUBSET Nat /\ (\A u \in net.times : u \in Nat /\ u # 0)
      /\ \A c \in net.elOff : c.time \in Nat
  BY NetFacts
<1>3. SUFFICES ASSUME NEW ev \in ELRows(net) \cup {CLNode(net.cl, s) : s \in Instants},
                      RowForkCurrentAt(net, ev.layer, ev.hash, ev.next, from) #
                        RowForkCurrentAt(net, ev.layer, ev.hash, ev.next, to)
               PROVE  Era(net, from) # Era(net, to) /\ ForkActivatedBetween(net, ev.layer, from, to)
  BY DEF BoundaryBetween
<1>4. Era(net, from) = Era(net, to) =>
        /\ Current(net, from).hash = Current(net, to).hash
        /\ Current(net, from).digest = Current(net, to).digest
        /\ \A t \in CancelledInstants(net) : t <= from <=> t <= to
  <2>1. Era(net, from) = Era(net, to) =>
          /\ Current(net, from) = Current(net, to)
          /\ {t \in CancelledInstants(net) : t <= from} = {t \in CancelledInstants(net) : t <= to}
    BY DEF Era
  <2> QED BY <2>1
<1>5. CASE ev \in {CLNode(net.cl, s) : s \in Instants}
  <2>1. ev.layer = "cl"
    BY <1>5 DEF CLNode
  <2>2. Current(net, from).digest # Current(net, to).digest
    BY <1>3, <2>1 DEF RowForkCurrentAt
  <2> QED BY <1>1, <1>4, <2>1, <2>2 DEF ForkActivatedBetween
<1>6. CASE ev \in ELRows(net)
  <2>1. ev.layer = "el" /\ ev.next \in {0, BlockHint} \cup net.times \cup {c.time : c \in net.elOff}
    BY <1>6 DEF ELRows
  <2>2. CASE Current(net, from).hash # Current(net, to).hash
    BY <1>1, <1>4, <2>1, <2>2 DEF ForkActivatedBetween
  <2>3. CASE Current(net, from).hash = Current(net, to).hash
    <3>1. NextAhead(ev.next, from) # NextAhead(ev.next, to)
      BY <1>3, <2>1, <2>3 DEF RowForkCurrentAt
    <3>2. ev.next \notin {0, BlockHint} /\ (ev.next > from) # (ev.next > to)
      BY <3>1 DEF NextAhead
    <3>3. ev.next \in Nat
      BY <1>2, <2>1, <3>2
    <3>4. ev.next > from /\ ev.next <= to
      BY <3>2, <3>3, <1>1
    <3>5. ev.next \notin net.times
      <4>1. ForkId(net.times, from).hash = ForkId(net.times, to).hash
        BY <2>3 DEF Current
      <4>2. ev.next \in net.times => ev.next \in ForkId(net.times, to).hash
        BY <1>1, <1>2, <3>4, ForkIdFacts
      <4>3. ev.next \notin ForkId(net.times, from).hash
        <5>1. ev.next # 0 /\ ~(ev.next <= from)
          BY <1>1, <3>3, <3>4
        <5>2. \A u : u \in ForkId(net.times, from).hash <=> u = 0 \/ (u \in net.times /\ u <= from)
          BY <1>1, <1>2, ForkIdFacts, Zenon
        <5> QED BY <5>1, <5>2, Zenon
      <4> QED BY <4>1, <4>2, <4>3
    <3>6. PICK c \in net.elOff : c.time = ev.next
      BY <2>1, <3>2, <3>5
    <3>7. ForkActivatedBetween(net, ev.layer, from, to)
      BY <1>1, <2>1, <3>4, <3>6 DEF ForkActivatedBetween
    <3>8. ev.next \in CancelledInstants(net) /\ ~(ev.next <= from)
      BY <1>1, <3>3, <3>4, <3>6 DEF CancelledInstants
    <3> QED BY <1>4, <3>4, <3>7, <3>8
  <2> QED BY <2>2, <2>3
<1> QED BY <1>5, <1>6

-----------------------------------------------------------------------------
(* The verdicts on execution nodes *)

LEMMA NextId ==
  ASSUME NEW T \in SUBSET Nat, NEW at \in Nat, NEW m \in T, m > at, \A u \in T : u > at => m <= u
  PROVE  ForkId(T, at).next = m
<1> DEFINE x == ForkId(T, at).next
<1>1. x \in T /\ x > at /\ \A u \in T : u > at => x <= u
  BY ForkIdFacts
<1> HIDE DEF x
<1>2. x <= m /\ m <= x /\ x \in Nat /\ m \in Nat
  BY <1>1
<1> QED BY <1>2 DEF x

\* The last fork that a hash sums up gives the hash again.
LEMMA HashTop ==
  ASSUME NEW T \in SUBSET Nat, NEW at \in Nat, NEW h, h = ForkId(T, at).hash
  PROVE  /\ Max(h) \in Nat /\ Max(h) <= at /\ Max(h) \in T \cup {0}
         /\ ForkId(T, Max(h)).hash = h
         /\ \A u \in T : u <= at => u <= Max(h)
<1>0. \A u \in T : u \in Nat
  OBVIOUS
<1>1. \A u : u \in h <=> u = 0 \/ (u \in T /\ u <= at)
  BY ForkIdFacts
<1>2. h \in SUBSET (0..at) /\ h # {}
  <2>1. ASSUME NEW u \in h PROVE u \in 0..at
    <3>1. u = 0 \/ (u \in T /\ u <= at)
      BY <1>1, Zenon
    <3>2. CASE u = 0
      BY <3>2
    <3>3. CASE u \in T /\ u <= at
      <4>1. u \in Nat
        BY <1>0, <3>3
      <4> QED BY <3>3, <4>1
    <3> QED BY <3>1, <3>2, <3>3
  <2>2. 0 \in h
    BY <1>1
  <2> QED BY <2>1, <2>2
<1> DEFINE m == Max(h)
<1>3. m \in h /\ \A u \in h : u <= m
  BY <1>2, GreatestIndex
<1> HIDE DEF m
<1>4. m \in Nat /\ m <= at /\ m \in T \cup {0}
  <2>1. m = 0 \/ (m \in T /\ m <= at)
    BY <1>1, <1>3, Zenon
  <2>2. CASE m = 0
    BY <2>2
  <2>3. CASE m \in T /\ m <= at
    BY <1>0, <2>3
  <2> QED BY <2>1, <2>2, <2>3
<1>5. \A u \in T : u <= at => u <= m
  BY <1>1, <1>3
<1>6. ASSUME NEW u PROVE (u \in T /\ u <= m) <=> (u \in T /\ u <= at)
  <2>1. u \in T /\ u <= m => u <= at
    BY <1>0, <1>4
  <2> QED BY <1>5, <2>1
<1>7. ForkId(T, m).hash = ForkId(T, at).hash
  BY <1>4, <1>6, SameHash
<1> QED BY <1>4, <1>5, <1>7 DEF m

LEMMA BeforeFacts ==
  ASSUME NEW T \in SUBSET Nat, NEW x \in Nat, x # 0
  PROVE  /\ Before(T, x) \in T \cup {0} /\ Before(T, x) \in Nat /\ Before(T, x) < x
         /\ \A u \in T : u < x => u <= Before(T, x)
<1> DEFINE S == {0} \cup {u \in T : u < x}
           b == Max(S)
<1>0. \A u \in T : u \in Nat
  OBVIOUS
<1>1. S \in SUBSET (0..x) /\ S # {}
  <2>1. ASSUME NEW u \in S PROVE u \in 0..x
    BY <1>0
  <2> QED BY <2>1
<1>2. b \in S /\ \A u \in S : u <= b
  BY <1>1, GreatestIndex
<1>3. Before(T, x) = b
  BY DEF Before
<1>4. b \in T \cup {0} /\ b \in Nat /\ b < x
  <2>1. b = 0 \/ (b \in T /\ b < x)
    BY <1>2
  <2> HIDE DEF b
  <2>2. CASE b = 0
    BY <2>2
  <2>3. CASE b \in T /\ b < x
    BY <1>0, <2>3
  <2> QED BY <2>1, <2>2, <2>3
<1>5. \A u \in T : u < x => u <= b
  BY <1>2
<1> QED BY <1>3, <1>4, <1>5

\* The next of the instants is tracked, or else the last one.
LEMMA TrackedFacts ==
  ASSUME NEW T \in SUBSET Nat, NEW at \in Nat
  PROVE  /\ (\E u \in T : u > at) => Tracked(T, at) \in T /\ Tracked(T, at) > at
         /\ Tracked(T, at) > at => Tracked(T, at) \in T /\ \A u \in T : u > at => Tracked(T, at) <= u
         /\ Tracked(T, at) # 0 /\ ~(Tracked(T, at) > at) => Tracked(T, at) \in T /\ \A u \in T : u <= Tracked(T, at)
<1> DEFINE ahead == {t \in T : t > at}
           past == {t \in T : t <= at /\ at - t < Grace}
           x == Tracked(T, at)
<1>0. \A u \in T : u \in Nat
  OBVIOUS
<1>1. CASE ahead # {}
  <2>1. x = Min(ahead)
    BY <1>1 DEF Tracked
  <2>2. ahead \in SUBSET Nat
    OBVIOUS
  <2>3. Min(ahead) \in ahead /\ \A u \in ahead : Min(ahead) <= u
    BY <1>1, <2>2, LeastIndex
  <2>4. x \in T /\ x > at /\ \A u \in T : u > at => x <= u
    BY <2>1, <2>3
  <2> QED BY <2>4
<1>2. CASE ahead = {} /\ past # {}
  <2>1. x = Max(past)
    BY <1>2 DEF Tracked
  <2>2. past \in SUBSET (0..at)
    <3> SUFFICES ASSUME NEW t \in past PROVE t \in 0..at
      OBVIOUS
    <3>1. t \in Nat /\ t <= at
      OBVIOUS
    <3> QED BY <3>1
  <2>3. Max(past) \in past /\ \A u \in past : u <= Max(past)
    BY <1>2, <2>2, GreatestIndex
  <2>4. x \in T /\ x <= at /\ at - x < Grace /\ \A u \in T : u <= at /\ at - u < Grace => u <= x
    BY <2>1, <2>3
  <2>5. \A u \in T : u <= at
    BY <1>0, <1>2
  <2> HIDE DEF x, ahead, past
  <2>6. ASSUME NEW u \in T PROVE u <= x
    <3>1. u \in Nat /\ x \in Nat /\ u <= at /\ (at - u < Grace => u <= x) /\ Grace \in Nat
      BY <1>0, <2>4, <2>5, ScheduleAssumption
    <3> QED BY <2>4, <3>1
  <2>7. x \in Nat /\ ~(x > at)
    BY <1>0, <2>4
  <2>8. ~(\E u \in T : u > at)
    BY <1>0, <2>5
  <2> QED BY <2>4, <2>6, <2>7, <2>8 DEF x
<1>3. CASE ahead = {} /\ past = {}
  <2>1. x = 0
    BY <1>3 DEF Tracked
  <2> QED BY <1>3, <2>1
<1> QED BY <1>1, <1>2, <1>3

\* A node on the schedule is on no cancelled fork, ...
LEMMA OnSchedule ==
  ASSUME NEW T \in SUBSET Nat, NEW at \in Nat, NEW original, NEW ats
  PROVE  ForkId(T, at).hash \notin OnCancelledEL(T, original, ats)
<1> DEFINE h == ForkId(T, at).hash
<1>1. h = ForkId(T, Max(h)).hash
  BY HashTop
<1>2. \A g \in OnCancelledEL(T, original, ats) : g # ForkId(T, Max(g)).hash
  BY DEF OnCancelledEL
<1> HIDE DEF h
<1>3. h \notin OnCancelledEL(T, original, ats)
  BY <1>1, <1>2
<1> QED BY <1>3 DEF h

\* ... and one that has passed it is.
LEMMA OffSchedule ==
  ASSUME NEW T \in SUBSET Nat, NEW original, NEW ats, NEW y \in ats, y \in Nat \ {0}, y \notin T,
         NEW s \in Nat, y <= s
  PROVE  ForkId(T \cup {y}, s).hash \in OnCancelledEL(T, original, ats)
<1> DEFINE U == T \cup {y}
           h == ForkId(U, s).hash
           m == Max(h)
<1>1. U \in SUBSET Nat /\ y \in U
  OBVIOUS
<1>2. m \in Nat /\ m <= s /\ m \in U \cup {0} /\ ForkId(U, m).hash = h /\ y <= m
  BY <1>1, HashTop
<1>3. m \in {u \in U : y <= u}
  BY <1>2
<1>4. y \in h
  BY <1>1, ForkIdFacts
<1>5. y \notin ForkId(T, m).hash
  BY <1>2, ForkIdFacts
<1> HIDE DEF h
<1>6. h \in UNION {{ForkId(T \cup {a}, t).hash : t \in {u \in T \cup {a} : a <= u}} : a \in ats}
  <2> DEFINE of(a) == {ForkId(T \cup {a}, t).hash : t \in {u \in T \cup {a} : a <= u}}
  <2>1. h \in of(y)
    BY <1>2, <1>3
  <2> HIDE DEF of
  <2>2. h \in UNION {of(a) : a \in ats}
    BY <2>1
  <2> QED BY <2>2 DEF of
<1>7. h # ForkId(T, Max(h)).hash
  BY <1>4, <1>5
<1> QED BY <1>6, <1>7 DEF OnCancelledEL, h

\* ReadinessAt on an execution node, case by case.
ELCurrent(U, s, at) == ForkId(U, s).hash = ForkId(net.times, at).hash /\ NextAhead(ForkId(U, s).next, at)

ELAffected(t, U, s) ==
  ForkId(U, s).hash \in net.onEL \/ (ForkId(U, s).hash = t.pre /\ ForkId(U, s).next = t.time)

LEMMA ELReadiness ==
  ASSUME NEW t, NEW U, NEW s, NEW at
  PROVE  LET verdict == ReadinessAt(net, t, ELNode(U, s), at)
             id == ForkId(U, s)
         IN  /\ t.phase = "scheduled" /\ ELCurrent(U, s, at) =>
                  /\ id.next = t.time => verdict = "ready"
                  /\ id.next # t.time /\ id.next = 0 => verdict = "not_ready"
             /\ t.phase = "activated" =>
                  /\ ELCurrent(U, s, at) => verdict = "ready"
                  /\ ~ELCurrent(U, s, at) /\ id.hash = t.pre /\ id.next = t.time => verdict = "pending"
                  /\ ~ELCurrent(U, s, at) /\ id.hash = t.pre /\ id.next # t.time => verdict = "not_ready"
             /\ t.phase = "cancelled" =>
                  /\ ELAffected(t, U, s) => verdict = "not_ready"
                  /\ ELCurrent(U, s, at) /\ ~ELAffected(t, U, s) => verdict = "ready"
<1> DEFINE ev == ELNode(U, s)
<1>1. ev.layer = "el" /\ ev.hash = ForkId(U, s).hash /\ ev.next = ForkId(U, s).next
  BY DEF ELNode
<1>2. RowForkCurrentAt(net, ev.layer, ev.hash, ev.next, at) <=> ELCurrent(U, s, at)
  BY <1>1 DEF RowForkCurrentAt, Current, ELCurrent
<1> HIDE DEF ev
<1>3. CASE t.phase = "scheduled"
  BY <1>1, <1>2, <1>3 DEF ReadinessAt, ScheduledReadiness, ev
<1>4. CASE t.phase = "activated"
  BY <1>1, <1>2, <1>4 DEF ReadinessAt, ActivatedReadiness, ev
<1>5. CASE t.phase = "cancelled"
  BY <1>1, <1>2, <1>5 DEF ReadinessAt, CancelledReadiness, ELAffected, ev
<1> QED BY <1>3, <1>4, <1>5

\* A node of the schedule is current.
LEMMA ScheduleIsCurrent ==
  ASSUME net.times \in SUBSET Nat, NEW at \in Nat
  PROVE  ELCurrent(net.times, at, at)
<1>1. CASE \E u \in net.times : u > at
  <2>1. ForkId(net.times, at).next > at
    BY <1>1, ForkIdFacts
  <2> QED BY <2>1 DEF ELCurrent, NextAhead
<1>2. CASE ~(\E u \in net.times : u > at)
  <2>1. \A u \in net.times : u <= at
    BY <1>2
  <2>2. ForkId(net.times, at).next = 0
    BY <2>1, ForkIdFacts
  <2> QED BY <2>2 DEF ELCurrent, NextAhead
<1> QED BY <1>1, <1>2

LEMMA ScheduledVerdicts ==
  ASSUME net.times \in SUBSET Nat, NEW at \in Nat, NEW t, t.phase = "scheduled",
         t.time \in net.times, t.time > at, \A u \in net.times : u > at => t.time <= u
  PROVE  ELVerdicts(t, at, Before(net.times, t.time))
<1> DEFINE older == {u \in net.times : u < t.time}
<1>0. (\A u \in net.times : u \in Nat) /\ t.time \in Nat /\ t.time # 0 /\ older \in SUBSET Nat
  <2>1. \A u \in net.times : u \in Nat
    OBVIOUS
  <2> QED BY <2>1
<1>1. ForkId(net.times, at).next = t.time
  BY NextId
<1>2. ReadinessAt(net, t, ELNode(net.times, at), at) = "ready"
  BY <1>1, ScheduleIsCurrent, ELReadiness
<1>3. \A u \in older : u <= at
  <2> SUFFICES ASSUME NEW u \in net.times, u < t.time PROVE u <= at
    OBVIOUS
  <2> QED BY <1>0
<1>4. ForkId(older, at).next = 0
  BY <1>0, <1>3, ForkIdFacts
<1>5. ASSUME NEW u PROVE (u \in older /\ u <= at) <=> (u \in net.times /\ u <= at)
  BY <1>0
<1> HIDE DEF older
<1>6. ForkId(older, at).hash = ForkId(net.times, at).hash
  BY <1>0, <1>5, SameHash
<1>7. ELCurrent(older, at, at)
  BY <1>4, <1>6 DEF ELCurrent, NextAhead
<1>8. ReadinessAt(net, t, ELNode(older, at), at) = "not_ready"
  BY <1>0, <1>4, <1>7, ELReadiness
<1> QED BY <1>2, <1>8 DEF ELVerdicts, older

LEMMA ActivatedVerdicts ==
  ASSUME net.times \in SUBSET Nat, NEW at \in Nat, NEW t, t.phase = "activated", t.time # 0,
         t.time \in net.times, t.time <= at, \A u \in net.times : u <= t.time,
         t.pre = ForkId(net.times, t.time - 1).hash
  PROVE  ELVerdicts(t, at, Before(net.times, t.time))
<1> DEFINE older == {u \in net.times : u < t.time}
           before == Before(net.times, t.time)
<1>0. (\A u \in net.times : u \in Nat) /\ t.time \in Nat /\ t.time - 1 \in Nat /\ older \in SUBSET Nat
  <2>1. \A u \in net.times : u \in Nat
    OBVIOUS
  <2> QED BY <2>1
<1>1. before \in Nat /\ before < t.time /\ \A u \in net.times : u < t.time => u <= before
  BY <1>0, BeforeFacts
<1>2. ReadinessAt(net, t, ELNode(net.times, at), at) = "ready"
  BY ScheduleIsCurrent, ELReadiness
<1> HIDE DEF before
<1>3. t.time \in ForkId(net.times, at).hash /\ t.time \notin t.pre
  <2>1. ~(t.time <= t.time - 1)
    BY <1>0
  <2>2. \A u : u \in t.pre <=> u = 0 \/ (u \in net.times /\ u <= t.time - 1)
    <3> DEFINE e == t.time - 1
    <3>1. e \in Nat /\ t.pre = ForkId(net.times, e).hash
      BY <1>0
    <3> HIDE DEF e
    <3>2. \A u : u \in ForkId(net.times, e).hash <=> u = 0 \/ (u \in net.times /\ u <= e)
      BY <3>1, ForkIdFacts, Zenon
    <3> QED BY <3>1, <3>2 DEF e
  <2>3. \A u : u \in ForkId(net.times, at).hash <=> u = 0 \/ (u \in net.times /\ u <= at)
    BY ForkIdFacts, Zenon
  <2> QED BY <2>1, <2>2, <2>3, Zenon
<1>4. ASSUME NEW s \in before..(t.time - 1)
      PROVE  ReadinessAt(net, t, ELNode(net.times, s), at) = "pending"
  <2>1. s \in Nat /\ s < t.time /\ before <= s
    BY <1>0, <1>1
  <2>2. ASSUME NEW u PROVE (u \in net.times /\ u <= s) <=> (u \in net.times /\ u <= t.time - 1)
    BY <1>0, <1>1, <2>1
  <2>3. ForkId(net.times, s).hash = t.pre
    BY <1>0, <2>1, <2>2, SameHash
  <2>4. \A u \in net.times : u > s => t.time <= u
    <3> SUFFICES ASSUME NEW u \in net.times, u > s PROVE t.time <= u
      OBVIOUS
    <3>1. u < t.time => u <= before
      BY <1>1
    <3> QED BY <1>0, <1>1, <2>1, <3>1
  <2>5. ForkId(net.times, s).next = t.time
    BY <2>1, <2>4, NextId
  <2>6. ~ELCurrent(net.times, s, at)
    BY <1>3, <2>3 DEF ELCurrent
  <2> QED BY <2>3, <2>5, <2>6, ELReadiness
<1>5. ASSUME NEW s \in before..at
      PROVE  ReadinessAt(net, t, ELNode(older, s), at) = "not_ready"
  <2>1. s \in Nat /\ before <= s
    BY <1>1
  <2>2. ASSUME NEW u PROVE (u \in older /\ u <= s) <=> (u \in net.times /\ u <= t.time - 1)
    BY <1>0, <1>1, <2>1
  <2>3. \A u \in older : u <= s
    <3> SUFFICES ASSUME NEW u \in net.times, u < t.time PROVE u <= s
      OBVIOUS
    <3>1. u <= before
      BY <1>1
    <3> QED BY <1>0, <1>1, <2>1, <3>1
  <2> HIDE DEF older
  <2>4. ForkId(older, s).hash = t.pre
    BY <1>0, <2>1, <2>2, SameHash
  <2>5. ForkId(older, s).next = 0
    BY <1>0, <2>1, <2>3, ForkIdFacts
  <2>6. ~ELCurrent(older, s, at)
    BY <1>3, <2>4 DEF ELCurrent
  <2> QED BY <2>4, <2>5, <2>6, ELReadiness
<1> QED BY <1>2, <1>4, <1>5 DEF ELVerdicts, older, before

LEMMA CancelledVerdicts ==
  ASSUME net.times \in SUBSET (Nat \ {0}), NEW at \in Nat, NEW t, t.phase = "cancelled",
         NEW original, NEW ats, net.onEL = OnCancelledEL(net.times, original, ats),
         t.time \in ats, t.time \in Nat \ {0}, t.pre = ForkId(net.times, t.time - 1).hash,
         t.time \in net.times /\ t.time > at => \E u \in net.times : u > at /\ u < t.time
  PROVE  ELVerdicts(t, at, Before(net.times, t.time))
<1> DEFINE shadow == net.times \cup {t.time}
           before == Before(net.times, t.time)
<1>0. /\ net.times \in SUBSET Nat /\ (\A u \in net.times : u \in Nat)
      /\ t.time \in Nat /\ t.time # 0 /\ t.time - 1 \in Nat /\ shadow \in SUBSET Nat
  OBVIOUS
<1>1. /\ before \in Nat /\ before < t.time /\ before \in net.times \cup {0}
      /\ \A u \in net.times : u < t.time => u <= before
  BY <1>0, BeforeFacts
<1> HIDE DEF before
<1>2. ReadinessAt(net, t, ELNode(net.times, at), at) = "ready"
  <2>1. ForkId(net.times, at).hash \notin net.onEL
    BY <1>0, OnSchedule
  <2>2. ForkId(net.times, at).next # t.time
    <3> DEFINE x == ForkId(net.times, at).next
    <3> SUFFICES ASSUME x = t.time PROVE FALSE
      OBVIOUS
    <3>1. \E u \in net.times : u > at
      <4>1. ~(\A u \in net.times : u <= at)
        BY <1>0, ForkIdFacts
      <4> QED BY <1>0, <4>1
    <3>2. x \in net.times /\ x > at /\ \A u \in net.times : u > at => x <= u
      BY <1>0, <3>1, ForkIdFacts
    <3> HIDE DEF x
    <3>3. PICK u \in net.times : u > at /\ u < t.time
      BY <3>2
    <3> QED BY <1>0, <3>2, <3>3
  <2>3. ~ELAffected(t, net.times, at)
    BY <2>1, <2>2 DEF ELAffected
  <2> QED BY <1>0, <2>3, ScheduleIsCurrent, ELReadiness
<1>3. ASSUME t.time \notin net.times, NEW s \in before..at
      PROVE  /\ ReadinessAt(net, t, ELNode(shadow, s), at) = "not_ready"
             /\ Classified(net, "el", ForkId(shadow, s).hash)
  <2>1. s \in Nat /\ before <= s
    BY <1>1
  <2>2. CASE t.time <= s
    <3>1. ForkId(shadow, s).hash \in net.onEL
      <4> DEFINE y == t.time
      <4>1. y \in ats /\ y \in Nat \ {0} /\ y \notin net.times /\ y <= s
        BY <1>0, <1>3, <2>2
      <4> HIDE DEF y
      <4>2. ForkId(net.times \cup {y}, s).hash \in OnCancelledEL(net.times, original, ats)
        BY <1>0, <2>1, <4>1, OffSchedule
      <4> QED BY <4>2 DEF y
    <3> QED BY <3>1, ELReadiness DEF ELAffected, Classified
  <2>3. CASE s < t.time
    <3>1. ASSUME NEW u \in net.times PROVE u <= s <=> u < t.time
      <4>1. u \in Nat /\ (u < t.time => u <= before)
        BY <1>0, <1>1
      <4> QED BY <1>0, <1>1, <2>1, <2>3, <4>1
    <3>2. ASSUME NEW u PROVE (u \in shadow /\ u <= s) <=> (u \in net.times /\ u <= t.time - 1)
      <4>1. u = t.time => ~(u <= s) /\ u \notin net.times
        BY <1>0, <1>3, <2>1, <2>3
      <4>2. u \in net.times => (u < t.time <=> u <= t.time - 1)
        BY <1>0
      <4>3. u \in shadow <=> u \in net.times \/ u = t.time
        OBVIOUS
      <4> QED BY <3>1, <4>1, <4>2, <4>3
    <3>3. ASSUME NEW u PROVE (u \in net.times /\ u <= before) <=> (u \in net.times /\ u <= t.time - 1)
      <4> SUFFICES ASSUME u \in net.times PROVE u <= before <=> u <= t.time - 1
        OBVIOUS
      <4>1. u \in Nat /\ (u < t.time => u <= before)
        BY <1>0, <1>1
      <4> QED BY <1>0, <1>1, <4>1
    <3>4. \A u \in shadow : u > s => t.time <= u
      <4> SUFFICES ASSUME NEW u \in net.times, u > s PROVE t.time <= u
        BY <1>0
      <4> QED BY <1>0, <2>1, <3>1
    <3> HIDE DEF shadow
    <3>5. ForkId(shadow, s).hash = t.pre
      BY <1>0, <2>1, <3>2, SameHash
    <3>6. ForkId(net.times, before).hash = t.pre
      BY <1>0, <1>1, <3>3, SameHash
    <3>7. ForkId(shadow, s).next = t.time
      <4>1. t.time \in shadow /\ t.time > s
        BY <1>0, <2>1, <2>3 DEF shadow
      <4> QED BY <1>0, <2>1, <3>4, <4>1, NextId
    <3> QED BY <1>1, <3>5, <3>6, <3>7, ELReadiness DEF ELAffected, Classified
  <2> QED BY <1>0, <2>1, <2>2, <2>3
<1> QED BY <1>2, <1>3 DEF ELVerdicts, shadow, before

\* Execution nodes get the verdict they deserve, whatever the schedule and the
\* cancelled forks (the half of VerdictSound for this layer): one on the canonical
\* schedule is ready, one that does not know the fork that ReadinessAt judges by is
\* not, one that knew it and has not been seen since is pending, and one that still
\* runs a cancelled fork is not ready and stays in the network.
THEOREM ELNodesJudged == Spec => []ELVerdictSound
<1>1. ASSUME NetInv, NEW at \in Instants, LayerForkTargetsAt(net, at).el.phase # "none"
      PROVE  ELVerdicts(LayerForkTargetsAt(net, at).el, at,
                        Before(net.times, LayerForkTargetsAt(net, at).el.time))
  <2> DEFINE x == Tracked(net.times, at)
             ats == {c.time : c \in net.elOff}
             y == Tracked(ats, at)
             real == ELTargetAt(net, x, at)
             t == LayerForkTargetsAt(net, at).el
  <2>1. at \in Nat
    BY HistoryAssumption DEF Instants
  <2>2. /\ net.times \in SUBSET (Nat \ {0})
        /\ \A c \in net.elOff : c.time \in Nat \ {0} /\ c.pre = ForkId(net.times, c.time - 1).hash
    BY <1>1, NetFacts
  <2>3. PICK original : net.onEL = OnCancelledEL(net.times, original, ats)
    BY <1>1, NetFacts
  <2>4. t = CancelledTargetAt(real, net.elOff, y, at)
    BY DEF LayerForkTargetsAt, LayerTargets
  <2>5. net.times \in SUBSET Nat /\ (\A u \in net.times : u \in Nat /\ u # 0)
    BY <2>2
  <2> HIDE DEF x, y, real, t
  <2>6. /\ (\E u \in net.times : u > at) => x \in net.times /\ x > at
        /\ x > at => x \in net.times /\ \A u \in net.times : u > at => x <= u
        /\ x # 0 /\ ~(x > at) => x \in net.times /\ \A u \in net.times : u <= x
    BY <2>1, <2>5, TrackedFacts DEF x
  <2>7. CASE t = real
    <3>1. x # 0 /\ t = ELTarget(net, x, at)
      BY <1>1, <2>7 DEF real, ELTargetAt, NoTarget, t
    <3>2. t.time = x /\ t.phase = (IF x > at THEN "scheduled" ELSE "activated")
          /\ t.pre = ForkId(net.times, x - 1).hash
      BY <3>1 DEF ELTarget
    <3>3. CASE x > at
      BY <2>1, <2>5, <2>6, <3>2, <3>3, ScheduledVerdicts DEF t
    <3>4. CASE ~(x > at)
      <4>1. x \in net.times /\ x <= at /\ \A u \in net.times : u <= x
        BY <2>1, <2>5, <2>6, <3>1, <3>4
      <4> QED BY <2>1, <2>5, <3>1, <3>2, <3>4, <4>1, ActivatedVerdicts DEF t
    <3> QED BY <3>3, <3>4
  <2>8. CASE t # real
    <3> DEFINE c == Picked(net.elOff, y, at)
    <3>1. y # 0 /\ ~Yields(real, y) /\ t = CancelledTarget(c)
      BY <2>4, <2>8 DEF CancelledTargetAt
    <3>2. ats \in SUBSET Nat
      BY <2>2
    <3>3. y \in ats
      BY <2>1, <3>1, <3>2, TrackedIsOne DEF y
    <3>4. c \in net.elOff /\ c.time = y
      BY <1>1, <3>3, NetFacts, PickedFacts
    <3> HIDE DEF c
    <3>5. t.phase = "cancelled" /\ t.time = y /\ t.pre = ForkId(net.times, y - 1).hash
      BY <2>2, <3>1, <3>4 DEF CancelledTarget
    <3>6. y \in Nat \ {0}
      BY <2>2, <3>4
    <3>7. ASSUME y \in net.times, y > at PROVE \E u \in net.times : u > at /\ u < y
      <4>1. x \in net.times /\ x > at /\ x # 0
        BY <2>5, <2>6, <3>7
      <4>2. real.phase = "scheduled" /\ real.time = x
        BY <4>1 DEF real, ELTargetAt, ELTarget
      <4>3. ~(x <= y)
        BY <3>1, <4>2 DEF Yields
      <4>4. x <= y
        BY <2>6, <3>7, <4>1
      <4> QED BY <4>3, <4>4
    <3> HIDE DEF ats
    <3> QED BY <2>1, <2>2, <2>3, <3>3, <3>5, <3>6, <3>7, CancelledVerdicts DEF t
  <2> QED BY <2>7, <2>8
<1>2. NetInv => ELVerdictSound
  BY <1>1 DEF ELVerdictSound
<1> QED BY <1>2, NetInvInit, NetInvNext, PTL DEF Spec

-----------------------------------------------------------------------------
(* Eras *)

LEMMA ForkAtFacts ==
  ASSUME NEW c, WellFormed(c), NEW e \in Nat
  PROVE  \E p \in DOMAIN c.forks :
           /\ ForkAt(c, e) = c.forks[p] /\ c.forks[p].epoch <= e
           /\ \A i \in DOMAIN c.forks : c.forks[i].epoch <= e => i <= p
<1> DEFINE S == {1} \cup {i \in DOMAIN c.forks : c.forks[i].epoch <= e}
<1>1. 1 \in DOMAIN c.forks /\ c.forks[1].epoch <= e
  <2>1. 1 \in DOMAIN c.forks
    BY ScheduleFacts
  <2> QED BY <2>1 DEF WellFormed
<1>2. S \in SUBSET (0..Len(c.forks)) /\ Len(c.forks) \in Nat /\ S # {}
  <2>1. DOMAIN c.forks = 1..Len(c.forks) /\ Len(c.forks) \in Nat
    BY ScheduleFacts
  <2> QED BY <1>1, <2>1
<1>3. Max(S) \in S /\ \A i \in S : i <= Max(S)
  BY <1>2, GreatestIndex
<1>4. ForkAt(c, e) = c.forks[Max(S)]
  BY DEF ForkAt
<1>5. S = {i \in DOMAIN c.forks : c.forks[i].epoch <= e}
  BY <1>1
<1> DEFINE m == Max(S)
<1>6. m \in DOMAIN c.forks /\ c.forks[m].epoch <= e /\ \A i \in DOMAIN c.forks : c.forks[i].epoch <= e => i <= m
  BY <1>3, <1>5
<1> HIDE DEF S
<1> QED BY <1>4, <1>6

LEMMA BlobAtFacts ==
  ASSUME NEW c, WellFormed(c), NEW e \in Nat, \E i \in LiveBlobs(c) : c.blobs[i].epoch <= e
  PROVE  \E p \in LiveBlobs(c) :
           /\ BlobAt(c, e) = c.blobs[p] /\ c.blobs[p].epoch <= e
           /\ \A i \in LiveBlobs(c) : c.blobs[i].epoch <= e => i <= p
<1> DEFINE S == {i \in LiveBlobs(c) : c.blobs[i].epoch <= e}
<1>1. S \in SUBSET (0..Len(c.blobs)) /\ Len(c.blobs) \in Nat /\ S # {}
  <2>1. DOMAIN c.blobs = 1..Len(c.blobs) /\ Len(c.blobs) \in Nat
    BY ScheduleFacts
  <2>2. LiveBlobs(c) \subseteq DOMAIN c.blobs
    BY DEF LiveBlobs
  <2> QED BY <2>1, <2>2
<1>2. Max(S) \in S /\ \A i \in S : i <= Max(S)
  BY <1>1, GreatestIndex
<1>3. BlobAt(c, e) = c.blobs[Max(S)]
  BY DEF BlobAt
<1> DEFINE m == Max(S)
<1>4. m \in LiveBlobs(c) /\ c.blobs[m].epoch <= e /\ \A i \in LiveBlobs(c) : c.blobs[i].epoch <= e => i <= m
  BY <1>2
<1> HIDE DEF S
<1> QED BY <1>3, <1>4

\* The next epoch that computeStateAt gives: no fork and no live blob entry comes
\* before it, and it is one of them.
LEMMA NextEpochFacts ==
  ASSUME NEW c, WellFormed(c), NEW e \in Nat, NEW x, x = StateAt(c, e).next
  PROVE  /\ x \in Nat
         /\ \A i \in DOMAIN c.forks : c.forks[i].epoch > e => x <= c.forks[i].epoch
         /\ \A i \in LiveBlobs(c) : c.blobs[i].epoch > e => x <= c.blobs[i].epoch
         /\ \/ x = Far
            \/ x > e /\ \E i \in DOMAIN c.forks : c.forks[i].epoch = x
            \/ /\ x > e /\ \E i \in LiveBlobs(c) : c.blobs[i].epoch = x
               /\ \A i \in DOMAIN c.forks : c.forks[i].epoch > e => x < c.forks[i].epoch
<1> DEFINE forks == {i \in DOMAIN c.forks : c.forks[i].epoch > e}
           regular == IF forks = {} THEN Far ELSE c.forks[Min(forks)].epoch
           blobs == {i \in LiveBlobs(c) : c.blobs[i].epoch > e /\ c.blobs[i].epoch < regular}
<1>0. /\ DOMAIN c.forks \in SUBSET Nat /\ DOMAIN c.blobs \in SUBSET Nat /\ LiveBlobs(c) \subseteq DOMAIN c.blobs
      /\ \A i \in DOMAIN c.forks : c.forks[i].epoch \in Nat
      /\ \A i \in LiveBlobs(c) : c.blobs[i].epoch \in Nat
      /\ Far \in Nat
  <2>1. LiveBlobs(c) \subseteq DOMAIN c.blobs
    BY DEF LiveBlobs
  <2>2. DOMAIN c.forks = 1..Len(c.forks) /\ DOMAIN c.blobs = 1..Len(c.blobs)
        /\ Len(c.forks) \in Nat /\ Len(c.blobs) \in Nat
    BY ScheduleFacts
  <2>3. DOMAIN c.forks \in SUBSET Nat /\ DOMAIN c.blobs \in SUBSET Nat
    BY <2>2
  <2> QED BY <2>1, <2>3, ScheduleFacts, HistoryAssumption
<1>1. x = IF blobs = {} THEN regular ELSE c.blobs[Min(blobs)].epoch
  BY DEF StateAt
<1>2. /\ regular \in Nat
      /\ \A i \in DOMAIN c.forks : c.forks[i].epoch > e => regular <= c.forks[i].epoch
      /\ \/ regular = Far /\ \A i \in DOMAIN c.forks : ~(c.forks[i].epoch > e)
         \/ regular > e /\ \E i \in DOMAIN c.forks : c.forks[i].epoch = regular
  <2>1. CASE forks = {}
    BY <1>0, <2>1
  <2>2. CASE forks # {}
    <3> DEFINE m == Min(forks)
    <3>1. forks \in SUBSET Nat
      BY <1>0
    <3>2. m \in forks /\ \A i \in forks : m <= i
      BY <2>2, <3>1, LeastIndex
    <3>3. regular = c.forks[m].epoch
      BY <2>2
    <3>4. m \in DOMAIN c.forks /\ c.forks[m].epoch > e /\ \A i \in DOMAIN c.forks : c.forks[i].epoch > e => m <= i
      BY <3>2
    <3> HIDE DEF forks, regular, m
    <3>5. \A i \in DOMAIN c.forks : c.forks[i].epoch > e => regular <= c.forks[i].epoch
      BY <3>3, <3>4, ScheduleFacts
    <3> QED BY <1>0, <3>3, <3>4, <3>5
  <2> QED BY <2>1, <2>2
<1> HIDE DEF forks, regular
<1>3. CASE blobs = {}
  <2>1. ASSUME NEW i \in LiveBlobs(c), c.blobs[i].epoch > e PROVE regular <= c.blobs[i].epoch
    <3>1. ~(c.blobs[i].epoch < regular)
      BY <1>3, <2>1
    <3> QED BY <1>0, <1>2, <3>1
  <2> QED BY <1>1, <1>2, <1>3, <2>1
<1>4. CASE blobs # {}
  <2> DEFINE m == Min(blobs)
  <2>1. blobs \in SUBSET Nat
    BY <1>0
  <2>2. m \in blobs /\ \A i \in blobs : m <= i
    BY <1>4, <2>1, LeastIndex
  <2>3. x = c.blobs[m].epoch
    BY <1>1, <1>4
  <2>4. /\ m \in LiveBlobs(c) /\ c.blobs[m].epoch > e /\ c.blobs[m].epoch < regular
        /\ \A i \in LiveBlobs(c) : c.blobs[i].epoch > e /\ c.blobs[i].epoch < regular => m <= i
    BY <2>2
  <2> HIDE DEF blobs, m
  <2>5. x \in Nat /\ x > e /\ x < regular
    BY <1>0, <2>3, <2>4
  <2>6. ASSUME NEW i \in LiveBlobs(c), c.blobs[i].epoch > e PROVE x <= c.blobs[i].epoch
    <3>1. CASE c.blobs[i].epoch < regular
      <4>1. m <= i /\ m \in DOMAIN c.blobs /\ i \in DOMAIN c.blobs
        BY <1>0, <2>4, <2>6, <3>1
      <4> QED BY <2>3, <4>1, ScheduleFacts
    <3>2. CASE ~(c.blobs[i].epoch < regular)
      BY <1>0, <1>2, <2>5, <3>2
    <3> QED BY <3>1, <3>2
  <2>7. ASSUME NEW i \in DOMAIN c.forks, c.forks[i].epoch > e PROVE x < c.forks[i].epoch
    <3>1. regular <= c.forks[i].epoch /\ c.forks[i].epoch \in Nat
      BY <1>0, <1>2, <2>7
    <3> QED BY <1>2, <2>5, <3>1
  <2>8. ASSUME NEW i \in DOMAIN c.forks, c.forks[i].epoch > e PROVE x <= c.forks[i].epoch
    BY <1>0, <2>5, <2>7, <2>8
  <2> QED BY <2>3, <2>4, <2>5, <2>6, <2>7, <2>8
<1> QED BY <1>3, <1>4

\* The digest holds where nothing activates, ...
LEMMA DigestHolds ==
  ASSUME NEW c, WellFormed(c), NEW from \in Nat, NEW to \in Nat, from <= to, to < Far,
         \A i \in DOMAIN c.forks : c.forks[i].epoch > from => c.forks[i].epoch > to,
         \A i \in LiveBlobs(c) : c.blobs[i].epoch > from => c.blobs[i].epoch > to
  PROVE  DigestAt(c, from) = DigestAt(c, to)
<1>0. /\ \A i \in DOMAIN c.forks : c.forks[i].epoch \in Nat
      /\ \A i \in LiveBlobs(c) : c.blobs[i].epoch \in Nat
      /\ Far \in Nat
  <2>1. LiveBlobs(c) \subseteq DOMAIN c.blobs
    BY DEF LiveBlobs
  <2> QED BY <2>1, ScheduleFacts, HistoryAssumption
<1>1. {i \in DOMAIN c.forks : c.forks[i].epoch <= from} = {i \in DOMAIN c.forks : c.forks[i].epoch <= to}
  <2>1. ASSUME NEW i \in DOMAIN c.forks PROVE c.forks[i].epoch <= from <=> c.forks[i].epoch <= to
    <3>1. c.forks[i].epoch \in Nat /\ (c.forks[i].epoch > from => c.forks[i].epoch > to)
      BY <1>0
    <3> QED BY <3>1
  <2> QED BY <2>1
<1>2. {i \in LiveBlobs(c) : c.blobs[i].epoch <= from} = {i \in LiveBlobs(c) : c.blobs[i].epoch <= to}
  <2>1. ASSUME NEW i \in LiveBlobs(c) PROVE c.blobs[i].epoch <= from <=> c.blobs[i].epoch <= to
    <3>1. c.blobs[i].epoch \in Nat /\ (c.blobs[i].epoch > from => c.blobs[i].epoch > to)
      BY <1>0
    <3> QED BY <3>1
  <2> QED BY <2>1
<1>3. ForkAt(c, from) = ForkAt(c, to)
  BY <1>1 DEF ForkAt
<1>4. BlobAt(c, from) = BlobAt(c, to)
  BY <1>2 DEF BlobAt
<1>5. from < c.fulu <=> to < c.fulu
  <2>1. CASE c.fulu = Far
    BY <1>0, <2>1
  <2>2. CASE c.fulu # Far
    <3>1. PICK i \in DOMAIN c.forks : c.fulu = c.forks[i].epoch
      BY <2>2 DEF WellFormed, RegularEpochs
    <3>2. c.fulu \in Nat /\ (c.fulu > from => c.fulu > to)
      BY <1>0, <3>1
    <3> QED BY <3>2
  <2> QED BY <2>1, <2>2
<1> QED BY <1>3, <1>4, <1>5 DEF DigestAt

\* ... and changes with a fork and with a live blob entry.
LEMMA DigestChanges ==
  ASSUME NEW c, WellFormed(c), NEW from \in Nat, NEW x \in Nat, from < x, x < Far,
         \/ \E i \in DOMAIN c.forks : c.forks[i].epoch = x
         \/ /\ \E i \in LiveBlobs(c) : c.blobs[i].epoch = x
            /\ \A i \in DOMAIN c.forks : c.forks[i].epoch > from => x < c.forks[i].epoch
  PROVE  DigestAt(c, from) # DigestAt(c, x)
<1>0. /\ DOMAIN c.forks \in SUBSET Nat /\ DOMAIN c.blobs \in SUBSET Nat /\ LiveBlobs(c) \subseteq DOMAIN c.blobs
      /\ \A i \in DOMAIN c.forks : c.forks[i].epoch \in Nat
      /\ \A i \in LiveBlobs(c) : c.blobs[i].epoch \in Nat
      /\ Far \in Nat
  <2>1. LiveBlobs(c) \subseteq DOMAIN c.blobs
    BY DEF LiveBlobs
  <2>2. DOMAIN c.forks = 1..Len(c.forks) /\ DOMAIN c.blobs = 1..Len(c.blobs)
        /\ Len(c.forks) \in Nat /\ Len(c.blobs) \in Nat
    BY ScheduleFacts
  <2>3. DOMAIN c.forks \in SUBSET Nat /\ DOMAIN c.blobs \in SUBSET Nat
    BY <2>2
  <2> QED BY <2>1, <2>3, ScheduleFacts, HistoryAssumption
<1>1. ASSUME NEW e \in Nat
      PROVE  DigestAt(c, e) = IF e < c.fulu THEN <<ForkAt(c, e).version>>
                              ELSE <<ForkAt(c, e).version, BlobAt(c, e).epoch, BlobAt(c, e).max>>
  BY DEF DigestAt
<1>2. CASE \E i \in DOMAIN c.forks : c.forks[i].epoch = x
  <2>1. PICK p \in DOMAIN c.forks : ForkAt(c, from) = c.forks[p] /\ c.forks[p].epoch <= from
    BY ForkAtFacts
  <2>2. PICK q \in DOMAIN c.forks :
          ForkAt(c, x) = c.forks[q] /\ \A i \in DOMAIN c.forks : c.forks[i].epoch <= x => i <= q
    BY ForkAtFacts
  <2>3. PICK i \in DOMAIN c.forks : c.forks[i].epoch = x
    BY <1>2
  <2>4. c.forks[i].epoch <= c.forks[q].epoch
    <3>1. i <= q
      BY <2>2, <2>3
    <3> QED BY <3>1, ScheduleFacts
  <2>5. p # q
    <3>1. c.forks[p].epoch \in Nat /\ c.forks[q].epoch \in Nat
      BY <1>0
    <3> QED BY <2>1, <2>3, <2>4, <3>1
  <2>6. ForkAt(c, from).version # ForkAt(c, x).version
    BY <2>1, <2>2, <2>5 DEF WellFormed
  <2>7. DigestAt(c, from)[1] # DigestAt(c, x)[1]
    BY <1>1, <2>6
  <2> QED BY <2>7
<1>3. CASE ~(\E i \in DOMAIN c.forks : c.forks[i].epoch = x)
  <2>1. PICK b \in LiveBlobs(c) : c.blobs[b].epoch = x
    BY <1>3
  <2>2. ~(x < c.fulu)
    BY <1>3, <2>1 DEF WellFormed, RegularEpochs
  <2>3. c.fulu # Far /\ c.fulu \in Nat
    BY <1>0, <2>2 DEF WellFormed, RegularEpochs
  <2>4. from >= c.fulu
    <3>1. PICK i \in DOMAIN c.forks : c.fulu = c.forks[i].epoch
      BY <2>3 DEF WellFormed, RegularEpochs
    <3>2. c.fulu > from => x < c.fulu
      BY <1>3, <3>1
    <3> QED BY <2>2, <2>3, <3>2
  <2>5. PICK a \in LiveBlobs(c) : c.blobs[a].epoch <= c.fulu
    BY <2>3 DEF WellFormed
  <2>6. c.blobs[a].epoch <= from /\ c.blobs[b].epoch <= x
    BY <1>0, <2>1, <2>3, <2>4, <2>5
  <2>7. PICK p \in LiveBlobs(c) : BlobAt(c, from) = c.blobs[p] /\ c.blobs[p].epoch <= from
    BY <2>6, BlobAtFacts
  <2>8. PICK q \in LiveBlobs(c) :
          BlobAt(c, x) = c.blobs[q] /\ \A i \in LiveBlobs(c) : c.blobs[i].epoch <= x => i <= q
    BY <2>6, BlobAtFacts
  <2>9. c.blobs[b].epoch <= c.blobs[q].epoch
    <3>1. b <= q /\ b \in DOMAIN c.blobs /\ q \in DOMAIN c.blobs
      BY <1>0, <2>6, <2>8
    <3> QED BY <3>1, ScheduleFacts
  <2>10. BlobAt(c, from).epoch # BlobAt(c, x).epoch
    <3>1. c.blobs[p].epoch \in Nat /\ c.blobs[q].epoch \in Nat
      BY <1>0
    <3> QED BY <2>1, <2>7, <2>8, <2>9, <3>1
  <2>11. DigestAt(c, from)[2] # DigestAt(c, x)[2]
    <3>1. ~(from < c.fulu)
      BY <2>3, <2>4
    <3> QED BY <1>1, <2>2, <2>10, <3>1
  <2> QED BY <2>11
<1> QED BY <1>2, <1>3

LEMMA TransitionFacts ==
  ASSUME NetInv, NEW from \in Nat, NEW n, n = NextTransition(net, from)
  PROVE  /\ n \in Nat /\ n <= Far /\ n <= StateAt(net.cl, from).next
         /\ \A u \in CancelledInstants(net) \cup net.times : u > from => n <= u
         /\ \/ n = Far \/ n = StateAt(net.cl, from).next
            \/ n > from /\ n \in CancelledInstants(net) \cup net.times
<1> DEFINE x == StateAt(net.cl, from).next
           U == CancelledInstants(net) \cup net.times
           S == {Far, x} \cup {u \in U : u > from}
<1>1. x \in Nat /\ Far \in Nat /\ U \in SUBSET Nat
  <2>1. x \in Nat
    BY NetFacts, NextEpochFacts
  <2>2. U \in SUBSET Nat
    BY NetFacts
  <2> QED BY <2>1, <2>2, HistoryAssumption
<1>2. n = Min(S)
  BY DEF NextTransition
<1> HIDE DEF x, U
<1>3. S \in SUBSET Nat /\ S # {}
  BY <1>1
<1>4. Min(S) \in S /\ \A u \in S : Min(S) <= u
  BY <1>3, LeastIndex
<1>5. n \in S /\ \A u \in S : n <= u
  BY <1>2, <1>4
<1>6. n \in Nat
  BY <1>3, <1>5
<1>7. n <= Far /\ n <= x /\ \A u \in U : u > from => n <= u
  BY <1>5
<1>8. n = Far \/ n = x \/ (n > from /\ n \in U)
  BY <1>5
<1> QED BY <1>6, <1>7, <1>8 DEF x, U

\* Nothing activates between an instant and the next transition.
Quiet(from, to) ==
  /\ \A u \in CancelledInstants(net) \cup net.times : u > from => u > to
  /\ \A i \in DOMAIN net.cl.forks : net.cl.forks[i].epoch > from => net.cl.forks[i].epoch > to
  /\ \A i \in LiveBlobs(net.cl) : net.cl.blobs[i].epoch > from => net.cl.blobs[i].epoch > to

LEMMA QuietBefore ==
  ASSUME NetInv, NEW from \in Nat, NEW to \in Nat, to < NextTransition(net, from)
  PROVE  Quiet(from, to)
<1> DEFINE n == NextTransition(net, from)
           x == StateAt(net.cl, from).next
           U == CancelledInstants(net) \cup net.times
<1>1. n \in Nat /\ n <= x /\ \A u \in U : u > from => n <= u
  BY TransitionFacts
<1>2. WellFormed(net.cl) /\ U \in SUBSET Nat
  BY NetFacts
<1>3. /\ x \in Nat
      /\ \A i \in DOMAIN net.cl.forks : net.cl.forks[i].epoch > from => x <= net.cl.forks[i].epoch
      /\ \A i \in LiveBlobs(net.cl) : net.cl.blobs[i].epoch > from => x <= net.cl.blobs[i].epoch
  BY <1>2, NextEpochFacts
<1>4. /\ \A i \in DOMAIN net.cl.forks : net.cl.forks[i].epoch \in Nat
      /\ \A i \in LiveBlobs(net.cl) : net.cl.blobs[i].epoch \in Nat
  <2>1. LiveBlobs(net.cl) \subseteq DOMAIN net.cl.blobs
    BY DEF LiveBlobs
  <2> QED BY <1>2, <2>1, ScheduleFacts
<1>5. to < n
  OBVIOUS
<1> HIDE DEF n, x, U
<1>6. ASSUME NEW u \in U, u > from PROVE u > to
  <2>1. u \in Nat /\ n <= u
    BY <1>1, <1>2, <1>6
  <2> QED BY <1>1, <1>5, <2>1
<1>7. ASSUME NEW i \in DOMAIN net.cl.forks, net.cl.forks[i].epoch > from PROVE net.cl.forks[i].epoch > to
  <2>1. net.cl.forks[i].epoch \in Nat /\ x <= net.cl.forks[i].epoch
    BY <1>3, <1>4, <1>7
  <2> QED BY <1>1, <1>3, <1>5, <2>1
<1>8. ASSUME NEW i \in LiveBlobs(net.cl), net.cl.blobs[i].epoch > from PROVE net.cl.blobs[i].epoch > to
  <2>1. net.cl.blobs[i].epoch \in Nat /\ x <= net.cl.blobs[i].epoch
    BY <1>3, <1>4, <1>8
  <2> QED BY <1>1, <1>3, <1>5, <2>1
<1> QED BY <1>6, <1>7, <1>8 DEF Quiet, U

LEMMA EraHolds ==
  ASSUME NetInv, NEW from \in Nat, NEW to \in Nat, from <= to, to < Far, Quiet(from, to)
  PROVE  Era(net, to) = Era(net, from)
<1>1. WellFormed(net.cl) /\ net.times \in SUBSET Nat /\ CancelledInstants(net) \in SUBSET Nat
  BY NetFacts
<1>2. DigestAt(net.cl, from) = DigestAt(net.cl, to)
  BY <1>1, DigestHolds DEF Quiet
<1>3. ASSUME NEW u \in CancelledInstants(net) \cup net.times PROVE u <= from <=> u <= to
  <2>1. u \in Nat /\ (u > from => u > to)
    BY <1>1 DEF Quiet
  <2> QED BY <2>1
<1>4. ForkId(net.times, from).hash = ForkId(net.times, to).hash
  <2>1. ASSUME NEW u PROVE (u \in net.times /\ u <= from) <=> (u \in net.times /\ u <= to)
    BY <1>3
  <2> QED BY <1>1, <2>1, SameHash
<1>5. {t \in CancelledInstants(net) : t <= from} = {t \in CancelledInstants(net) : t <= to}
  BY <1>3
<1> QED BY <1>2, <1>4, <1>5 DEF Era, Current

\* The next transition that ForkEraTokenAt announces is one.
LEMMA EraChanges ==
  ASSUME NetInv, NEW from \in Nat, NEW n, n = NextTransition(net, from), n < Far
  PROVE  n \in Nat /\ from < n /\ Era(net, n) # Era(net, from)
<1> DEFINE x == StateAt(net.cl, from).next
<1>1. WellFormed(net.cl) /\ net.times \in SUBSET (Nat \ {0}) /\ CancelledInstants(net) \in SUBSET Nat
  BY NetFacts
<1>2. /\ n \in Nat
      /\ n = Far \/ n = x \/ (n > from /\ n \in CancelledInstants(net) \cup net.times)
  BY TransitionFacts
<1>3. n # Far
  BY <1>2, HistoryAssumption
<1>4. Era(net, n) = Era(net, from) =>
        /\ ForkId(net.times, n).hash = ForkId(net.times, from).hash
        /\ DigestAt(net.cl, n) = DigestAt(net.cl, from)
        /\ {t \in CancelledInstants(net) : t <= n} = {t \in CancelledInstants(net) : t <= from}
  <2>1. Era(net, n) = Era(net, from) => Era(net, n).current = Era(net, from).current
                                        /\ Era(net, n).passed = Era(net, from).passed
    OBVIOUS
  <2>2. Current(net, n) = Current(net, from) => Current(net, n).hash = Current(net, from).hash
                                                /\ Current(net, n).digest = Current(net, from).digest
    OBVIOUS
  <2> QED BY <2>1, <2>2 DEF Era, Current
<1>5. CASE n = x
  <2>1. \/ x > from /\ \E i \in DOMAIN net.cl.forks : net.cl.forks[i].epoch = x
        \/ /\ x > from /\ \E i \in LiveBlobs(net.cl) : net.cl.blobs[i].epoch = x
           /\ \A i \in DOMAIN net.cl.forks : net.cl.forks[i].epoch > from => x < net.cl.forks[i].epoch
    BY <1>1, <1>3, <1>5, NextEpochFacts
  <2> HIDE DEF x
  <2>2. from < n
    BY <1>2, <1>5, <2>1
  <2>3. DigestAt(net.cl, from) # DigestAt(net.cl, n)
    BY <1>1, <1>2, <1>5, <2>1, <2>2, DigestChanges
  <2> QED BY <1>2, <1>4, <2>2, <2>3
<1>6. CASE n > from /\ n \in CancelledInstants(net)
  <2>1. n <= n /\ ~(n <= from) /\ from < n
    BY <1>2, <1>6
  <2> QED BY <1>2, <1>4, <1>6, <2>1
<1>7. CASE n > from /\ n \in net.times
  <2>1. n <= n /\ ~(n <= from) /\ from < n /\ n # 0
    BY <1>2, <1>7
  <2>2. n \in ForkId(net.times, n).hash
    <3>1. net.times \in SUBSET Nat
      BY <1>1
    <3>2. \A u : u \in ForkId(net.times, n).hash <=> u = 0 \/ (u \in net.times /\ u <= n)
      BY <1>2, <3>1, ForkIdFacts, Zenon
    <3> QED BY <1>7, <2>1, <3>2, Zenon
  <2>3. \A u : u \in ForkId(net.times, from).hash <=> u = 0 \/ (u \in net.times /\ u <= from)
    <3>1. net.times \in SUBSET Nat
      BY <1>1
    <3> QED BY <3>1, ForkIdFacts, Zenon
  <2>4. n \notin ForkId(net.times, from).hash
    BY <2>1, <2>3, Zenon
  <2> QED BY <1>2, <1>4, <2>1, <2>2, <2>4
<1> QED BY <1>2, <1>3, <1>5, <1>6, <1>7

-----------------------------------------------------------------------------
(* A tracked activated fork within an era *)

\* Where nothing activates, what is tracked stays, or its grace ends.
LEMMA TrackedLater ==
  ASSUME NEW S \in SUBSET Nat, NEW from \in Nat, NEW to \in Nat, from <= to,
         \A u \in S : u > from => u > to, ~(Tracked(S, from) > from)
  PROVE  /\ Tracked(S, to) \in {Tracked(S, from), 0}
         /\ Tracked(S, from) # 0 /\ to - Tracked(S, from) < Grace => Tracked(S, to) = Tracked(S, from)
<1> DEFINE x == Tracked(S, from)
           y == Tracked(S, to)
           later == {u \in S : u <= to /\ to - u < Grace}
<1>0. (\A u \in S : u \in Nat) /\ Grace \in Nat
  BY ScheduleAssumption
<1>1. ASSUME NEW u \in S PROVE u <= from /\ u <= to
  <2>1. ~(u > from)
    BY TrackedFacts
  <2> QED BY <1>0, <2>1
<1>2. {u \in S : u > to} = {} /\ {u \in S : u > from} = {}
  <2>1. ASSUME NEW u \in S PROVE ~(u > to) /\ ~(u > from)
    <3>1. u \in Nat /\ u <= from /\ u <= to
      BY <1>0, <1>1
    <3> QED BY <3>1
  <2> QED BY <2>1
<1>3. y = IF later # {} THEN Max(later) ELSE 0
  BY <1>2 DEF Tracked
<1>4. x # 0 => x \in S /\ \A u \in S : u <= x
  BY TrackedFacts
<1>5. x = 0 => \A u \in S : u = 0 \/ ~(from - u < Grace)
  <2> DEFINE past == {u \in S : u <= from /\ from - u < Grace}
  <2>1. x = IF past # {} THEN Max(past) ELSE 0
    BY <1>2 DEF Tracked
  <2>2. past \in SUBSET (0..from)
    <3>1. ASSUME NEW u \in past PROVE u \in 0..from
      <4>1. u \in Nat /\ u <= from
        BY <1>0
      <4> QED BY <4>1
    <3> QED BY <3>1
  <2>3. past # {} => Max(past) \in past /\ \A u \in past : u <= Max(past)
    BY <2>2, GreatestIndex
  <2> HIDE DEF x
  <2> SUFFICES ASSUME x = 0, NEW u \in S, from - u < Grace PROVE u = 0
    OBVIOUS
  <2>4. u \in past
    BY <1>1
  <2>5. u <= Max(past) /\ Max(past) = 0
    BY <2>1, <2>3, <2>4
  <2> QED BY <1>0, <2>5
<1>6. later # {} => y \in S /\ to - y < Grace /\ \A u \in S : to - u < Grace => u <= y
  <2>1. later \in SUBSET (0..to)
    <3>1. ASSUME NEW u \in later PROVE u \in 0..to
      <4>1. u \in Nat /\ u <= to
        BY <1>0
      <4> QED BY <4>1
    <3> QED BY <3>1
  <2>2. later # {} => Max(later) \in later /\ \A u \in later : u <= Max(later)
    BY <2>1, GreatestIndex
  <2>3. \A u \in S : to - u < Grace => u \in later
    BY <1>1
  <2> HIDE DEF y
  <2> QED BY <1>3, <2>2, <2>3
<1>7. \A u \in S : to - u < Grace => later # {}
  BY <1>1
<1> HIDE DEF x, y, later
<1>8. CASE later = {}
  BY <1>3, <1>4, <1>7, <1>8 DEF x, y
<1>9. CASE later # {} /\ x # 0
  <2>1. x \in S /\ y \in S /\ y <= x /\ to - y < Grace
    BY <1>4, <1>6, <1>9
  <2>2. x \in Nat /\ y \in Nat
    BY <1>0, <2>1
  <2>3. to - x < Grace
    BY <1>0, <2>1, <2>2
  <2>4. x <= y
    BY <1>6, <1>9, <2>1, <2>3
  <2>5. x = y
    BY <2>1, <2>2, <2>4
  <2> QED BY <2>5 DEF x, y
<1>10. CASE later # {} /\ x = 0
  <2>1. y \in S /\ y \in Nat /\ to - y < Grace
    BY <1>0, <1>6, <1>10
  <2>2. from - y < Grace
    BY <1>0, <2>1
  <2>3. y = 0
    BY <1>5, <1>10, <2>1, <2>2
  <2> QED BY <1>10, <2>3 DEF x, y
<1> QED BY <1>8, <1>9, <1>10

\* A layer whose fork has activated, or that has none, is later the same or has none.
Stays(a, b, to) ==
  /\ a.phase \in {"none", "activated"} /\ (a.phase = "none" => a = NoTarget)
  /\ a.phase = "activated" => a.time \in Nat \ {0}
  /\ b \in {a, NoTarget} /\ (to < a.time + Grace => b = a)

LEMMA NotCancelled ==
  ASSUME NEW target, NEW off, NEW y, NEW at,
         CancelledTargetAt(target, off, y, at).phase \in {"none", "activated"}
  PROVE  y = 0 /\ CancelledTargetAt(target, off, y, at) = target
BY DEF CancelledTargetAt, CancelledTarget, Yields

LEMMA ELStays ==
  ASSUME NetInv, NEW from \in Nat, NEW to \in Nat, from <= to, Quiet(from, to),
         LayerForkTargetsAt(net, from).el.phase \in {"none", "activated"}
  PROVE  Stays(LayerForkTargetsAt(net, from).el, LayerForkTargetsAt(net, to).el, to)
<1> DEFINE ats == {c.time : c \in net.elOff}
           x == Tracked(net.times, from)
           x2 == Tracked(net.times, to)
           y == Tracked(ats, from)
           y2 == Tracked(ats, to)
           a == LayerForkTargetsAt(net, from).el
           b == LayerForkTargetsAt(net, to).el
<1>1. /\ a = CancelledTargetAt(ELTargetAt(net, x, from), net.elOff, y, from)
      /\ b = CancelledTargetAt(ELTargetAt(net, x2, to), net.elOff, y2, to)
  BY DEF LayerForkTargetsAt, LayerTargets
<1>2. net.times \in SUBSET Nat /\ ats \in SUBSET Nat /\ ats \in SUBSET CancelledInstants(net)
  BY NetFacts DEF CancelledInstants
<1>3. a.phase \in {"none", "activated"}
  OBVIOUS
<1> HIDE DEF a, b
<1>4. y = 0 /\ a = ELTargetAt(net, x, from)
  BY <1>1, <1>3, NotCancelled
<1>5. y2 = 0
  <2>1. \A u \in ats : u > from => u > to
    BY <1>2 DEF Quiet
  <2>2. ~(y > from)
    BY <1>4
  <2> HIDE DEF ats
  <2> QED BY <1>2, <1>4, <2>1, <2>2, TrackedLater
<1>6. b = ELTargetAt(net, x2, to)
  BY <1>1, <1>5 DEF CancelledTargetAt
<1>7. \A u \in net.times : u > from => u > to
  BY DEF Quiet
<1> HIDE DEF ats, y, y2
<1>8. ~(x > from)
  <2>1. x # 0 /\ x > from => a.phase = "scheduled"
    BY <1>4 DEF ELTargetAt, ELTarget
  <2>2. x = 0 => ~(x > from)
    OBVIOUS
  <2> QED BY <1>3, <2>1, <2>2
<1>9. x2 \in {x, 0} /\ (x # 0 /\ to - x < Grace => x2 = x)
  BY <1>2, <1>7, <1>8, TrackedLater
<1>10. x # 0 => x \in Nat
  BY <1>2, <1>8, TrackedFacts
<1> HIDE DEF x, x2
<1>11. CASE x = 0
  <2>1. a = NoTarget /\ b = NoTarget
    BY <1>4, <1>6, <1>9, <1>11 DEF ELTargetAt
  <2> QED BY <2>1 DEF Stays, NoTarget, a, b
<1>12. CASE x # 0
  <2>1. a = ELTarget(net, x, from) /\ (x2 = x => b = ELTarget(net, x, to)) /\ (x2 = 0 => b = NoTarget)
    BY <1>4, <1>6, <1>12 DEF ELTargetAt
  <2>2. ~(x > to)
    BY <1>8, <1>10, <1>12
  <2>3. ELTarget(net, x, to) = ELTarget(net, x, from)
    BY <1>8, <2>2 DEF ELTarget
  <2>4. a.time = x /\ a.phase = "activated"
    BY <1>8, <2>1 DEF ELTarget
  <2>5. to < x + Grace => x2 = x
    BY <1>9, <1>10, <1>12, ScheduleAssumption
  <2> QED BY <1>9, <1>10, <1>12, <2>1, <2>3, <2>4, <2>5 DEF Stays, a, b
<1> QED BY <1>11, <1>12

LEMMA CLStays ==
  ASSUME NetInv, NEW from \in Nat, NEW to \in Nat, from <= to, Quiet(from, to),
         LayerForkTargetsAt(net, from).cl.phase \in {"none", "activated"}
  PROVE  Stays(LayerForkTargetsAt(net, from).cl, LayerForkTargetsAt(net, to).cl, to)
<1> DEFINE forks == Transitions(net.cl)
           epochs == {f.epoch : f \in forks} \ {0, Far}
           ats == {c.time : c \in net.clOff}
           x == Tracked(epochs, from)
           x2 == Tracked(epochs, to)
           y == Tracked(ats, from)
           y2 == Tracked(ats, to)
           a == LayerForkTargetsAt(net, from).cl
           b == LayerForkTargetsAt(net, to).cl
<1>1. /\ a = CancelledTargetAt(CLTargetAt(net, forks, x, from), net.clOff, y, from)
      /\ b = CancelledTargetAt(CLTargetAt(net, forks, x2, to), net.clOff, y2, to)
  BY DEF LayerForkTargetsAt, LayerTargets
<1>2. WellFormed(net.cl) /\ ats \in SUBSET Nat /\ ats \in SUBSET CancelledInstants(net)
  BY NetFacts DEF CancelledInstants
<1>3. a.phase \in {"none", "activated"}
  OBVIOUS
<1> HIDE DEF a, b
<1>4. y = 0 /\ a = CLTargetAt(net, forks, x, from)
  BY <1>1, <1>3, NotCancelled
<1>5. y2 = 0
  <2>1. \A u \in ats : u > from => u > to
    BY <1>2 DEF Quiet
  <2>2. ~(y > from)
    BY <1>4
  <2> HIDE DEF ats
  <2> QED BY <1>2, <1>4, <2>1, <2>2, TrackedLater
<1>6. b = CLTargetAt(net, forks, x2, to)
  BY <1>1, <1>5 DEF CancelledTargetAt
<1> HIDE DEF ats, y, y2
<1>7. epochs \in SUBSET Nat /\ \A u \in epochs : u > from => u > to
  <2>1. ASSUME NEW u \in epochs PROVE u \in Nat /\ (u > from => u > to)
    <3>1. PICK f \in forks : u = f.epoch
      OBVIOUS
    <3>2. /\ f.epoch \in Nat
          /\ \/ \E i \in DOMAIN net.cl.forks : f.epoch = net.cl.forks[i].epoch
             \/ \E i \in LiveBlobs(net.cl) : f.epoch = net.cl.blobs[i].epoch
      BY <1>2, TransitionKinds
    <3> QED BY <3>1, <3>2 DEF Quiet
  <2> QED BY <2>1
<1>8. ASSUME x # 0, x \in epochs
      PROVE  (CHOOSE f \in forks : f.epoch = x).epoch = x
  BY <1>8
<1> HIDE DEF epochs, forks
<1>9. x # 0 => x \in epochs /\ x \in Nat
  BY <1>7, TrackedIsOne
<1> DEFINE f == CHOOSE f \in forks : f.epoch = x
<1>10. x # 0 => f.epoch = x
  BY <1>8, <1>9
<1> HIDE DEF f
<1>11. ~(x > from)
  <2>1. x # 0 => a = CLTarget(net, f, from)
    BY <1>4 DEF CLTargetAt, f
  <2>2. x # 0 /\ x > from => a.phase = "scheduled"
    BY <1>10, <2>1 DEF CLTarget
  <2>3. x = 0 => ~(x > from)
    OBVIOUS
  <2> QED BY <1>3, <2>2, <2>3
<1>12. x2 \in {x, 0} /\ (x # 0 /\ to - x < Grace => x2 = x)
  BY <1>7, <1>11, TrackedLater
<1> HIDE DEF x, x2
<1>13. CASE x = 0
  <2>1. a = NoTarget /\ b = NoTarget
    BY <1>4, <1>6, <1>12, <1>13 DEF CLTargetAt
  <2> QED BY <2>1 DEF Stays, NoTarget, a, b
<1>14. CASE x # 0
  <2>1. a = CLTarget(net, f, from) /\ (x2 = x => b = CLTarget(net, f, to)) /\ (x2 = 0 => b = NoTarget)
    BY <1>4, <1>6, <1>14 DEF CLTargetAt, f
  <2>2. ~(x > to)
    BY <1>9, <1>11, <1>14
  <2>3. CLTarget(net, f, to) = CLTarget(net, f, from)
    BY <1>10, <1>11, <1>14, <2>2 DEF CLTarget
  <2>4. a.time = x /\ a.phase = "activated"
    BY <1>10, <1>11, <1>14, <2>1 DEF CLTarget
  <2>5. to < x + Grace => x2 = x
    BY <1>9, <1>12, <1>14, ScheduleAssumption
  <2> QED BY <1>9, <1>12, <1>14, <2>1, <2>3, <2>4, <2>5 DEF Stays, a, b
<1> QED BY <1>13, <1>14

\* Both layers of a target that is activated have activated, or have no fork.
LEMMA BothActivated ==
  ASSUME NEW t, t.el.phase \in Phases, t.cl.phase \in Phases, t = [el |-> t.el, cl |-> t.cl],
         Phase(OneUpgrade(t)) = "activated"
  PROVE  t.el.phase \in {"none", "activated"} /\ t.cl.phase \in {"none", "activated"}
<1> DEFINE u == OneUpgrade(t)
           noCL == [el |-> t.el, cl |-> NoTarget]
           noEL == [el |-> NoTarget, cl |-> t.cl]
<1>1. [t EXCEPT !.cl = NoTarget] = noCL /\ [t EXCEPT !.el = NoTarget] = noEL
  OBVIOUS
<1>2. u.el.phase \notin {"cancelled", "scheduled"} /\ u.cl.phase \notin {"cancelled", "scheduled"}
  BY DEF Phase
<1>3. CASE u = t
  BY <1>2, <1>3 DEF Phases
<1>4. CASE u # t
  <2>1. /\ t.el.phase # "none" /\ t.cl.phase # "none"
        /\ \/ /\ u = noCL
              /\ t.el.phase # "activated" \/ t.cl.phase = "activated"
           \/ /\ u = noEL
              /\ t.el.phase = "activated" \/ t.cl.phase # "activated"
    BY <1>1, <1>4 DEF OneUpgrade
  <2> QED BY <1>2, <2>1 DEF Phases
<1> QED BY <1>3, <1>4

LEMMA UpgradeStays ==
  ASSUME NEW a, NEW b, NEW a2, NEW b2, NEW to \in Nat, Stays(a, a2, to), Stays(b, b2, to),
         Phase(OneUpgrade([el |-> a, cl |-> b])) = "activated",
         to < Activation(OneUpgrade([el |-> a, cl |-> b])) + Grace
  PROVE  OneUpgrade([el |-> a2, cl |-> b2]) = OneUpgrade([el |-> a, cl |-> b])
<1> DEFINE t == [el |-> a, cl |-> b]
           u == [el |-> a2, cl |-> b2]
<1>0. NoTarget.phase = "none" /\ NoTarget.time = 0
  BY DEF NoTarget
<1>1. CASE a.phase = "none"
  <2>1. a = NoTarget /\ a2 = NoTarget
    BY <1>1 DEF Stays
  <2>2. OneUpgrade(t) = t
    BY <1>1 DEF OneUpgrade
  <2>3. Activation(t) = b.time
    BY <1>0, <2>1 DEF Activation
  <2>4. b2 = b
    BY <2>2, <2>3 DEF Stays
  <2> QED BY <2>1, <2>4
<1>2. CASE a.phase = "activated" /\ b.phase = "none"
  <2>1. b = NoTarget /\ b2 = NoTarget /\ a.time # 0
    BY <1>2 DEF Stays
  <2>2. OneUpgrade(t) = t
    BY <1>2 DEF OneUpgrade
  <2>3. Activation(t) = a.time
    BY <2>1 DEF Activation
  <2>4. a2 = a
    BY <2>2, <2>3 DEF Stays
  <2> QED BY <2>1, <2>4
<1>3. CASE a.phase = "activated" /\ b.phase = "activated"
  <2>0. a.time \in Nat \ {0} /\ b.time \in Nat \ {0}
    BY <1>3 DEF Stays
  <2>1. CASE a.time = b.time
    <3>1. OneUpgrade(t) = t
      BY <2>1 DEF OneUpgrade
    <3>2. Activation(t) = a.time
      BY <2>0 DEF Activation
    <3>3. a2 = a /\ b2 = b
      BY <2>1, <3>1, <3>2 DEF Stays
    <3> QED BY <3>3
  <2>2. CASE a.time < b.time
    <3>1. OneUpgrade(t) = [el |-> NoTarget, cl |-> b]
      BY <1>3, <2>0, <2>2 DEF OneUpgrade
    <3>2. b2 = b
      BY <1>0, <3>1 DEF Activation, Stays
    <3>3. OneUpgrade([el |-> NoTarget, cl |-> b]) = [el |-> NoTarget, cl |-> b]
      BY <1>0 DEF OneUpgrade
    <3>4. a2 \in {a, NoTarget}
      BY DEF Stays
    <3> QED BY <3>1, <3>2, <3>3, <3>4
  <2>3. CASE b.time < a.time
    <3>1. OneUpgrade(t) = [el |-> a, cl |-> NoTarget]
      BY <1>3, <2>0, <2>3 DEF OneUpgrade
    <3>2. a2 = a
      BY <2>0, <3>1 DEF Activation, Stays
    <3>3. OneUpgrade([el |-> a, cl |-> NoTarget]) = [el |-> a, cl |-> NoTarget]
      BY <1>0 DEF OneUpgrade
    <3>4. b2 \in {b, NoTarget}
      BY DEF Stays
    <3> QED BY <3>1, <3>2, <3>3, <3>4
  <2> QED BY <2>0, <2>1, <2>2, <2>3
<1> QED BY <1>1, <1>2, <1>3 DEF Stays

\* Nothing changes within an era, whatever the schedules, the cancelled forks and the
\* rows: what is current changes for a row only across a boundary of the era and of the
\* layer, by which the publisher's and the DNS publisher's guards go; an era lasts up to
\* the transition that ForkEraTokenAt announces and no longer; and what /api/v1/forks
\* answers of a tracked activated fork holds as long as the answer is cached.
THEOREM ErasExplain == Spec => []EraExplains
<1>1. ASSUME NetInv, NEW from \in Instants, NEW to \in (from + 1)..MaxTime
      PROVE  LET t == ForkTargetAt(net, from)
                 n == NextTransition(net, from)
             IN  /\ to < n <=> \A u \in from..to : Era(net, u) = Era(net, from)
                 /\ Phase(t) = "activated" /\ to < ForksUntil(t, n) => StillTracked(t, ForkTargetAt(net, to))
  <2> DEFINE t == ForkTargetAt(net, from)
             n == NextTransition(net, from)
  <2>1. from \in Nat /\ to \in Nat /\ from < to /\ to <= MaxTime /\ to < Far /\ Far \in Nat /\ MaxTime \in Nat
    BY HistoryAssumption DEF Instants
  <2>2. n \in Nat /\ (n < Far => from < n /\ Era(net, n) # Era(net, from))
    BY <1>1, <2>1, TransitionFacts, EraChanges
  <2>3. ASSUME to < n, NEW u \in from..to PROVE Era(net, u) = Era(net, from)
    <3>1. u \in Nat /\ from <= u /\ u < n /\ u < Far
      BY <2>1, <2>2, <2>3
    <3>2. Quiet(from, u)
      BY <1>1, <2>1, <3>1, QuietBefore
    <3> QED BY <1>1, <2>1, <3>1, <3>2, EraHolds
  <2>4. ASSUME ~(to < n) PROVE \E u \in from..to : Era(net, u) # Era(net, from)
    <3>1. n < Far /\ n <= to
      BY <2>1, <2>2, <2>4
    <3>2. n \in from..to
      BY <2>1, <2>2, <3>1
    <3> QED BY <2>2, <3>1, <3>2
  <2>5. ASSUME Phase(t) = "activated", to < ForksUntil(t, n) PROVE ForkTargetAt(net, to) = t
    <3> DEFINE L == LayerForkTargetsAt(net, from)
               M == LayerForkTargetsAt(net, to)
    <3>1. /\ L.el.phase \in Phases /\ L.cl.phase \in Phases /\ L = [el |-> L.el, cl |-> L.cl]
          /\ M = [el |-> M.el, cl |-> M.cl]
      BY <1>1, <2>1, NetFacts, LayersOK DEF TargetOK
    <3>2. t = OneUpgrade(L) /\ ForkTargetAt(net, to) = OneUpgrade(M)
      BY DEF ForkTargetAt
    <3>3. L.el.phase \in {"none", "activated"} /\ L.cl.phase \in {"none", "activated"}
      BY <2>5, <3>1, <3>2, BothActivated
    <3>4. t \in {L, [L EXCEPT !.cl = NoTarget], [L EXCEPT !.el = NoTarget]}
      BY <3>2 DEF OneUpgrade
    <3> HIDE DEF t, n
    <3>5. Activation(t) \in Nat
      <4>1. L.el = NoTarget \/ L.el.time \in Nat
        <5>1. CASE Quiet(from, from)
          BY <1>1, <2>1, <3>3, <5>1, ELStays DEF Stays
        <5> QED BY <2>1, <5>1, NetFacts, <1>1 DEF Quiet
      <4>2. L.cl = NoTarget \/ L.cl.time \in Nat
        <5>1. CASE Quiet(from, from)
          BY <1>1, <2>1, <3>3, <5>1, CLStays DEF Stays
        <5> QED BY <2>1, <5>1, NetFacts, <1>1 DEF Quiet
      <4>3. L.el.time \in Nat /\ L.cl.time \in Nat /\ NoTarget.time \in Nat
        BY <4>1, <4>2 DEF NoTarget
      <4>4. t.el.time \in Nat /\ t.cl.time \in Nat
        BY <3>1, <3>4, <4>3
      <4> QED BY <4>4 DEF Activation
    <3>6. to < n /\ to < Activation(t) + Grace
      <4> DEFINE S == {n, Activation(t) + Grace}
      <4>1. S \in SUBSET Nat /\ S # {}
        BY <2>2, <3>5, ScheduleAssumption DEF n
      <4>2. Min(S) \in S /\ Min(S) <= n /\ Min(S) <= Activation(t) + Grace
        BY <4>1, LeastIndex
      <4>3. to < Min(S)
        BY <2>5 DEF ForksUntil
      <4>4. Min(S) \in Nat
        BY <4>1, <4>2
      <4> HIDE DEF S
      <4> QED BY <2>1, <2>2, <3>5, <4>2, <4>3, <4>4, ScheduleAssumption DEF n
    <3>7. Quiet(from, to)
      BY <1>1, <2>1, <3>6, QuietBefore DEF n
    <3>8. Stays(L.el, M.el, to) /\ Stays(L.cl, M.cl, to)
      BY <1>1, <2>1, <3>3, <3>7, ELStays, CLStays
    <3> HIDE DEF L, M
    <3> DEFINE a == L.el
               b == L.cl
               a2 == M.el
               b2 == M.cl
    <3>9. L = [el |-> a, cl |-> b] /\ M = [el |-> a2, cl |-> b2] /\ Stays(a, a2, to) /\ Stays(b, b2, to)
      BY <3>1, <3>8 DEF L, M
    <3>10. Phase(OneUpgrade(L)) = "activated" /\ to < Activation(OneUpgrade(L)) + Grace
      BY <2>5, <3>2, <3>6 DEF L, t
    <3> HIDE DEF a, b, a2, b2
    <3>11. OneUpgrade(M) = OneUpgrade(L)
      BY <2>1, <3>9, <3>10, UpgradeStays
    <3> QED BY <3>2, <3>11 DEF L, M, t
  <2>6. ForkTargetAt(net, to) = t => StillTracked(t, ForkTargetAt(net, to))
    BY DEF StillTracked
  <2> HIDE DEF t, n
  <2> QED BY <2>3, <2>4, <2>5, <2>6 DEF t, n
<1>2. NetInv => EraExplains
  BY <1>1, CurrencyHasABoundary DEF EraExplains
<1> QED BY <1>2, NetInvInit, NetInvNext, PTL DEF Spec

-----------------------------------------------------------------------------
(* A scheduled fork that activates *)

\* What is tracked when nothing is ahead any more.
LEMMA TrackedThrough ==
  ASSUME NEW S \in SUBSET Nat, NEW at \in Nat, ~(Tracked(S, at + 1) > at + 1)
  PROVE  \/ Tracked(S, at) = at + 1 /\ Tracked(S, at + 1) = at + 1
         \/ ~(Tracked(S, at) > at) /\ Tracked(S, at + 1) \in {Tracked(S, at), 0}
<1> DEFINE x == Tracked(S, at)
           y == Tracked(S, at + 1)
<1>0. (\A u \in S : u \in Nat) /\ at + 1 \in Nat /\ Grace \in Nat \ {0}
  BY ScheduleAssumption
<1>1. \A u \in S : ~(u > at + 1)
  BY <1>0, TrackedFacts
<1>2. x > at => x \in S
  BY TrackedFacts
<1>3. CASE x > at
  <2>1. x \in S /\ x = at + 1
    <3>1. x \in S /\ x \in Nat /\ ~(x > at + 1)
      BY <1>0, <1>1, <1>2, <1>3
    <3> HIDE DEF x
    <3> QED BY <1>3, <3>1
  <2> DEFINE past == {u \in S : u <= at + 1 /\ at + 1 - u < Grace}
             m == Max(past)
  <2>2. {u \in S : u > at + 1} = {}
    BY <1>1
  <2>3. x \in past
    BY <1>0, <2>1
  <2>4. y = m
    BY <2>2, <2>3 DEF Tracked
  <2>5. past \in SUBSET (0..(at + 1))
    <3>1. ASSUME NEW u \in past PROVE u \in 0..(at + 1)
      <4>1. u \in Nat /\ u <= at + 1
        BY <1>0
      <4> QED BY <4>1
    <3> QED BY <3>1
  <2>6. m \in past /\ x <= m
    BY <1>0, <2>3, <2>5, GreatestIndex
  <2>7. m \in Nat /\ m <= at + 1
    BY <1>0, <2>6
  <2> HIDE DEF m, past
  <2>8. m = at + 1
    BY <2>1, <2>6, <2>7
  <2> QED BY <2>1, <2>4, <2>8
<1>4. CASE ~(x > at)
  <2>1. ASSUME NEW u \in S PROVE u > at => u > at + 1
    <3>1. ~(u > at)
      BY <1>4, TrackedFacts
    <3> QED BY <3>1
  <2>2. y \in {x, 0}
    BY <1>0, <1>4, <2>1, TrackedLater
  <2> QED BY <1>4, <2>2
<1> QED BY <1>3, <1>4

\* A layer that has activated by at + 1, or has no fork then, was at the instant
\* before: about to activate, the same, just out of the grace, or cancelled and just out
\* of the grace.
Through(a, b, at) ==
  \/ a.phase = "scheduled" /\ a.time = at + 1 /\ b.phase = "activated" /\ b.time = a.time /\ b.name = a.name
  \/ a.phase \in {"none", "activated"} /\ b \in {a, NoTarget} /\ a.time \in Nat /\ a.time <= at
     /\ (a.phase = "none" => a = NoTarget)
  \/ a.phase = "cancelled" /\ a.time \in Nat /\ a.time <= at

LEMMA ELThrough ==
  ASSUME NetInv, NEW at \in Nat, LayerForkTargetsAt(net, at + 1).el.phase \in {"none", "activated"}
  PROVE  Through(LayerForkTargetsAt(net, at).el, LayerForkTargetsAt(net, at + 1).el, at)
<1> DEFINE off == net.elOff
           ats == {c.time : c \in off}
           x == Tracked(net.times, at)
           x2 == Tracked(net.times, at + 1)
           y == Tracked(ats, at)
           y2 == Tracked(ats, at + 1)
           a == LayerForkTargetsAt(net, at).el
           b == LayerForkTargetsAt(net, at + 1).el
<1>1. /\ a = CancelledTargetAt(ELTargetAt(net, x, at), off, y, at)
      /\ b = CancelledTargetAt(ELTargetAt(net, x2, at + 1), off, y2, at + 1)
  BY DEF LayerForkTargetsAt, LayerTargets
<1>2. net.times \in SUBSET Nat /\ ats \in SUBSET Nat /\ at + 1 \in Nat
  BY NetFacts
<1>3. b.phase \in {"none", "activated"}
  OBVIOUS
<1> HIDE DEF a, b
<1>4. y2 = 0 /\ b = ELTargetAt(net, x2, at + 1)
  BY <1>1, <1>3, NotCancelled
<1>5. ~(y > at) /\ (y # 0 => y \in ats)
  <2> HIDE DEF ats
  <2>1. ~(y2 > at + 1) /\ at + 1 # 0
    BY <1>4
  <2> QED BY <1>2, <1>4, <2>1, TrackedThrough, TrackedIsOne
<1>6. ~(x2 > at + 1)
  <2>1. x2 # 0 /\ x2 > at + 1 => b.phase = "scheduled"
    BY <1>4 DEF ELTargetAt, ELTarget
  <2>2. x2 = 0 => ~(x2 > at + 1)
    OBVIOUS
  <2> QED BY <1>3, <2>1, <2>2
<1>7. \/ x = at + 1 /\ x2 = at + 1
      \/ ~(x > at) /\ x2 \in {x, 0}
  BY <1>2, <1>6, TrackedThrough
<1>8. x \in Nat
  BY <1>2, TrackedIsOne
<1>9. CASE a # ELTargetAt(net, x, at)
  <2>1. y # 0 /\ a = CancelledTarget(Picked(off, y, at))
    BY <1>1, <1>9 DEF CancelledTargetAt
  <2>2. Picked(off, y, at).time = y
    BY <1>5, <2>1, NetFacts, PickedFacts
  <2>3. a.phase = "cancelled" /\ a.time = y
    BY <2>1, <2>2 DEF CancelledTarget
  <2>4. y \in Nat
    BY <1>2, <1>5, <2>1
  <2> QED BY <1>5, <2>3, <2>4 DEF Through, a
<1> HIDE DEF x, x2
<1>10. CASE a = ELTargetAt(net, x, at) /\ x = at + 1
  <2>1. a = ELTarget(net, x, at) /\ b = ELTarget(net, x, at + 1)
    BY <1>4, <1>7, <1>10, <1>8 DEF ELTargetAt
  <2>2. x > at /\ ~(x > at + 1)
    BY <1>10
  <2> QED BY <1>10, <2>1, <2>2 DEF ELTarget, Through, a, b
<1>11. CASE a = ELTargetAt(net, x, at) /\ ~(x > at)
  <2>1. x2 \in {x, 0} /\ x <= at
    BY <1>7, <1>8, <1>11
  <2>2. CASE x = 0
    <3>1. a = NoTarget /\ b = NoTarget
      BY <1>4, <1>11, <2>1, <2>2 DEF ELTargetAt
    <3> QED BY <3>1 DEF Through, NoTarget, a, b
  <2>3. CASE x # 0
    <3>1. a = ELTarget(net, x, at) /\ (x2 = x => b = ELTarget(net, x, at + 1)) /\ (x2 = 0 => b = NoTarget)
      BY <1>4, <1>11, <2>3 DEF ELTargetAt
    <3>2. ~(x > at + 1)
      BY <1>8, <2>1
    <3>3. ELTarget(net, x, at + 1) = ELTarget(net, x, at)
      BY <1>11, <3>2 DEF ELTarget
    <3>4. a.time = x /\ a.phase = "activated"
      BY <1>11, <3>1 DEF ELTarget
    <3> QED BY <1>8, <2>1, <3>1, <3>3, <3>4 DEF Through, a, b
  <2> QED BY <2>2, <2>3
<1> QED BY <1>7, <1>9, <1>10, <1>11

LEMMA CLThrough ==
  ASSUME NetInv, NEW at \in Nat, LayerForkTargetsAt(net, at + 1).cl.phase \in {"none", "activated"}
  PROVE  Through(LayerForkTargetsAt(net, at).cl, LayerForkTargetsAt(net, at + 1).cl, at)
<1> DEFINE off == net.clOff
           ats == {c.time : c \in off}
           forks == Transitions(net.cl)
           epochs == {f.epoch : f \in forks} \ {0, Far}
           x == Tracked(epochs, at)
           x2 == Tracked(epochs, at + 1)
           y == Tracked(ats, at)
           y2 == Tracked(ats, at + 1)
           a == LayerForkTargetsAt(net, at).cl
           b == LayerForkTargetsAt(net, at + 1).cl
<1>1. /\ a = CancelledTargetAt(CLTargetAt(net, forks, x, at), off, y, at)
      /\ b = CancelledTargetAt(CLTargetAt(net, forks, x2, at + 1), off, y2, at + 1)
  BY DEF LayerForkTargetsAt, LayerTargets
<1>2. epochs \in SUBSET Nat /\ ats \in SUBSET Nat /\ at + 1 \in Nat
  BY NetFacts DEF CancelledInstants
<1>3. b.phase \in {"none", "activated"}
  OBVIOUS
<1> HIDE DEF a, b
<1>4. y2 = 0 /\ b = CLTargetAt(net, forks, x2, at + 1)
  BY <1>1, <1>3, NotCancelled
<1>5. ~(y > at) /\ (y # 0 => y \in ats)
  <2> HIDE DEF ats
  <2>1. ~(y2 > at + 1) /\ at + 1 # 0
    BY <1>4
  <2> QED BY <1>2, <1>4, <2>1, TrackedThrough, TrackedIsOne
<1> DEFINE of(e) == CHOOSE f \in forks : f.epoch = e
<1>6. \A e \in epochs : of(e).epoch = e
  OBVIOUS
<1>7. \A e, at2 : e # 0 => CLTargetAt(net, forks, e, at2) = CLTarget(net, of(e), at2)
  BY DEF CLTargetAt
<1> HIDE DEF of, forks, epochs
<1>8. (x # 0 => x \in epochs) /\ (x2 # 0 => x2 \in epochs)
  BY <1>2, TrackedIsOne
<1> DEFINE f == of(x)
<1>9. x # 0 => f.epoch = x
  BY <1>6, <1>8
<1>10. ~(x2 > at + 1)
  <2>1. x2 # 0 /\ x2 > at + 1 => b.phase = "scheduled"
    <3> SUFFICES ASSUME x2 # 0, x2 > at + 1 PROVE b.phase = "scheduled"
      OBVIOUS
    <3>1. b = CLTarget(net, of(x2), at + 1) /\ of(x2).epoch = x2
      BY <1>4, <1>6, <1>7, <1>8
    <3> QED BY <3>1 DEF CLTarget
  <2>2. x2 = 0 => ~(x2 > at + 1)
    OBVIOUS
  <2> QED BY <1>3, <2>1, <2>2
<1>11. \/ x = at + 1 /\ x2 = at + 1
       \/ ~(x > at) /\ x2 \in {x, 0}
  BY <1>2, <1>10, TrackedThrough
<1>12. x \in Nat
  <2>1. CASE x = 0
    BY <2>1
  <2>2. CASE x # 0
    BY <1>2, <1>8, <2>2
  <2> QED BY <2>1, <2>2
<1>13. CASE a # CLTargetAt(net, forks, x, at)
  <2>1. y # 0 /\ a = CancelledTarget(Picked(off, y, at))
    BY <1>1, <1>13 DEF CancelledTargetAt
  <2>2. Picked(off, y, at).time = y
    BY <1>5, <2>1, NetFacts, PickedFacts
  <2>3. a.phase = "cancelled" /\ a.time = y
    BY <2>1, <2>2 DEF CancelledTarget
  <2>4. y \in Nat
    BY <1>2, <1>5, <2>1
  <2> QED BY <1>5, <2>3, <2>4 DEF Through, a
<1> HIDE DEF x, x2, f
<1>14. CASE a = CLTargetAt(net, forks, x, at) /\ x = at + 1
  <2>1. a = CLTarget(net, f, at) /\ b = CLTarget(net, f, at + 1)
    <3>1. x # 0 /\ x2 = x
      BY <1>11, <1>12, <1>14
    <3> QED BY <1>4, <1>7, <1>14, <3>1 DEF f
  <2>2. x > at /\ ~(x > at + 1)
    BY <1>14
  <2>3. f.epoch = x
    BY <1>14, <1>9
  <2> QED BY <1>14, <2>1, <2>2, <2>3 DEF CLTarget, Through, a, b
<1>15. CASE a = CLTargetAt(net, forks, x, at) /\ ~(x > at)
  <2>1. x2 \in {x, 0} /\ x <= at
    BY <1>11, <1>12, <1>15
  <2>2. CASE x = 0
    <3>1. a = NoTarget /\ b = NoTarget
      BY <1>4, <1>15, <2>1, <2>2 DEF CLTargetAt
    <3> QED BY <3>1 DEF Through, NoTarget, a, b
  <2>3. CASE x # 0
    <3>1. a = CLTarget(net, f, at) /\ (x2 = x => b = CLTarget(net, f, at + 1)) /\ (x2 = 0 => b = NoTarget)
      <4>1. CLTargetAt(net, forks, x, at) = CLTarget(net, f, at) /\ CLTargetAt(net, forks, x, at + 1) = CLTarget(net, f, at + 1)
        BY <1>7, <2>3 DEF f
      <4>2. CLTargetAt(net, forks, 0, at + 1) = NoTarget
        BY DEF CLTargetAt
      <4> QED BY <1>4, <1>15, <4>1, <4>2
    <3>2. ~(x > at + 1)
      BY <1>12, <2>1
    <3>3. CLTarget(net, f, at + 1) = CLTarget(net, f, at)
      BY <1>15, <1>9, <2>3, <3>2 DEF CLTarget
    <3>4. a.time = x /\ a.phase = "activated"
      BY <1>15, <1>9, <2>3, <3>1 DEF CLTarget
    <3> QED BY <1>12, <2>1, <3>1, <3>3, <3>4 DEF Through, a, b
  <2> QED BY <2>2, <2>3
<1> QED BY <1>11, <1>13, <1>14, <1>15

LEMMA SameName ==
  ASSUME NEW t, NEW u, t.el.name = u.el.name, t.cl.name = u.cl.name
  PROVE  Name(t) = Name(u)
BY DEF Name

\* The pure part: what is tracked of the two layers before and after.
LEMMA UpgradeThrough ==
  ASSUME NEW a, NEW b, NEW a2, NEW b2, NEW at \in Nat, Through(a, a2, at), Through(b, b2, at),
         a2.phase \in {"none", "activated"}, b2.phase \in {"none", "activated"},
         Phase(OneUpgrade([el |-> a, cl |-> b])) = "scheduled"
  PROVE  LET t == OneUpgrade([el |-> a, cl |-> b])
             u == OneUpgrade([el |-> a2, cl |-> b2])
         IN  u.el.name = t.el.name /\ u.cl.name = t.cl.name /\ Schedule(u) = Schedule(t)
<1> DEFINE t == OneUpgrade([el |-> a, cl |-> b])
           u == OneUpgrade([el |-> a2, cl |-> b2])
<1>0. NoTarget.phase = "none" /\ NoTarget.time = 0
  BY DEF NoTarget
<1>1. t.el.phase # "cancelled" /\ t.cl.phase # "cancelled" /\ (t.el.phase = "scheduled" \/ t.cl.phase = "scheduled")
  BY DEF Phase
<1>2. CASE a.phase = "scheduled" /\ b.phase = "scheduled"
  <2>1. /\ a.time = at + 1 /\ b.time = at + 1 /\ a2.time = at + 1 /\ b2.time = at + 1
        /\ a2.name = a.name /\ b2.name = b.name
    BY <1>2 DEF Through
  <2>2. t = [el |-> a, cl |-> b] /\ u = [el |-> a2, cl |-> b2]
    BY <2>1 DEF OneUpgrade
  <2> QED BY <2>1, <2>2 DEF Schedule
<1>3. CASE a.phase = "scheduled" /\ b.phase \in {"none", "activated"}
  <2>1. /\ a.time = at + 1 /\ a2.time = at + 1 /\ a2.phase = "activated" /\ a2.name = a.name
        /\ b2 \in {b, NoTarget} /\ b.time \in Nat /\ b.time <= at /\ (b.phase = "none" => b = NoTarget)
    BY <1>3 DEF Through
  <2>2. t = [el |-> a, cl |-> NoTarget]
    <3>1. CASE b.phase = "none"
      BY <2>1, <3>1 DEF OneUpgrade
    <3>2. CASE b.phase = "activated"
      BY <1>3, <2>1, <3>2 DEF OneUpgrade
    <3> QED BY <1>3, <3>1, <3>2
  <2>3. u = [el |-> a2, cl |-> NoTarget]
    <3>1. CASE b2 = NoTarget
      BY <1>0, <3>1 DEF OneUpgrade
    <3>2. CASE b2 = b /\ b.phase = "activated"
      BY <2>1, <3>2 DEF OneUpgrade
    <3> QED BY <1>3, <2>1, <3>1, <3>2
  <2> QED BY <2>1, <2>2, <2>3 DEF Schedule
<1>4. CASE b.phase = "scheduled" /\ a.phase \in {"none", "activated"}
  <2>1. /\ b.time = at + 1 /\ b2.time = at + 1 /\ b2.phase = "activated" /\ b2.name = b.name
        /\ a2 \in {a, NoTarget} /\ a.time \in Nat /\ a.time <= at /\ (a.phase = "none" => a = NoTarget)
    BY <1>4 DEF Through
  <2>2. t = [el |-> NoTarget, cl |-> b]
    <3>1. CASE a.phase = "none"
      BY <2>1, <3>1 DEF OneUpgrade
    <3>2. CASE a.phase = "activated"
      BY <1>4, <2>1, <3>2 DEF OneUpgrade
    <3> QED BY <1>4, <3>1, <3>2
  <2>3. u = [el |-> NoTarget, cl |-> b2]
    <3>1. CASE a2 = NoTarget
      BY <1>0, <3>1 DEF OneUpgrade
    <3>2. CASE a2 = a /\ a.phase = "activated"
      BY <2>1, <3>2 DEF OneUpgrade
    <3> QED BY <1>4, <2>1, <3>1, <3>2
  <2> QED BY <2>1, <2>2, <2>3 DEF Schedule
<1>5. CASE a.phase = "cancelled"
  <2>1. a.time \in Nat /\ a.time <= at
    BY <1>5 DEF Through
  <2>2. b.phase = "scheduled" => b.time = at + 1
    BY DEF Through
  <2>3. t.el = a \/ b.phase # "scheduled"
    BY <1>5, <2>1, <2>2 DEF OneUpgrade
  <2>4. b.phase # "scheduled" => t.el.phase # "scheduled" /\ t.cl.phase # "scheduled"
    BY <1>0, <1>5 DEF OneUpgrade
  <2> QED BY <1>1, <1>5, <2>3, <2>4
<1>6. CASE b.phase = "cancelled"
  <2>1. b.time \in Nat /\ b.time <= at
    BY <1>6 DEF Through
  <2>2. a.phase = "scheduled" => a.time = at + 1
    BY DEF Through
  <2>3. t.cl = b \/ a.phase # "scheduled"
    BY <1>6, <2>1, <2>2 DEF OneUpgrade
  <2>4. a.phase # "scheduled" => t.el.phase # "scheduled" /\ t.cl.phase # "scheduled"
    BY <1>0, <1>6 DEF OneUpgrade
  <2> QED BY <1>1, <1>6, <2>3, <2>4
<1>7. CASE a.phase \in {"none", "activated"} /\ b.phase \in {"none", "activated"}
  <2>1. t.el.phase # "scheduled" /\ t.cl.phase # "scheduled"
    BY <1>0, <1>7 DEF OneUpgrade
  <2> QED BY <1>1, <2>1
<1> QED BY <1>2, <1>3, <1>4, <1>5, <1>6, <1>7 DEF Through

\* The series of a scheduled fork continues across its activation (the first part of
\* SeriesContinues): recordReadiness and ReadinessHistoryFor go on under the same key
\* and the same schedule, whatever else the layers track.
THEOREM SeriesOutlivesActivation == Spec => []AcrossActivation
<1>1. ASSUME NetInv, NEW at \in Instants,
             Phase(ForkTargetAt(net, at)) = "scheduled", Phase(ForkTargetAt(net, at + 1)) = "activated"
      PROVE  /\ Name(ForkTargetAt(net, at + 1)) = Name(ForkTargetAt(net, at))
             /\ Schedule(ForkTargetAt(net, at + 1)) = Schedule(ForkTargetAt(net, at))
  <2> DEFINE L == LayerForkTargetsAt(net, at)
             M == LayerForkTargetsAt(net, at + 1)
             t == ForkTargetAt(net, at)
             u == ForkTargetAt(net, at + 1)
  <2>1. at \in Nat /\ at + 1 \in Nat
    BY HistoryAssumption DEF Instants
  <2>2. /\ L = [el |-> L.el, cl |-> L.cl]
        /\ M.el.phase \in Phases /\ M.cl.phase \in Phases /\ M = [el |-> M.el, cl |-> M.cl]
    BY <1>1, <2>1, NetFacts, LayersOK DEF TargetOK
  <2>3. t = OneUpgrade(L) /\ u = OneUpgrade(M)
    BY DEF ForkTargetAt
  <2>4. M.el.phase \in {"none", "activated"} /\ M.cl.phase \in {"none", "activated"}
    BY <1>1, <2>2, <2>3, BothActivated
  <2>5. Through(L.el, M.el, at) /\ Through(L.cl, M.cl, at)
    BY <1>1, <2>1, <2>4, ELThrough, CLThrough
  <2>6. Phase(t) = "scheduled"
    BY <1>1
  <2> HIDE DEF L, M, t, u
  <2> DEFINE a == L.el
             b == L.cl
             a2 == M.el
             b2 == M.cl
  <2>7. /\ L = [el |-> a, cl |-> b] /\ M = [el |-> a2, cl |-> b2]
        /\ Through(a, a2, at) /\ Through(b, b2, at)
        /\ a2.phase \in {"none", "activated"} /\ b2.phase \in {"none", "activated"}
    BY <2>2, <2>4, <2>5
  <2> HIDE DEF a, b, a2, b2
  <2>8. u.el.name = t.el.name /\ u.cl.name = t.cl.name /\ Schedule(u) = Schedule(t)
    BY <2>1, <2>3, <2>6, <2>7, UpgradeThrough
  <2>9. Name(u) = Name(t)
    BY <2>8, SameName
  <2> QED BY <2>8, <2>9 DEF t, u
<1>2. NetInv => AcrossActivation
  BY <1>1 DEF AcrossActivation
<1> QED BY <1>2, NetInvInit, NetInvNext, PTL DEF Spec
==============================================================================
