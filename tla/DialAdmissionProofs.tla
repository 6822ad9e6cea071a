------------------------- MODULE DialAdmissionProofs -------------------------
(***************************************************************************)
(* The expiring map for any ids, window, capacity and lag: its bounds, the *)
(* heap that covers its entries, and that it implements the plain TtlMap.  *)
(* And the admission of dials that uses it, for any number of workers and  *)
(* any budget: no window is lost, and no address is dialled too often.     *)
(***************************************************************************)
EXTENDS DialAdmission, FiniteSetTheorems, TLAPS

Maps == [Ids -> EntryRecords \cup {NoEntry}]

\* The items of present entries carry the time of the entry, sequence numbers
\* are below n, and every entry has its item.
Good(es, heap, n) ==
  /\ \A id \in Held(es) : ItemOf(id, es[id]) \in heap /\ es[id].seq <= n
  /\ \A item \in heap : item.seq <= n
  /\ \A item \in heap : Matches(es, item) => item.at = es[item.id].at

MapInv == MapTypeOK /\ Good(entries, expiry, seq) /\ clock <= MaxClock

\* The map without the entries whose window has passed.
Unexpired(es, t) ==
  [id \in Ids |-> IF es[id] # NoEntry /\ es[id].at + TTL <= t THEN NoEntry ELSE es[id]]

LEMMA NoEntryNotRecord == NoEntry \notin EntryRecords
BY MapAssumption DEF EntryRecords

\* prune drops exactly the entries whose window has passed, although it works
\* from the items of the heap.
LEMMA PrunedIsUnexpired ==
  ASSUME MapInv, NEW t \in Nat
  PROVE  Pruned(t) = Unexpired(entries, t)
<1>1. ASSUME NEW id \in Ids
      PROVE  (\E item \in Passed(t) : item.id = id /\ Matches(entries, item))
               <=> (entries[id] # NoEntry /\ entries[id].at + TTL <= t)
  <2>1. ASSUME NEW item \in Passed(t), item.id = id, Matches(entries, item)
        PROVE  entries[id] # NoEntry /\ entries[id].at + TTL <= t
    BY <2>1 DEF MapInv, Good, Passed, Matches
  <2>2. ASSUME entries[id] # NoEntry, entries[id].at + TTL <= t
        PROVE  \E item \in Passed(t) : item.id = id /\ Matches(entries, item)
    <3>1. ItemOf(id, entries[id]) \in expiry
      BY <2>2 DEF MapInv, Good, Held
    <3>2. ItemOf(id, entries[id]) \in Passed(t)
      BY <2>2, <3>1 DEF Passed, ItemOf
    <3> WITNESS ItemOf(id, entries[id]) \in Passed(t)
    <3> QED
      BY <2>2, <3>1, <3>2 DEF Matches, ItemOf
  <2> QED BY <2>1, <2>2
<1> QED BY <1>1 DEF Pruned, Unexpired

LEMMA PrunedGood ==
  ASSUME MapInv, NEW t \in Nat
  PROVE  /\ Pruned(t) \in Maps /\ Left(t) \in SUBSET expiry
         /\ Good(Pruned(t), Left(t), seq)
         /\ Held(Pruned(t)) \subseteq Held(entries)
<1> USE DEF MapInv
<1>1. Pruned(t) = Unexpired(entries, t)
  BY PrunedIsUnexpired
<1>2. \A id \in Ids : Pruned(t)[id] # NoEntry =>
        /\ Pruned(t)[id] = entries[id] /\ ~(entries[id].at + TTL <= t)
  BY <1>1 DEF Unexpired
<1>3. Pruned(t) \in Maps
  BY <1>1 DEF Maps, Unexpired, MapTypeOK
<1>4. Left(t) \in SUBSET expiry
  BY DEF Left
<1>5. Held(Pruned(t)) \subseteq Held(entries)
  BY <1>2 DEF Held
<1>6. ASSUME NEW id \in Held(Pruned(t))
      PROVE  ItemOf(id, Pruned(t)[id]) \in Left(t) /\ Pruned(t)[id].seq <= seq
  <2>1. id \in Ids /\ Pruned(t)[id] = entries[id] /\ id \in Held(entries)
    BY <1>2, <1>5 DEF Held
  <2>2. ItemOf(id, entries[id]) \in expiry /\ entries[id].seq <= seq
    BY <2>1 DEF Good
  <2>3. ~(ItemOf(id, entries[id]).at + TTL <= t)
    BY <1>2, <2>1 DEF ItemOf, Held
  <2> QED BY <2>1, <2>2, <2>3 DEF Left, Passed
<1>7. \A item \in Left(t) : item.seq <= seq
  BY <1>4 DEF Good
<1>8. ASSUME NEW item \in Left(t), Matches(Pruned(t), item)
      PROVE  item.at = Pruned(t)[item.id].at
  <2>1. item \in expiry /\ item.id \in Ids
    BY <1>4 DEF MapTypeOK, Items
  <2>2. Pruned(t)[item.id] = entries[item.id]
    BY <1>2, <1>8, <2>1 DEF Matches
  <2> QED BY <1>8, <2>1, <2>2 DEF Good, Matches
<1> QED BY <1>3, <1>4, <1>5, <1>6, <1>7, <1>8 DEF Good

-----------------------------------------------------------------------------
(* Making room *)

Oldest(es, w) == \A u \in Held(es) : es[w].at <= es[u].at

\* The entries left when room is made for id.
MadeRoomFor(es, id, room) ==
  \/ /\ es[id] # NoEntry \/ Cardinality(Held(es)) < Max
     /\ room.es = es
  \/ /\ es[id] = NoEntry /\ Cardinality(Held(es)) >= Max
     /\ \E w \in Held(es) :
          Oldest(es, w) /\ room.es = [es EXCEPT ![w] = NoEntry]

\* evictOldest drops one entry, and one of the oldest.
LEMMA EvictedOldest ==
  ASSUME NEW es \in Maps, NEW heap \in SUBSET Items, NEW n \in Nat,
         Good(es, heap, n), Held(es) # {}, NEW room \in Evicted(es, heap)
  PROVE  /\ room.es \in Maps /\ room.heap \in SUBSET heap
         /\ Good(room.es, room.heap, n)
         /\ \E w \in Held(es) : Oldest(es, w) /\ room.es = [es EXCEPT ![w] = NoEntry]
<1> DEFINE present == {item \in heap : Matches(es, item)}
           oldest == {item \in present : \A other \in present : item.at <= other.at}
<1>1. PICK h \in Held(es) : TRUE
  OBVIOUS
<1>2. \A u \in Held(es) : /\ ItemOf(u, es[u]) \in present
                           /\ es[u] \in EntryRecords /\ u \in Ids
  BY DEF Good, Held, Matches, ItemOf, Maps
<1>3. PICK item \in oldest :
        \E popped \in SUBSET {other \in heap \ present : other.at = item.at} :
          room = [es |-> [es EXCEPT ![item.id] = NoEntry],
                  heap |-> {other \in heap : other.at >= item.at /\ other # item} \ popped]
  BY <1>1, <1>2 DEF Evicted
<1>4. item \in heap /\ Matches(es, item) /\ item \in Items
  OBVIOUS
<1> PICK popped \in SUBSET {other \in heap \ present : other.at = item.at} :
      room = [es |-> [es EXCEPT ![item.id] = NoEntry],
              heap |-> {other \in heap : other.at >= item.at /\ other # item} \ popped]
  BY <1>3
<1>5. item.id \in Held(es) /\ item = ItemOf(item.id, es[item.id])
  BY <1>4 DEF Held, Matches, ItemOf, Items, Good
<1>6. Oldest(es, item.id)
  <2> SUFFICES ASSUME NEW u \in Held(es) PROVE es[item.id].at <= es[u].at
    BY DEF Oldest
  <2>1. item.at <= ItemOf(u, es[u]).at
    BY <1>2, <1>3
  <2> QED BY <2>1, <1>5 DEF ItemOf
<1>7. room.es = [es EXCEPT ![item.id] = NoEntry] /\ room.heap \in SUBSET heap
  BY <1>3
<1>8. room.es \in Maps
  BY <1>7 DEF Maps
<1>9. \A u \in Held(room.es) : u \in Held(es) /\ u # item.id /\ room.es[u] = es[u]
  BY <1>7, <1>5 DEF Held, Maps
<1>10. ASSUME NEW u \in Held(room.es)
       PROVE  ItemOf(u, room.es[u]) \in room.heap /\ room.es[u].seq <= n
  <2>1. u \in Held(es) /\ u # item.id /\ room.es[u] = es[u]
    BY <1>9
  <2>2. ItemOf(u, es[u]) \in present /\ ItemOf(u, es[u]) # item
    BY <1>2, <1>5, <2>1 DEF ItemOf
  <2>3. ItemOf(u, es[u]).at >= item.at
    <3>1. ItemOf(u, es[u]).at = es[u].at /\ item.at = es[item.id].at
      BY <1>5 DEF ItemOf
    <3>2. es[u].at \in Nat /\ es[item.id].at \in Nat
      BY <1>2, <1>5, <2>1 DEF EntryRecords
    <3> QED BY <1>6, <2>1, <3>1, <3>2 DEF Oldest
  <2>4. ItemOf(u, es[u]) \notin popped
    BY <1>3, <2>2
  <2>5. ItemOf(u, es[u]) \in room.heap
    BY <1>3, <2>2, <2>3, <2>4
  <2> QED BY <2>1, <2>5 DEF Good
<1>11. ASSUME NEW other \in room.heap
       PROVE  /\ other.seq <= n
              /\ Matches(room.es, other) => other.at = room.es[other.id].at
  <2>1. other \in heap /\ other.id \in Ids
    BY <1>7 DEF Items
  <2>2. Matches(room.es, other) => Matches(es, other) /\ room.es[other.id] = es[other.id]
    BY <1>9, <2>1 DEF Matches, Held
  <2> QED BY <2>1, <2>2 DEF Good
<1> QED BY <1>5, <1>6, <1>7, <1>8, <1>10, <1>11 DEF Good

LEMMA HeldCounted ==
  ASSUME NEW es \in Maps
  PROVE  IsFiniteSet(Held(es)) /\ Cardinality(Held(es)) \in Nat
BY MapAssumption, FS_Subset, FS_CardinalityType DEF Held

\* After making room for id the map is Good still, and has room.
LEMMA RoomMade ==
  ASSUME NEW es \in Maps, NEW heap \in SUBSET Items, NEW n \in Nat,
         Good(es, heap, n), NEW id \in Ids, NEW room \in Room(es, heap, id),
         Cardinality(Held(es)) <= Max
  PROVE  /\ room.es \in Maps /\ room.heap \in SUBSET heap
         /\ Good(room.es, room.heap, n)
         /\ Cardinality(Held(room.es) \cup {id}) <= Max
         /\ MadeRoomFor(es, id, room)
<1>1. IsFiniteSet(Held(es)) /\ Cardinality(Held(es)) \in Nat /\ Max \in Nat \ {0}
  BY HeldCounted, MapAssumption
<1>2. CASE es[id] # NoEntry \/ Cardinality(Held(es)) < Max
  <2>1. room = [es |-> es, heap |-> heap]
    BY <1>1, <1>2 DEF Room
  <2>2. Cardinality(Held(es) \cup {id}) <= Max
    <3>1. CASE id \in Held(es)
      <4>1. Held(es) \cup {id} = Held(es)
        BY <3>1
      <4> QED BY <4>1
    <3>2. CASE id \notin Held(es)
      <4>1. Cardinality(Held(es)) < Max
        BY <1>2, <3>2 DEF Held
      <4>2. Cardinality(Held(es) \cup {id}) = Cardinality(Held(es)) + 1
        BY <1>1, <3>2, FS_AddElement
      <4> QED BY <1>1, <4>1, <4>2
    <3> QED BY <3>1, <3>2
  <2> QED BY <1>2, <2>1, <2>2 DEF MadeRoomFor
<1>3. CASE es[id] = NoEntry /\ ~(Cardinality(Held(es)) < Max)
  <2>1. room \in Evicted(es, heap)
    BY <1>1, <1>3 DEF Room
  <2>2. Held(es) # {}
    BY <1>1, <1>3, FS_EmptySet
  <2>3. /\ room.es \in Maps /\ room.heap \in SUBSET heap
        /\ Good(room.es, room.heap, n)
        /\ \E w \in Held(es) : Oldest(es, w) /\ room.es = [es EXCEPT ![w] = NoEntry]
    BY <2>1, <2>2, EvictedOldest
  <2>4. PICK w \in Held(es) : Oldest(es, w) /\ room.es = [es EXCEPT ![w] = NoEntry]
    BY <2>3
  <2>5. Held(room.es) = Held(es) \ {w}
    BY <2>4 DEF Held, Maps
  <2>6. Cardinality(Held(room.es)) = Cardinality(Held(es)) - 1
    <3>1. Cardinality(Held(es) \ {w}) = Cardinality(Held(es)) - 1
      BY <1>1, FS_RemoveElement
    <3> QED BY <2>5, <3>1
  <2>7. id \notin Held(room.es) /\ IsFiniteSet(Held(room.es))
    BY <1>1, <1>3, <2>5, FS_Subset DEF Held
  <2>8. Cardinality(Held(room.es) \cup {id}) = Cardinality(Held(room.es)) + 1
    BY <2>7, FS_AddElement
  <2>9. Cardinality(Held(room.es) \cup {id}) <= Max
    BY <1>1, <2>6, <2>8
  <2>10. Cardinality(Held(es)) >= Max
    BY <1>1, <1>3
  <2>11. MadeRoomFor(es, id, room)
    BY <1>3, <2>3, <2>10, Zenon DEF MadeRoomFor
  <2> QED BY <2>3, <2>9, <2>11
<1> QED BY <1>2, <1>3

-----------------------------------------------------------------------------
(* Storing *)

LEMMA CompactedBounded ==
  ASSUME NEW es \in Maps
  PROVE  /\ IsFiniteSet(Compacted(es))
         /\ Cardinality(Compacted(es)) <= Cardinality(Held(es))
<1>1. IsFiniteSet(Held(es))
  BY HeldCounted
<1> DEFINE itemOf == [id \in Held(es) |-> ItemOf(id, es[id])]
<1>2. itemOf \in [Held(es) -> Compacted(es)]
  BY DEF Compacted
<1>3. \A item \in Compacted(es) : \E id \in Held(es) : itemOf[id] = item
  BY DEF Compacted
<1>4. itemOf \in Surjection(Held(es), Compacted(es))
  BY <1>2, <1>3 DEF Surjection
<1> QED BY <1>1, <1>4, FS_Surjection

LEMMA PrunedFits ==
  ASSUME MapInv, NEW t \in Nat
  PROVE  /\ Pruned(t) \in Maps /\ Left(t) \in SUBSET Items
         /\ Good(Pruned(t), Left(t), seq)
         /\ Cardinality(Held(Pruned(t))) <= Max
<1>1. entries \in Maps /\ Cardinality(Held(entries)) <= Max /\ expiry \in SUBSET Items
  BY DEF MapInv, MapTypeOK, Maps
<1>2. /\ Pruned(t) \in Maps /\ Left(t) \in SUBSET expiry
      /\ Good(Pruned(t), Left(t), seq) /\ Held(Pruned(t)) \subseteq Held(entries)
  BY PrunedGood
<1>3. Cardinality(Held(Pruned(t))) <= Cardinality(Held(entries))
  BY <1>1, <1>2, HeldCounted, FS_Subset
<1>4. Cardinality(Held(Pruned(t))) \in Nat /\ Cardinality(Held(entries)) \in Nat
  BY <1>1, <1>2, HeldCounted
<1> QED BY <1>1, <1>2, <1>3, <1>4, MapAssumption

\* What putLocked stores leaves the map Good and within its bounds.
LEMMA Stores ==
  ASSUME MapInv, NEW id \in Ids, NEW v \in Values, NEW t \in Nat,
         NEW room \in Room(Pruned(t), Left(t), id), PutLocked(id, v, t, room)
  PROVE  /\ entries' \in Maps /\ expiry' \in SUBSET Items /\ seq' \in Nat
         /\ Cardinality(Held(entries')) <= Max
         /\ IsFiniteSet(expiry') /\ Cardinality(expiry') <= 2 * Max
         /\ Good(entries', expiry', seq')
         /\ entries' = [room.es EXCEPT ![id] = [value |-> v, at |-> t, seq |-> seq + 1]]
<1> DEFINE e == [value |-> v, at |-> t, seq |-> seq + 1]
           es == [room.es EXCEPT ![id] = e]
           heap == room.heap \cup {ItemOf(id, e)}
<1>1. seq \in Nat /\ expiry \in SUBSET Items /\ Max \in Nat
  BY MapAssumption DEF MapInv, MapTypeOK
<1>2. /\ Pruned(t) \in Maps /\ Left(t) \in SUBSET Items
      /\ Good(Pruned(t), Left(t), seq)
      /\ Cardinality(Held(Pruned(t))) <= Max
  BY PrunedFits
<1>3. /\ room.es \in Maps /\ room.heap \in SUBSET Left(t)
      /\ Good(room.es, room.heap, seq)
      /\ Cardinality(Held(room.es) \cup {id}) <= Max
  BY <1>1, <1>2, RoomMade
<1>4. e \in EntryRecords /\ ItemOf(id, e) \in Items
  BY <1>1 DEF EntryRecords, ItemOf, Items
<1>5. es \in Maps /\ es[id] = e /\ heap \in SUBSET Items
  BY <1>2, <1>3, <1>4 DEF Maps
<1>6. Held(es) = Held(room.es) \cup {id}
  BY <1>3, <1>4, <1>5, NoEntryNotRecord DEF Held, Maps
<1>7. /\ seq' = seq + 1 /\ entries' = es
      /\ expiry' = IF Cardinality(heap) > 2 * Max THEN Compacted(es) ELSE heap
  BY DEF PutLocked
<1>8. \A u \in Held(es) : u # id => u \in Held(room.es) /\ es[u] = room.es[u]
  BY <1>3, <1>5, <1>6 DEF Maps
<1>9. ASSUME NEW u \in Held(es)
      PROVE  ItemOf(u, es[u]) \in heap /\ es[u].seq <= seq + 1
  <2>1. CASE u = id
    BY <1>1, <1>5, <2>1
  <2>2. CASE u # id
    <3>1. u \in Held(room.es) /\ es[u] = room.es[u]
      BY <1>8, <2>2
    <3>2. ItemOf(u, room.es[u]) \in room.heap /\ room.es[u].seq <= seq
      BY <1>3, <3>1 DEF Good
    <3>3. room.es[u].seq \in Nat
      BY <1>3, <3>1 DEF Maps, Held, EntryRecords
    <3> QED BY <1>1, <3>1, <3>2, <3>3
  <2> QED BY <2>1, <2>2
<1>10. ASSUME NEW item \in heap
       PROVE  /\ item.seq <= seq + 1
              /\ Matches(es, item) => item.at = es[item.id].at
  <2>1. CASE item = ItemOf(id, e)
    BY <1>1, <1>5, <2>1 DEF ItemOf
  <2>2. CASE item \in room.heap
    <3>1. item.seq <= seq /\ item.seq \in Nat /\ item.id \in Ids
      BY <1>2, <1>3, <2>2 DEF Good, Items
    <3>2. item.id = id => ~ Matches(es, item)
      BY <1>1, <1>5, <3>1 DEF Matches
    <3>3. item.id # id => es[item.id] = room.es[item.id]
      BY <1>3, <3>1 DEF Maps
    <3>4. ASSUME Matches(es, item) PROVE item.at = es[item.id].at
      BY <1>3, <2>2, <3>2, <3>3, <3>4 DEF Matches, Good
    <3> QED BY <1>1, <3>1, <3>4
  <2> QED BY <2>1, <2>2
<1>11. Good(es, heap, seq + 1)
  BY <1>9, <1>10 DEF Good
<1>12. Compacted(es) \in SUBSET heap
  BY <1>9 DEF Compacted
<1>13. Good(es, Compacted(es), seq + 1)
  <2>1. \A u \in Held(es) : ItemOf(u, es[u]) \in Compacted(es)
    BY DEF Compacted
  <2> QED BY <1>11, <1>12, <2>1 DEF Good
<1>14. Cardinality(Compacted(es)) <= 2 * Max
  <2>1. Cardinality(Compacted(es)) <= Cardinality(Held(es))
    BY <1>5, CompactedBounded
  <2>2. IsFiniteSet(Held(es)) /\ IsFiniteSet(Compacted(es))
    BY <1>5, HeldCounted, CompactedBounded
  <2>3. Cardinality(Compacted(es)) \in Nat /\ Cardinality(Held(es)) \in Nat
    BY <2>2, FS_CardinalityType
  <2> QED BY <1>1, <1>3, <1>6, <2>1, <2>3
<1>15. IsFiniteSet(heap) /\ IsFiniteSet(Compacted(es)) /\ Cardinality(heap) \in Nat
  <2>1. room.heap \in SUBSET expiry /\ IsFiniteSet(expiry)
    BY <1>3 DEF Left, MapInv, MapTypeOK
  <2>2. IsFiniteSet(heap)
    BY <2>1, FS_Subset, FS_AddElement
  <2> QED BY <1>5, <2>2, FS_CardinalityType, CompactedBounded
<1>h. entries' = [room.es EXCEPT ![id] = [value |-> v, at |-> t, seq |-> seq + 1]]
  BY <1>7
<1> HIDE DEF e, es, heap
<1>16. expiry' \in SUBSET Items /\ Good(es, expiry', seq + 1)
  BY <1>5, <1>7, <1>11, <1>12, <1>13
<1>17. IsFiniteSet(expiry') /\ Cardinality(expiry') <= 2 * Max
  BY <1>1, <1>7, <1>14, <1>15
<1>18. Cardinality(Held(es)) <= Max
  BY <1>3, <1>6
<1> QED
  BY <1>1, <1>5, <1>7, <1>h, <1>16, <1>17, <1>18

-----------------------------------------------------------------------------
(* The invariant *)

LEMMA ReadingsTimes ==
  ASSUME MapInv, NEW t \in Readings
  PROVE  t \in Nat /\ t <= clock /\ clock - Lag <= t /\ t \in 0..MaxClock
BY MapAssumption DEF Readings, MapInv, MapTypeOK

\* A call that stores nothing: it prunes and forgets the ids of S.
LEMMA Forgets ==
  ASSUME MapInv, NEW S \in SUBSET Ids, NEW t \in Nat, expiry' = Left(t),
         entries' = [id \in Ids |-> IF id \in S THEN NoEntry ELSE Pruned(t)[id]]
  PROVE  /\ entries' \in Maps /\ expiry' \in SUBSET Items /\ IsFiniteSet(expiry')
         /\ Cardinality(Held(entries')) <= Max /\ Cardinality(expiry') <= 2 * Max
         /\ Good(entries', expiry', seq)
<1>1. /\ Pruned(t) \in Maps /\ Left(t) \in SUBSET expiry
      /\ Good(Pruned(t), Left(t), seq)
      /\ Held(Pruned(t)) \subseteq Held(entries)
  BY PrunedGood
<1>2. /\ entries \in Maps /\ Cardinality(Held(entries)) <= Max /\ Max \in Nat
      /\ IsFiniteSet(expiry) /\ Cardinality(expiry) <= 2 * Max /\ expiry \in SUBSET Items
  BY MapAssumption DEF MapInv, MapTypeOK, Maps
<1>3. entries' \in Maps
  BY <1>1 DEF Maps
<1>4. \A id \in Held(entries') : id \in Held(Pruned(t)) /\ entries'[id] = Pruned(t)[id]
  BY DEF Held
<1>5. Held(entries') \subseteq Held(entries)
  BY <1>1, <1>4
<1>6. Cardinality(Held(entries')) <= Max
  <2>1. Cardinality(Held(entries')) <= Cardinality(Held(entries))
    BY <1>2, <1>5, HeldCounted, FS_Subset
  <2>2. Cardinality(Held(entries')) \in Nat /\ Cardinality(Held(entries)) \in Nat
    BY <1>2, <1>3, HeldCounted
  <2> QED BY <1>2, <2>1, <2>2
<1>7. IsFiniteSet(expiry') /\ Cardinality(expiry') <= 2 * Max
  <2>1. IsFiniteSet(expiry') /\ Cardinality(expiry') <= Cardinality(expiry)
    BY <1>1, <1>2, FS_Subset
  <2>2. Cardinality(expiry') \in Nat /\ Cardinality(expiry) \in Nat
    BY <1>2, <2>1, FS_CardinalityType
  <2> QED BY <1>2, <2>1, <2>2
<1>8. \A item \in expiry' : item \in Items /\ item.id \in Ids
  BY <1>1, <1>2 DEF Items
<1>9. \A item \in expiry' : Matches(entries', item) =>
        Matches(Pruned(t), item) /\ entries'[item.id] = Pruned(t)[item.id]
  BY <1>8 DEF Matches
<1>10. Good(entries', expiry', seq)
  <2>1. \A id \in Held(entries') : ItemOf(id, entries'[id]) \in expiry' /\ entries'[id].seq <= seq
    BY <1>1, <1>4 DEF Good
  <2>2. \A item \in expiry' : item.seq <= seq
    BY <1>1 DEF Good
  <2>3. \A item \in expiry' : Matches(entries', item) => item.at = entries'[item.id].at
    BY <1>1, <1>9 DEF Good
  <2> QED BY <2>1, <2>2, <2>3 DEF Good
<1> QED BY <1>2, <1>3, <1>6, <1>7, <1>8, <1>10

LEMMA MapInvInit == Init => MapInv
<1> SUFFICES ASSUME Init PROVE MapInv
  OBVIOUS
<1>1. Held(entries) = {} /\ expiry = {}
  BY DEF Init, Held
<1>2. Cardinality({}) = 0 /\ IsFiniteSet({})
  BY FS_EmptySet
<1>3. MapTypeOK
  <2>1. Cardinality(Held(entries)) <= Max /\ Cardinality(expiry) <= 2 * Max /\ IsFiniteSet(expiry)
    BY <1>1, <1>2, MapAssumption
  <2>2. entries \in [Ids -> EntryRecords \cup {NoEntry}] /\ granted \in [Ids -> Nat \cup {-1}]
    BY DEF Init
  <2> QED BY <1>1, <2>1, <2>2 DEF Init, MapTypeOK
<1>4. Good(entries, expiry, seq)
  BY <1>1 DEF Good
<1> QED BY <1>3, <1>4, MapAssumption DEF MapInv, Init

LEMMA MapInvNext == MapInv /\ [Next]_mapVars => MapInv'
<1> SUFFICES ASSUME MapInv, [Next]_mapVars PROVE MapInv'
  OBVIOUS
<1>1. CASE UNCHANGED mapVars
  BY <1>1 DEF MapInv, MapTypeOK, Good, Held, Matches, mapVars
<1>2. CASE Tick
  BY <1>2, MapAssumption DEF Tick, MapInv, MapTypeOK, Good, Held, Matches
<1>3. ASSUME NEW t \in Readings, NEW id \in Ids, NEW v \in Values, Put(id, v, t)
      PROVE  MapInv'
  <2>1. t \in Nat
    BY ReadingsTimes
  <2>2. PICK room \in Room(Pruned(t), Left(t), id) :
          /\ PutLocked(id, v, t, room)
          /\ granted' = GivenUp(Held(Pruned(t)) \ Held(room.es))
    BY <1>3 DEF Put
  <2>3. granted' \in [Ids -> Nat \cup {-1}]
    BY <2>2 DEF GivenUp, MapInv, MapTypeOK
  <2>4. /\ entries' \in Maps /\ expiry' \in SUBSET Items /\ seq' \in Nat
        /\ Cardinality(Held(entries')) <= Max
        /\ IsFiniteSet(expiry') /\ Cardinality(expiry') <= 2 * Max
        /\ Good(entries', expiry', seq')
    BY <2>1, <2>2, Stores
  <2>5. clock' = clock /\ answer' \in SUBSET Ids
    BY <1>3 DEF Put
  <2> QED BY <2>3, <2>4, <2>5 DEF MapInv, MapTypeOK, Maps, Good, Held, Matches
<1>4. ASSUME NEW t \in Readings, NEW id \in Ids, NEW v \in Values, AllowGranted(id, v, t)
      PROVE  MapInv'
  <2>1. t \in Nat
    BY ReadingsTimes
  <2>2. PICK room \in Room(Pruned(t), Left(t), id) :
          /\ PutLocked(id, v, t, room)
          /\ granted' = [GivenUp(Held(Pruned(t)) \ Held(room.es)) EXCEPT ![id] = clock]
    BY <1>4 DEF AllowGranted
  <2>3. granted' \in [Ids -> Nat \cup {-1}]
    BY <2>2 DEF GivenUp, MapInv, MapTypeOK
  <2>4. /\ entries' \in Maps /\ expiry' \in SUBSET Items /\ seq' \in Nat
        /\ Cardinality(Held(entries')) <= Max
        /\ IsFiniteSet(expiry') /\ Cardinality(expiry') <= 2 * Max
        /\ Good(entries', expiry', seq')
    BY <2>1, <2>2, Stores
  <2>5. clock' = clock /\ answer' \in SUBSET Ids
    BY <1>4 DEF AllowGranted
  <2> QED BY <2>3, <2>4, <2>5 DEF MapInv, MapTypeOK, Maps, Good, Held, Matches
<1>5. ASSUME NEW t \in Readings, NEW id \in Ids, AllowRefused(id, t)
      PROVE  MapInv'
  <2>1. t \in Nat /\ Pruned(t) \in Maps
    BY ReadingsTimes, PrunedGood
  <2>2. /\ expiry' = Left(t) /\ seq' = seq
        /\ entries' = [u \in Ids |-> IF u \in {} THEN NoEntry ELSE Pruned(t)[u]]
    BY <1>5, <2>1 DEF AllowRefused, Maps
  <2>3. /\ entries' \in Maps /\ expiry' \in SUBSET Items /\ IsFiniteSet(expiry')
        /\ Cardinality(Held(entries')) <= Max /\ Cardinality(expiry') <= 2 * Max
        /\ Good(entries', expiry', seq')
    <3>1. {} \in SUBSET Ids
      OBVIOUS
    <3> QED BY <2>1, <2>2, <3>1, Forgets
  <2> QED BY <1>5, <2>2, <2>3 DEF AllowRefused, MapInv, MapTypeOK, Maps, Good, Held, Matches
<1>6. ASSUME NEW t \in Readings, NEW S \in SUBSET Ids, Take(S, t)
      PROVE  MapInv'
  <2>1. t \in Nat
    BY ReadingsTimes
  <2>2. /\ entries' \in Maps /\ expiry' \in SUBSET Items /\ IsFiniteSet(expiry')
        /\ Cardinality(Held(entries')) <= Max /\ Cardinality(expiry') <= 2 * Max
        /\ Good(entries', expiry', seq) /\ seq' = seq
    BY <1>6, <2>1, Forgets DEF Take
  <2>3. granted' \in [Ids -> Nat \cup {-1}] /\ clock' = clock /\ answer' \in SUBSET Ids
    BY <1>6 DEF Take, GivenUp, MapInv, MapTypeOK
  <2> QED BY <2>2, <2>3 DEF MapInv, MapTypeOK, Maps, Good, Held, Matches
<1> QED BY <1>1, <1>2, <1>3, <1>4, <1>5, <1>6 DEF Next, Calls

\* Every variable keeps its type, the map holds at most Max entries and the
\* heap at most twice as many items (MapTypeOK), whatever is put, replaced,
\* taken, evicted and compacted in whatever order of times.
THEOREM TypeCorrect == Spec => []MapTypeOK
<1>1. MapInv => MapTypeOK
  BY DEF MapInv
<1> QED BY <1>1, MapInvInit, MapInvNext, PTL DEF Spec

\* No entry is ever without its item in the heap, which would keep it for ever
\* (HeapCovers).
THEOREM EveryEntryExpires == Spec => []HeapCovers
<1>1. MapInv => HeapCovers
  BY DEF MapInv, Good, HeapCovers
<1> QED BY <1>1, MapInvInit, MapInvNext, PTL DEF Spec

-----------------------------------------------------------------------------
(* Grants *)

\* While an id counts as granted, the entry of the grant or one that replaced
\* it is present, or a whole window has passed.
GrantInv ==
  \A id \in Ids : granted[id] # -1 =>
    /\ granted[id] <= clock
    /\ entries[id] # NoEntry => entries[id].at >= granted[id] - Lag
    /\ entries[id] = NoEntry => clock >= granted[id] - Lag + TTL

\* Pruning alone keeps to it.
LEMMA PrunedGrants ==
  ASSUME MapInv, GrantInv, NEW t \in Readings, NEW id \in Ids, granted[id] # -1
  PROVE  /\ granted[id] \in Nat /\ granted[id] <= clock
         /\ Pruned(t)[id] # NoEntry => Pruned(t)[id].at >= granted[id] - Lag
         /\ Pruned(t)[id] = NoEntry => clock >= granted[id] - Lag + TTL
<1>1. /\ t \in Nat /\ t <= clock /\ clock \in Nat /\ granted[id] \in Nat
      /\ entries[id] \in EntryRecords \cup {NoEntry}
  BY ReadingsTimes DEF MapInv, MapTypeOK
<1>2. Pruned(t)[id] = IF entries[id] # NoEntry /\ entries[id].at + TTL <= t
                        THEN NoEntry ELSE entries[id]
  BY <1>1, PrunedIsUnexpired DEF Unexpired
<1>3. CASE entries[id] = NoEntry
  BY <1>1, <1>2, <1>3 DEF GrantInv
<1>4. CASE entries[id] # NoEntry
  <2>1. entries[id].at \in Nat
    BY <1>1, <1>4 DEF EntryRecords
  <2> QED BY <1>1, <1>2, <1>4, <2>1, MapAssumption DEF GrantInv
<1> QED BY <1>3, <1>4

\* So does storing, for the ids that are not evicted and not granted anew.
LEMMA StoredGrants ==
  ASSUME MapInv, GrantInv, NEW id \in Ids, NEW v \in Values, NEW t \in Readings,
         NEW room \in Room(Pruned(t), Left(t), id), PutLocked(id, v, t, room),
         NEW u \in Ids, granted[u] # -1, u \notin Held(Pruned(t)) \ Held(room.es)
  PROVE  /\ granted[u] <= clock
         /\ entries'[u] # NoEntry => entries'[u].at >= granted[u] - Lag
         /\ entries'[u] = NoEntry => clock >= granted[u] - Lag + TTL
<1>1. t \in Nat /\ clock - Lag <= t /\ clock \in Nat /\ Lag \in Nat
  BY ReadingsTimes, MapAssumption DEF MapInv, MapTypeOK
<1>2. /\ granted[u] \in Nat /\ granted[u] <= clock
      /\ Pruned(t)[u] # NoEntry => Pruned(t)[u].at >= granted[u] - Lag
      /\ Pruned(t)[u] = NoEntry => clock >= granted[u] - Lag + TTL
  BY PrunedGrants
<1>3. /\ entries' \in Maps
      /\ entries' = [room.es EXCEPT ![id] = [value |-> v, at |-> t, seq |-> seq + 1]]
  BY <1>1, Stores
<1>4. /\ Pruned(t) \in Maps /\ Left(t) \in SUBSET Items /\ seq \in Nat
      /\ Good(Pruned(t), Left(t), seq)
      /\ Cardinality(Held(Pruned(t))) <= Max
  BY <1>1, PrunedFits DEF MapInv, MapTypeOK
<1>5. /\ room.es \in Maps
      /\ \/ room.es = Pruned(t)
         \/ \E w \in Held(Pruned(t)) : room.es = [Pruned(t) EXCEPT ![w] = NoEntry]
  <2>1. room.es \in Maps /\ MadeRoomFor(Pruned(t), id, room)
    BY <1>4, RoomMade
  <2> QED BY <2>1, Zenon DEF MadeRoomFor
<1>6. room.es[u] = Pruned(t)[u]
  <2>1. CASE room.es = Pruned(t)
    BY <2>1
  <2>2. ASSUME NEW w \in Held(Pruned(t)), room.es = [Pruned(t) EXCEPT ![w] = NoEntry]
        PROVE  room.es[u] = Pruned(t)[u]
    <3>1. w \notin Held(room.es) /\ w \in Ids
      BY <1>4, <2>2 DEF Held, Maps
    <3>2. u # w
      BY <3>1
    <3> QED BY <1>4, <2>2, <3>2 DEF Maps
  <2> QED BY <1>5, <2>1, <2>2
<1>7. CASE u = id
  <2>1. entries'[u] = [value |-> v, at |-> t, seq |-> seq + 1]
    BY <1>3, <1>5, <1>7 DEF Maps
  <2>2. entries'[u] # NoEntry /\ entries'[u].at = t
    BY <1>1, <1>4, <2>1, NoEntryNotRecord DEF EntryRecords
  <2> QED BY <1>1, <1>2, <2>2
<1>8. CASE u # id
  <2>1. entries'[u] = Pruned(t)[u]
    BY <1>3, <1>5, <1>6, <1>8 DEF Maps
  <2> QED BY <1>2, <2>1
<1> QED BY <1>7, <1>8

LEMMA GrantInvNext == MapInv /\ GrantInv /\ [Next]_mapVars => GrantInv'
<1> SUFFICES ASSUME MapInv, GrantInv, [Next]_mapVars,
                    NEW u \in Ids, granted'[u] # -1
             PROVE  /\ granted'[u] <= clock'
                    /\ entries'[u] # NoEntry => entries'[u].at >= granted'[u] - Lag
                    /\ entries'[u] = NoEntry => clock' >= granted'[u] - Lag + TTL
  BY DEF GrantInv
<1>0. clock \in Nat /\ Lag \in Nat /\ TTL \in Nat /\ granted \in [Ids -> Nat \cup {-1}]
  BY MapAssumption DEF MapInv, MapTypeOK
<1>1. CASE UNCHANGED mapVars
  BY <1>1 DEF mapVars, GrantInv
<1>2. CASE Tick
  BY <1>0, <1>2 DEF Tick, GrantInv
<1>3. ASSUME NEW t \in Readings, NEW id \in Ids, NEW v \in Values, Put(id, v, t)
      PROVE  /\ granted'[u] <= clock'
             /\ entries'[u] # NoEntry => entries'[u].at >= granted'[u] - Lag
             /\ entries'[u] = NoEntry => clock' >= granted'[u] - Lag + TTL
  <2>1. PICK room \in Room(Pruned(t), Left(t), id) :
          /\ PutLocked(id, v, t, room)
          /\ granted' = GivenUp(Held(Pruned(t)) \ Held(room.es))
    BY <1>3 DEF Put
  <2>2. granted'[u] = granted[u] /\ u \notin Held(Pruned(t)) \ Held(room.es)
    BY <2>1 DEF GivenUp
  <2>3. clock' = clock
    BY <1>3 DEF Put
  <2> QED BY <2>1, <2>2, <2>3, StoredGrants
<1>4. ASSUME NEW t \in Readings, NEW id \in Ids, NEW v \in Values, AllowGranted(id, v, t)
      PROVE  /\ granted'[u] <= clock'
             /\ entries'[u] # NoEntry => entries'[u].at >= granted'[u] - Lag
             /\ entries'[u] = NoEntry => clock' >= granted'[u] - Lag + TTL
  <2>1. PICK room \in Room(Pruned(t), Left(t), id) :
          /\ PutLocked(id, v, t, room)
          /\ granted' = [GivenUp(Held(Pruned(t)) \ Held(room.es)) EXCEPT ![id] = clock]
    BY <1>4 DEF AllowGranted
  <2>2. clock' = clock
    BY <1>4 DEF AllowGranted
  <2>3. CASE u = id
    <3>1. granted'[u] = clock
      BY <2>1, <2>3 DEF GivenUp
    <3>2. /\ entries' = [room.es EXCEPT ![id] = [value |-> v, at |-> t, seq |-> seq + 1]]
          /\ entries' \in Maps
      BY <2>1, ReadingsTimes, Stores
    <3>3. entries'[u] = [value |-> v, at |-> t, seq |-> seq + 1]
      BY <2>3, <3>2 DEF Maps
    <3>4. entries'[u] # NoEntry /\ entries'[u].at = t
      BY <3>3, NoEntryNotRecord, ReadingsTimes DEF EntryRecords, MapInv, MapTypeOK
    <3> QED BY <1>0, <2>2, <3>1, <3>4, ReadingsTimes
  <2>4. CASE u # id
    <3>1. granted'[u] = granted[u] /\ u \notin Held(Pruned(t)) \ Held(room.es)
      BY <2>1, <2>4 DEF GivenUp
    <3> QED BY <2>1, <2>2, <3>1, StoredGrants
  <2> QED BY <2>3, <2>4
<1>5. ASSUME NEW t \in Readings, NEW id \in Ids, AllowRefused(id, t)
      PROVE  /\ granted'[u] <= clock'
             /\ entries'[u] # NoEntry => entries'[u].at >= granted'[u] - Lag
             /\ entries'[u] = NoEntry => clock' >= granted'[u] - Lag + TTL
  BY <1>5, PrunedGrants DEF AllowRefused
<1>6. ASSUME NEW t \in Readings, NEW S \in SUBSET Ids, Take(S, t)
      PROVE  /\ granted'[u] <= clock'
             /\ entries'[u] # NoEntry => entries'[u].at >= granted'[u] - Lag
             /\ entries'[u] = NoEntry => clock' >= granted'[u] - Lag + TTL
  <2>1. granted'[u] = granted[u] /\ entries'[u] = Pruned(t)[u] /\ clock' = clock
    BY <1>6 DEF Take, GivenUp
  <2> QED BY <2>1, PrunedGrants
<1> QED BY <1>1, <1>2, <1>3, <1>4, <1>5, <1>6 DEF Next, Calls

\* Unless it is taken back or evicted, a reservation by Allow is granted again
\* no sooner than one window later, less the lag of the callers' clock
\* readings (GrantsSpaced).
THEOREM GrantsAreSpaced == Spec => GrantsSpaced
<1> DEFINE Spaced ==
      \A id \in Ids :
        Grants(id) /\ granted[id] # -1 => clock >= granted[id] + TTL - Lag
<1>1. Init => GrantInv
  BY DEF Init, GrantInv
<1>2. ASSUME MapInv, GrantInv, [Next]_mapVars
      PROVE  [Spaced]_mapVars
  <2> SUFFICES ASSUME NEW u \in Ids, Grants(u), granted[u] # -1
               PROVE  clock >= granted[u] + TTL - Lag
    OBVIOUS
  <2>1. seq' # seq /\ u \in answer'
    BY DEF Grants
  <2>2. PICK t \in Readings : \E id \in Ids, v \in Values : AllowGranted(id, v, t)
    BY <1>2, <2>1 DEF Next, Calls, Tick, mapVars, Put, AllowRefused, Take
  <2>3. PICK id \in Ids, v \in Values : AllowGranted(id, v, t)
    BY <2>2
  <2>4. u = id
    BY <2>1, <2>3 DEF AllowGranted
  <2>5. Pruned(t)[u] = NoEntry
    BY <2>3, <2>4 DEF AllowGranted
  <2>6. granted[u] \in Nat /\ clock >= granted[u] - Lag + TTL /\ clock \in Nat
    BY <1>2, <2>5, PrunedGrants DEF MapInv, MapTypeOK
  <2> QED BY <2>6, MapAssumption
<1> QED BY <1>1, <1>2, MapInvInit, MapInvNext, GrantInvNext, PTL DEF Spec, GrantsSpaced

-----------------------------------------------------------------------------
(* Refinement *)

Plain(es) == [id \in Ids |-> ValueOf(es[id])]

LEMMA PlainValues ==
  ASSUME NEW es \in Maps, NEW id \in Ids
  PROVE  /\ Plain(es)[id] # NoEntry <=> es[id] # NoEntry
         /\ es[id] # NoEntry => Plain(es)[id] = [value |-> es[id].value, at |-> es[id].at]
         /\ es[id] # NoEntry => Plain(es)[id].at = es[id].at
<1>1. CASE es[id] = NoEntry
  BY <1>1 DEF Plain, ValueOf
<1>2. CASE es[id] # NoEntry
  <2>1. es[id].value \in Values /\ es[id].at \in Nat
    BY <1>2 DEF Maps, EntryRecords
  <2>2. [value |-> es[id].value, at |-> es[id].at] \in [value: Values, at: Nat]
    BY <2>1
  <2>3. Plain(es)[id] = [value |-> es[id].value, at |-> es[id].at]
    BY <1>2 DEF Plain, ValueOf
  <2> QED BY <1>2, <2>2, <2>3, MapAssumption
<1> QED BY <1>1, <1>2

LEMMA PlainPresent ==
  ASSUME NEW es \in Maps PROVE Abstract!Present(Plain(es)) = Held(es)
BY PlainValues DEF Abstract!Present, Held

\* Expiry commutes with forgetting the sequence numbers.
LEMMA PlainAlive ==
  ASSUME MapInv, NEW t \in Nat
  PROVE  Abstract!Alive(Plain(entries), t) = Plain(Pruned(t))
<1>1. entries \in Maps /\ Pruned(t) \in Maps
  BY PrunedGood DEF MapInv, MapTypeOK, Maps
<1>2. ASSUME NEW id \in Ids
      PROVE  Abstract!Alive(Plain(entries), t)[id] = Plain(Pruned(t))[id]
  <2>1. Abstract!Alive(Plain(entries), t)[id] =
          IF entries[id] # NoEntry /\ entries[id].at + TTL <= t
            THEN NoEntry ELSE ValueOf(entries[id])
    BY <1>1, PlainValues DEF Abstract!Alive, Plain
  <2>2. Pruned(t)[id] = IF entries[id] # NoEntry /\ entries[id].at + TTL <= t
                          THEN NoEntry ELSE entries[id]
    BY PrunedIsUnexpired DEF Unexpired
  <2> QED BY <2>1, <2>2 DEF Plain, ValueOf
<1> QED BY <1>2 DEF Abstract!Alive, Plain

LEMMA SameCardinality ==
  ASSUME NEW S PROVE Abstract!Cardinality(S) = Cardinality(S)
BY DEF Abstract!Cardinality, Abstract!IsFiniteSet, Cardinality, IsFiniteSet

\* The room that is made is one the plain map may make.
LEMMA PlainRoom ==
  ASSUME MapInv, NEW id \in Ids, NEW t \in Nat, NEW room \in Room(Pruned(t), Left(t), id)
  PROVE  Plain(room.es) \in Abstract!MadeRoom(Abstract!Alive(Plain(entries), t), id)
<1> DEFINE es == Pruned(t)
<1>1. /\ es \in Maps /\ Left(t) \in SUBSET Items /\ seq \in Nat
      /\ Good(es, Left(t), seq) /\ Cardinality(Held(es)) <= Max
  BY PrunedFits DEF MapInv, MapTypeOK
<1>2. Abstract!Alive(Plain(entries), t) = Plain(es)
  BY PlainAlive
<1>3. MadeRoomFor(es, id, room)
  BY <1>1, RoomMade
<1>4. Cardinality(Held(es)) \in Nat /\ Max \in Nat
  BY <1>1, HeldCounted, MapAssumption
<1> HIDE DEF es
<1>5. CASE (es[id] # NoEntry \/ Cardinality(Held(es)) < Max) /\ room.es = es
  <2>1. Plain(es)[id] # NoEntry \/ Abstract!Cardinality(Abstract!Present(Plain(es))) < Max
    BY <1>1, <1>5, PlainValues, PlainPresent, SameCardinality
  <2> QED BY <1>2, <1>5, <2>1 DEF Abstract!MadeRoom
<1>6. ASSUME es[id] = NoEntry, Cardinality(Held(es)) >= Max, NEW w \in Held(es),
             Oldest(es, w), room.es = [es EXCEPT ![w] = NoEntry]
      PROVE  Plain(room.es) \in Abstract!MadeRoom(Plain(es), id)
  <2>1. Plain(room.es) = [Plain(es) EXCEPT ![w] = NoEntry]
    BY <1>1, <1>6 DEF Plain, ValueOf, Held, Maps
  <2>2. Abstract!Present(Plain(es)) = Held(es) /\ Plain(es)[id] = NoEntry
    BY <1>1, <1>6, PlainPresent, PlainValues
  <2>3. \A u \in Held(es) : Plain(es)[w].at <= Plain(es)[u].at
    BY <1>1, <1>6, PlainValues DEF Oldest, Held
  <2>4. ~(Abstract!Cardinality(Abstract!Present(Plain(es))) < Max)
    BY <1>4, <1>6, <2>2, SameCardinality
  <2>5. w \in {x \in Abstract!Present(Plain(es)) :
                \A u \in Abstract!Present(Plain(es)) : Plain(es)[x].at <= Plain(es)[u].at}
    BY <1>6, <2>2, <2>3
  <2> QED BY <2>1, <2>2, <2>4, <2>5 DEF Abstract!MadeRoom
<1> QED BY <1>2, <1>3, <1>5, <1>6, Zenon DEF MadeRoomFor

LEMMA PlainStored ==
  ASSUME MapInv, NEW id \in Ids, NEW v \in Values, NEW t \in Nat,
         NEW room \in Room(Pruned(t), Left(t), id), PutLocked(id, v, t, room)
  PROVE  Plain(entries') = [Plain(room.es) EXCEPT ![id] = [value |-> v, at |-> t]]
<1>1. /\ entries' \in Maps
      /\ entries' = [room.es EXCEPT ![id] = [value |-> v, at |-> t, seq |-> seq + 1]]
  BY Stores
<1>2. room.es \in Maps
  BY PrunedFits, RoomMade DEF MapInv, MapTypeOK
<1>3. [value |-> v, at |-> t, seq |-> seq + 1] # NoEntry
  BY NoEntryNotRecord DEF EntryRecords, MapInv, MapTypeOK
<1>4. ASSUME NEW u \in Ids
      PROVE  Plain(entries')[u] = [Plain(room.es) EXCEPT ![id] = [value |-> v, at |-> t]][u]
  <2>1. CASE u = id
    BY <1>1, <1>2, <1>3, <2>1 DEF Plain, ValueOf, Maps
  <2>2. CASE u # id
    BY <1>1, <1>2, <2>2 DEF Plain, ValueOf, Maps
  <2> QED BY <2>1, <2>2
<1> QED BY <1>4 DEF Plain

LEMMA MapStepRefines == MapInv /\ [Next]_mapVars => [Abstract!Next]_(Abstract!ttlVars)
<1> SUFFICES ASSUME MapInv, [Next]_mapVars
             PROVE  [Abstract!Next]_(Abstract!ttlVars)
  OBVIOUS
<1> DEFINE held == Plain(entries)
<1>1. CASE UNCHANGED mapVars
  BY <1>1 DEF mapVars, Abstract!ttlVars
<1>2. CASE Tick
  BY <1>2 DEF Tick, Abstract!ttlVars
<1>3. ASSUME NEW t \in Readings, NEW id \in Ids, NEW v \in Values, Put(id, v, t)
      PROVE  Abstract!Put(id, v, t)
  <2>1. PICK room \in Room(Pruned(t), Left(t), id) : PutLocked(id, v, t, room)
    BY <1>3 DEF Put
  <2>2. /\ Plain(room.es) \in Abstract!MadeRoom(Abstract!Alive(Plain(entries), t), id)
        /\ Plain(entries') = [Plain(room.es) EXCEPT ![id] = [value |-> v, at |-> t]]
    BY <2>1, ReadingsTimes, PlainRoom, PlainStored
  <2> QED BY <1>3, <2>2 DEF Put, Abstract!Put, Plain
<1>4. ASSUME NEW t \in Readings, NEW id \in Ids, NEW v \in Values, AllowGranted(id, v, t)
      PROVE  Abstract!Allow(id, v, t)
  <2>1. PICK room \in Room(Pruned(t), Left(t), id) : PutLocked(id, v, t, room)
    BY <1>4 DEF AllowGranted
  <2>2. /\ Plain(room.es) \in Abstract!MadeRoom(Abstract!Alive(Plain(entries), t), id)
        /\ Plain(entries') = [Plain(room.es) EXCEPT ![id] = [value |-> v, at |-> t]]
    BY <2>1, ReadingsTimes, PlainRoom, PlainStored
  <2>3. Abstract!Alive(Plain(entries), t)[id] = NoEntry
    BY <1>4, ReadingsTimes, PlainAlive, PlainValues, PrunedGood DEF AllowGranted
  <2> QED BY <1>4, <2>2, <2>3 DEF AllowGranted, Abstract!Allow, Plain
<1>5. ASSUME NEW t \in Readings, NEW id \in Ids, NEW v \in Values, AllowRefused(id, t)
      PROVE  Abstract!Allow(id, v, t)
  <2>1. /\ Abstract!Alive(Plain(entries), t) = Plain(Pruned(t))
        /\ Plain(Pruned(t))[id] # NoEntry
    BY <1>5, ReadingsTimes, PlainAlive, PlainValues, PrunedGood DEF AllowRefused
  <2> QED BY <1>5, <2>1 DEF AllowRefused, Abstract!Allow, Plain
<1>6. ASSUME NEW t \in Readings, NEW S \in SUBSET Ids, Take(S, t)
      PROVE  Abstract!Take(S, t)
  <2>1. Abstract!Alive(Plain(entries), t) = Plain(Pruned(t)) /\ Pruned(t) \in Maps
    BY ReadingsTimes, PlainAlive, PrunedGood
  <2>2. Plain(entries') = [id \in Ids |-> IF id \in S THEN NoEntry ELSE Plain(Pruned(t))[id]]
    BY <1>6 DEF Take, Plain, ValueOf
  <2>3. answer' = {id \in S : Plain(Pruned(t))[id] # NoEntry}
    BY <1>6, <2>1, PlainValues DEF Take
  <2> QED BY <2>1, <2>2, <2>3 DEF Abstract!Take, Plain
<1>7. \A t \in Readings : t \in 0..MaxClock
  BY ReadingsTimes
<1>8. ASSUME Calls PROVE Abstract!Next
  <2>1. PICK v \in Values : TRUE
    BY MapAssumption
  <2> QED BY <1>3, <1>4, <1>5, <1>6, <1>7, <1>8 DEF Calls, Abstract!Next
<1> QED BY <1>1, <1>2, <1>8 DEF Next

\* The map with its lazily cleaned heap implements the plain map of values and
\* times (ImplementsTtlMap): the same values expire, give way and are granted.
THEOREM MapImplementsTtlMap == Spec => ImplementsTtlMap
<1>1. Init => Abstract!Init
  BY DEF Init, Abstract!Init, ValueOf
<1> QED BY <1>1, MapInvInit, MapInvNext, MapStepRefines, PTL
       DEF Spec, ImplementsTtlMap, Abstract!Spec

-----------------------------------------------------------------------------
(* The map within DialAdmission *)

allVars == <<use, mapVars, dialVars>>

\* Calls under way carry a reading that is no older than Lag.
CallsInv ==
  /\ use \in {"legacy", "any"}
  /\ calls \in [Workers -> CallRecords \cup {NoEntry}]
  /\ \A w \in Workers : calls[w] # NoEntry => calls[w].now \in Readings

LEMMA CallFields ==
  ASSUME CallsInv, NEW w \in Workers, calls[w] # NoEntry
  PROVE  calls[w] \in CallRecords /\ calls[w].id \in Ids /\ calls[w].now \in Readings
BY DEF CallsInv, CallRecords

\* A step of the worker w on a call that is under way.
WorkerStep(w) ==
  \/ \E v \in Values : WindowGranted(w, v)
  \/ WindowRefused(w) \/ TargetAllowed(w) \/ TargetRefused(w)
  \/ Queued(w) \/ QueueFull(w) \/ Release(w)

\* The map sees its own calls, or nothing.
LEMMA MapStep == MapInv /\ CallsInv /\ [DialNext]_allVars => [Next]_mapVars
<1> SUFFICES ASSUME MapInv, CallsInv, [DialNext]_allVars PROVE [Next]_mapVars
  OBVIOUS
<1>1. CASE UNCHANGED allVars
  BY <1>1 DEF allVars
<1>2. CASE Pass
  BY <1>2 DEF Pass, Next
<1>3. CASE AnyCall
  BY <1>3 DEF AnyCall, Next
<1>4. ASSUME NEW w \in Workers, NEW id \in Ids, Sight(w, id) PROVE UNCHANGED mapVars
  BY <1>4 DEF Sight
<1>5. ASSUME NEW w \in Workers, WorkerStep(w) PROVE [Next]_mapVars
  <2>1. calls[w] # NoEntry
    BY <1>5 DEF WorkerStep, WindowGranted, WindowRefused, TargetAllowed, TargetRefused,
                Queued, QueueFull, Release, At
  <2>2. calls[w].id \in Ids /\ calls[w].now \in Readings
    BY <2>1, CallFields
  <2>3. ASSUME NEW v \in Values, WindowGranted(w, v) PROVE Next
    BY <2>2, <2>3 DEF WindowGranted, Next, Calls
  <2>4. CASE WindowRefused(w)
    BY <2>2, <2>4 DEF WindowRefused, Next, Calls
  <2>5. CASE Release(w)
    <3>1. {calls[w].id} \in SUBSET Ids
      BY <2>2
    <3> QED BY <2>2, <2>5, <3>1 DEF Release, Next, Calls
  <2>6. CASE TargetAllowed(w) \/ TargetRefused(w) \/ Queued(w) \/ QueueFull(w)
    BY <2>6 DEF TargetAllowed, TargetRefused, Queued, QueueFull
  <2> QED BY <1>5, <2>3, <2>4, <2>5, <2>6 DEF WorkerStep
<1>6. ASSUME NEW a \in Ids, NEW now \in Readings, ClaimedDial(a, now) PROVE UNCHANGED mapVars
  BY <1>6 DEF ClaimedDial
<1> QED BY <1>1, <1>2, <1>3, <1>4, <1>5, <1>6 DEF DialNext, WorkerStep

\* What a step does to the calls.
LEMMA CallKinds ==
  ASSUME CallsInv, [DialNext]_allVars
  PROVE  /\ use' = use
         /\ \/ UNCHANGED <<calls, clock>>
            \/ /\ Pass /\ UNCHANGED calls
            \/ /\ clock' = clock
               /\ \E w \in Workers :
                    \/ \E id \in Ids :
                         calls' = [calls EXCEPT ![w] =
                                     [id |-> id, now |-> clock, pc |-> "window", seq |-> 0]]
                    \/ /\ calls[w] # NoEntry
                       /\ \/ calls' = [calls EXCEPT ![w] = NoEntry]
                          \/ \E pc \in {"queue", "release"} : calls' = [calls EXCEPT ![w].pc = pc]
                          \/ calls' = [calls EXCEPT ![w].pc = "budget", ![w].seq = seq + 1]
<1>1. CASE UNCHANGED allVars
  BY <1>1 DEF allVars, mapVars, dialVars
<1>2. CASE Pass
  BY <1>2 DEF Pass
<1>3. CASE AnyCall
  BY <1>3 DEF AnyCall, Calls, Put, AllowGranted, AllowRefused, Take, dialVars
<1>4. ASSUME NEW w \in Workers, NEW id \in Ids, Sight(w, id)
      PROVE /\ use' = use /\ clock' = clock
            /\ calls' = [calls EXCEPT ![w] = [id |-> id, now |-> clock, pc |-> "window", seq |-> 0]]
  BY <1>4 DEF Sight, mapVars
<1>5. ASSUME NEW w \in Workers, WorkerStep(w)
      PROVE /\ use' = use /\ clock' = clock
            /\ calls[w] # NoEntry
            /\ \/ calls' = [calls EXCEPT ![w] = NoEntry]
               \/ \E pc \in {"queue", "release"} : calls' = [calls EXCEPT ![w].pc = pc]
               \/ calls' = [calls EXCEPT ![w].pc = "budget", ![w].seq = seq + 1]
  <2>1. calls[w] # NoEntry
    BY <1>5 DEF WorkerStep, WindowGranted, WindowRefused, TargetAllowed, TargetRefused,
                Queued, QueueFull, Release, At
  <2>2. CASE WindowRefused(w) \/ Release(w)
    BY <2>1, <2>2 DEF WindowRefused, AllowRefused, Release, Take, Returns
  <2>3. CASE TargetAllowed(w) \/ TargetRefused(w) \/ QueueFull(w)
    BY <2>1, <2>3 DEF TargetAllowed, TargetRefused, QueueFull, To, mapVars
  <2>4. CASE Queued(w)
    BY <2>1, <2>4 DEF Queued, Returns, mapVars
  <2>5. ASSUME NEW v \in Values, WindowGranted(w, v)
        PROVE  /\ use' = use /\ clock' = clock
               /\ calls' = [calls EXCEPT ![w].pc = "budget", ![w].seq = seq + 1]
    BY <2>5 DEF WindowGranted, AllowGranted
  <2> QED BY <1>5, <2>1, <2>2, <2>3, <2>4, <2>5 DEF WorkerStep
<1>6. ASSUME NEW a \in Ids, NEW now \in Readings, ClaimedDial(a, now)
      PROVE UNCHANGED <<use, calls, clock>>
  BY <1>6 DEF ClaimedDial, mapVars
<1> QED BY <1>1, <1>2, <1>3, <1>4, <1>5, <1>6 DEF DialNext, WorkerStep

LEMMA CallsInvNext == MapInv /\ CallsInv /\ [DialNext]_allVars => CallsInv'
<1> SUFFICES ASSUME MapInv, CallsInv, [DialNext]_allVars PROVE CallsInv'
  OBVIOUS
<1>1. clock \in Nat /\ seq \in Nat /\ Lag \in Nat
  BY MapAssumption DEF MapInv, MapTypeOK
<1>2. clock \in Readings
  BY <1>1 DEF Readings
<1>a. use' \in {"legacy", "any"}
  BY CallKinds DEF CallsInv
<1>3. CASE UNCHANGED <<calls, clock>>
  BY <1>a, <1>3 DEF CallsInv, Readings
<1>4. CASE Pass /\ UNCHANGED calls
  <2>1. clock' = clock + 1 /\ \A w \in Workers : calls[w] # NoEntry => clock < calls[w].now + Lag
    BY <1>4 DEF Pass, Tick
  <2>2. ASSUME NEW w \in Workers, calls[w] # NoEntry PROVE calls[w].now \in Readings'
    BY <1>1, <2>1, <2>2, CallFields DEF Readings
  <2> QED BY <1>a, <1>4, <2>2 DEF CallsInv
<1>5. ASSUME clock' = clock, NEW w \in Workers, NEW c \in CallRecords \cup {NoEntry},
             c # NoEntry => c.now \in Readings, calls' = [calls EXCEPT ![w] = c]
      PROVE  CallsInv'
  <2>1. \A u \in Workers : calls'[u] = IF u = w THEN c ELSE calls[u]
    BY <1>5 DEF CallsInv
  <2>2. calls' \in [Workers -> CallRecords \cup {NoEntry}]
    BY <1>5 DEF CallsInv
  <2>3. Readings' = Readings
    BY <1>5 DEF Readings
  <2> QED BY <1>a, <1>5, <2>1, <2>2, <2>3 DEF CallsInv
<1>6. ASSUME NEW w \in Workers, NEW id \in Ids, clock' = clock,
             calls' = [calls EXCEPT ![w] = [id |-> id, now |-> clock, pc |-> "window", seq |-> 0]]
      PROVE  CallsInv'
  <2>1. [id |-> id, now |-> clock, pc |-> "window", seq |-> 0] \in CallRecords
    BY <1>1 DEF CallRecords
  <2> QED BY <1>2, <1>5, <1>6, <2>1
<1>7. ASSUME NEW w \in Workers, clock' = clock, calls' = [calls EXCEPT ![w] = NoEntry]
      PROVE  CallsInv'
  BY <1>5, <1>7
<1>8. ASSUME NEW w \in Workers, clock' = clock, calls[w] # NoEntry,
             \/ \E pc \in {"queue", "release"} : calls' = [calls EXCEPT ![w].pc = pc]
             \/ calls' = [calls EXCEPT ![w].pc = "budget", ![w].seq = seq + 1]
      PROVE  CallsInv'
  <2>1. calls[w] \in CallRecords /\ calls[w].now \in Readings
    BY <1>8, CallFields
  <2>2. ASSUME NEW pc \in {"queue", "release"}, calls' = [calls EXCEPT ![w].pc = pc] PROVE CallsInv'
    <3>1. [calls[w] EXCEPT !.pc = pc] \in CallRecords /\ [calls[w] EXCEPT !.pc = pc].now = calls[w].now
      BY <2>1 DEF CallRecords
    <3>2. calls' = [calls EXCEPT ![w] = [calls[w] EXCEPT !.pc = pc]]
      BY <2>2 DEF CallsInv
    <3> QED BY <1>5, <1>8, <2>1, <3>1, <3>2
  <2>3. CASE calls' = [calls EXCEPT ![w].pc = "budget", ![w].seq = seq + 1]
    <3> DEFINE c == [calls[w] EXCEPT !.pc = "budget", !.seq = seq + 1]
    <3> DEFINE d == [calls[w] EXCEPT !.pc = "budget"]
    <3>a. d \in CallRecords /\ d.now = calls[w].now
      BY <2>1 DEF CallRecords
    <3>b. c = [d EXCEPT !.seq = seq + 1]
      OBVIOUS
    <3>1. c \in CallRecords /\ c.now = calls[w].now
      <4> HIDE DEF c, d
      <4> QED BY <1>1, <3>a, <3>b DEF CallRecords
    <3>2. calls' = [calls EXCEPT ![w] = c]
      BY <2>3 DEF CallsInv
    <3> QED BY <1>5, <1>8, <2>1, <3>1, <3>2
  <2> QED BY <1>8, <2>2, <2>3
<1> QED BY <1>3, <1>4, <1>6, <1>7, <1>8, CallKinds

-----------------------------------------------------------------------------
(* The windows *)

\* The worker w has reserved id under the number n and has yet to decide.
Reserves(w, id, n) ==
  calls[w] # NoEntry /\ calls[w].pc # "window" /\ calls[w].id = id /\ calls[w].seq = n

\* An entry is a dial's or belongs to a worker past its reservation.
WindowInv ==
  use = "legacy" =>
    \A id \in Held(entries) :
      entries[id].seq \in spent \/ \E w \in Workers : Reserves(w, id, entries[id].seq)

\* Pruning and taking only remove entries.
LEMMA OnlyRemoved ==
  ASSUME MapInv, NEW t \in Nat, NEW u \in Ids
  PROVE  Pruned(t)[u] \in {entries[u], NoEntry}
BY DEF Pruned

\* A store adds the entry of id and otherwise only removes.
LEMMA StoredElsewhere ==
  ASSUME MapInv, NEW id \in Ids, NEW v \in Values, NEW t \in Nat,
         NEW room \in Room(Pruned(t), Left(t), id), PutLocked(id, v, t, room), NEW u \in Ids
  PROVE  IF u = id THEN entries'[u].seq = seq + 1 ELSE entries'[u] \in {entries[u], NoEntry}
<1>1. /\ Pruned(t) \in Maps /\ Left(t) \in SUBSET Items /\ seq \in Nat
      /\ Good(Pruned(t), Left(t), seq)
      /\ Cardinality(Held(Pruned(t))) <= Max
  BY PrunedFits DEF MapInv, MapTypeOK
<1>2. entries' = [room.es EXCEPT ![id] = [value |-> v, at |-> t, seq |-> seq + 1]]
  BY Stores
<1>3. /\ room.es \in Maps
      /\ \/ room.es = Pruned(t)
         \/ \E w \in Held(Pruned(t)) : room.es = [Pruned(t) EXCEPT ![w] = NoEntry]
  <2>1. room.es \in Maps /\ MadeRoomFor(Pruned(t), id, room)
    BY <1>1, RoomMade
  <2> QED BY <2>1, Zenon DEF MadeRoomFor
<1>4. room.es[u] \in {Pruned(t)[u], NoEntry}
  BY <1>1, <1>3 DEF Maps
<1>5. room.es[u] \in {entries[u], NoEntry}
  BY <1>4, OnlyRemoved
<1>6. CASE u = id
  BY <1>2, <1>3, <1>6 DEF Maps
<1>7. CASE u # id
  BY <1>2, <1>3, <1>5, <1>7 DEF Maps
<1> QED BY <1>6, <1>7

LEMMA WindowInvNext == MapInv /\ CallsInv /\ WindowInv /\ [DialNext]_allVars => WindowInv'
<1> SUFFICES ASSUME MapInv, CallsInv, WindowInv, [DialNext]_allVars, use' = "legacy",
                    NEW id \in Ids, entries'[id] # NoEntry
             PROVE  \/ entries'[id].seq \in spent'
                    \/ \E w \in Workers : Reserves(w, id, entries[id].seq)'
  BY DEF WindowInv, Held, Reserves
<1>1. use = "legacy"
  BY CallKinds
<1>2. entries[id] # NoEntry =>
        entries[id].seq \in spent \/ \E w \in Workers : Reserves(w, id, entries[id].seq)
  BY <1>1 DEF WindowInv, Held
<1>3. ASSUME entries' = entries, spent' = spent, calls' = calls
      PROVE  \/ entries'[id].seq \in spent'
             \/ \E w \in Workers : Reserves(w, id, entries[id].seq)'
  BY <1>2, <1>3 DEF Reserves
<1>4. CASE UNCHANGED allVars
  BY <1>3, <1>4 DEF allVars, mapVars, dialVars
<1>5. CASE Pass
  BY <1>3, <1>5 DEF Pass, Tick
<1>6. CASE AnyCall
  BY <1>1, <1>6 DEF AnyCall
<1>7. ASSUME NEW a \in Ids, NEW now \in Readings, ClaimedDial(a, now)
      PROVE  \/ entries'[id].seq \in spent'
             \/ \E w \in Workers : Reserves(w, id, entries[id].seq)'
  BY <1>3, <1>7 DEF ClaimedDial, mapVars
\* The entry was there before, and the worker that moves keeps what it reserved.
<1>8. ASSUME NEW w \in Workers, entries'[id] = entries[id], spent \subseteq spent',
             \A u \in Workers : u # w => calls'[u] = calls[u],
             Reserves(w, id, entries[id].seq) =>
               entries[id].seq \in spent' \/ Reserves(w, id, entries[id].seq)'
      PROVE  \/ entries'[id].seq \in spent'
             \/ \E u \in Workers : Reserves(u, id, entries[id].seq)'
  <2>1. CASE entries[id].seq \in spent
    BY <1>8, <2>1
  <2>2. ASSUME NEW u \in Workers, Reserves(u, id, entries[id].seq)
        PROVE  entries[id].seq \in spent' \/ Reserves(u, id, entries[id].seq)'
    <3>1. CASE u = w
      BY <1>8, <2>2, <3>1 DEF Reserves
    <3>2. CASE u # w
      BY <1>8, <2>2, <3>2 DEF Reserves
    <3> QED BY <3>1, <3>2
  <2> QED BY <1>2, <1>8, <2>1, <2>2
<1>9. ASSUME NEW w \in Workers, NEW i \in Ids, Sight(w, i)
      PROVE  \/ entries'[id].seq \in spent'
             \/ \E u \in Workers : Reserves(u, id, entries[id].seq)'
  <2>1. entries' = entries /\ spent' = spent /\ ~Reserves(w, id, entries[id].seq)
    BY <1>9 DEF Sight, mapVars, Reserves
  <2>2. \A u \in Workers : u # w => calls'[u] = calls[u]
    BY <1>9 DEF Sight, CallsInv
  <2> QED BY <1>8, <2>1, <2>2
<1>10. ASSUME NEW w \in Workers, WorkerStep(w)
       PROVE  \/ entries'[id].seq \in spent'
              \/ \E u \in Workers : Reserves(u, id, entries[id].seq)'
  <2>1. calls[w] # NoEntry
    BY <1>10 DEF WorkerStep, WindowGranted, WindowRefused, TargetAllowed, TargetRefused,
                 Queued, QueueFull, Release, At
  <2>2. /\ calls[w] \in CallRecords /\ calls[w].id \in Ids
        /\ calls[w].now \in Readings /\ calls[w].now \in Nat
    BY <2>1, CallFields DEF CallRecords
  <2>3. ASSUME NEW pc \in {"queue", "release"}, calls' = [calls EXCEPT ![w].pc = pc],
               entries' = entries, spent' = spent
        PROVE  \/ entries'[id].seq \in spent'
               \/ \E u \in Workers : Reserves(u, id, entries[id].seq)'
    <3>1. \A u \in Workers : u # w => calls'[u] = calls[u]
      BY <2>3 DEF CallsInv
    <3>2. calls'[w] = [calls[w] EXCEPT !.pc = pc]
      BY <2>3 DEF CallsInv
    <3> DEFINE c == [calls[w] EXCEPT !.pc = pc]
    <3>3. c.pc = pc /\ c.id = calls[w].id /\ c.seq = calls[w].seq /\ c \in CallRecords
      BY <2>2 DEF CallRecords
    <3>4. c # NoEntry
      BY <3>3, BudgetAssumption
    <3> HIDE DEF c
    <3>5. Reserves(w, id, entries[id].seq) => Reserves(w, id, entries[id].seq)'
      BY <2>3, <3>2, <3>3, <3>4 DEF Reserves, c
    <3> QED BY <1>8, <2>3, <3>1, <3>5
  <2>4. CASE TargetAllowed(w) \/ TargetRefused(w) \/ QueueFull(w)
    BY <2>3, <2>4 DEF TargetAllowed, TargetRefused, QueueFull, To, mapVars
  <2>5. ASSUME calls' = [calls EXCEPT ![w] = NoEntry]
        PROVE  \A u \in Workers : u # w => calls'[u] = calls[u]
    BY <2>5 DEF CallsInv
  <2>6. CASE Queued(w)
    <3>1. entries' = entries /\ spent' = spent \cup {calls[w].seq}
      BY <2>6 DEF Queued, mapVars
    <3>2. Reserves(w, id, entries[id].seq) => entries[id].seq \in spent'
      BY <3>1 DEF Reserves
    <3>3. \A u \in Workers : u # w => calls'[u] = calls[u]
      BY <2>5, <2>6 DEF Queued, Returns
    <3> QED BY <1>8, <3>1, <3>2, <3>3
  <2>7. CASE WindowRefused(w)
    <3>1. entries' = Pruned(calls[w].now) /\ spent' = spent /\ calls[w].pc = "window"
      BY <2>7 DEF WindowRefused, AllowRefused, At
    <3>2. entries'[id] = entries[id]
      BY <2>2, <3>1, OnlyRemoved
    <3>3. \A u \in Workers : u # w => calls'[u] = calls[u]
      BY <2>5, <2>7 DEF WindowRefused, Returns
    <3>4. ~Reserves(w, id, entries[id].seq)
      BY <3>1 DEF Reserves
    <3> QED BY <1>8, <3>1, <3>2, <3>3, <3>4
  <2>8. CASE Release(w)
    <3>1. /\ entries' = [i \in Ids |-> IF i \in {calls[w].id} THEN NoEntry ELSE Pruned(calls[w].now)[i]]
          /\ spent' = spent
      BY <2>8 DEF Release, Take
    <3>2. id # calls[w].id /\ entries'[id] = Pruned(calls[w].now)[id]
      BY <3>1
    <3>3. entries'[id] = entries[id]
      BY <2>2, <3>2, OnlyRemoved
    <3>4. \A u \in Workers : u # w => calls'[u] = calls[u]
      BY <2>5, <2>8 DEF Release, Returns
    <3>5. ~Reserves(w, id, entries[id].seq)
      BY <3>2 DEF Reserves
    <3> QED BY <1>8, <3>1, <3>3, <3>4, <3>5
  <2>9. ASSUME NEW v \in Values, WindowGranted(w, v)
        PROVE  \/ entries'[id].seq \in spent'
               \/ \E u \in Workers : Reserves(u, id, entries[id].seq)'
    <3> DEFINE i == calls[w].id
               t == calls[w].now
    <3>1. PICK room \in Room(Pruned(t), Left(t), i) : PutLocked(i, v, t, room)
      BY <2>9 DEF WindowGranted, AllowGranted
    <3>2. IF id = i THEN entries'[id].seq = seq + 1 ELSE entries'[id] \in {entries[id], NoEntry}
      BY <2>2, <3>1, StoredElsewhere
    <3>3. /\ spent' = spent /\ calls[w].pc = "window"
          /\ calls' = [calls EXCEPT ![w].pc = "budget", ![w].seq = seq + 1]
      BY <2>9 DEF WindowGranted, At
    <3>4. CASE id # i
      <4>1. \A u \in Workers : u # w => calls'[u] = calls[u]
        BY <3>3 DEF CallsInv
      <4>2. ~Reserves(w, id, entries[id].seq)
        BY <3>3 DEF Reserves
      <4>3. entries'[id] = entries[id]
        BY <3>2, <3>4
      <4> QED BY <1>8, <3>3, <4>1, <4>2, <4>3
    <3>5. CASE id = i
      <4> DEFINE d == [calls[w] EXCEPT !.pc = "budget"]
                 c == [d EXCEPT !.seq = seq + 1]
      <4>1. d \in CallRecords /\ d.id = i /\ d.pc = "budget"
        BY <2>2 DEF CallRecords
      <4>2. calls'[w] = c
        BY <3>3 DEF CallsInv
      <4>3. seq \in Nat
        BY DEF MapInv, MapTypeOK
      <4> HIDE DEF d
      <4>4. c \in CallRecords /\ c.id = i /\ c.pc = "budget" /\ c.seq = seq + 1
        BY <4>1, <4>3 DEF CallRecords
      <4> HIDE DEF c
      <4>5. calls'[w] # NoEntry
        BY <4>2, <4>4, BudgetAssumption
      <4>6. Reserves(w, id, entries[id].seq)'
        BY <3>2, <3>5, <4>2, <4>4, <4>5 DEF Reserves
      <4> QED BY <4>6
    <3> QED BY <3>4, <3>5
  <2> QED BY <1>10, <2>4, <2>6, <2>7, <2>8, <2>9 DEF WorkerStep
<1> QED BY <1>4, <1>5, <1>6, <1>7, <1>9, <1>10 DEF DialNext, WorkerStep

-----------------------------------------------------------------------------
(* The budget *)

\* What a full bucket holds.
Full == Burst * Cost

LEMMA FullFacts ==
  /\ Full \in Nat /\ Cost \in Nat /\ Lag \in Nat /\ Lag < Cost /\ Cost <= Full
  /\ BudgetTTL \in Nat /\ Full + Lag <= BudgetTTL
<1>1. Burst \in Nat /\ Burst >= 1 /\ Cost \in Nat
  BY BudgetAssumption
<1>2. (Burst - 1) * Cost >= 0 /\ Burst * Cost = (Burst - 1) * Cost + Cost
  BY <1>1
<1>3. Burst * Cost \in Nat /\ Cost <= Burst * Cost
  BY <1>1, <1>2
<1> QED BY <1>3, BudgetAssumption, MapAssumption DEF Full

\* At time t the bucket u that is never dropped holds no more than the limiter l has
\* given out, c being the time of the call that spent l last: its reading l.last is
\* up to Lag behind, and no reading since is more than Lag behind it.
Behind(l, u, t) ==
  \E c \in Nat :
    /\ l.last <= c /\ c <= t /\ c <= l.last + Lag /\ c <= l.seen + Lag
    /\ u = 0 \/ u + 2 * l.tokens + 2 * t <= 2 * Full + c + l.last

\* A bucket never holds more than its tokens.
LEMMA BehindBound ==
  ASSUME NEW l \in Limiters, NEW u \in Nat, NEW t \in Nat, Behind(l, u, t)
  PROVE  u <= 2 * Full
BY FullFacts DEF Limiters, Behind

\* A tick drains u no slower than it fills the limiter.
LEMMA BehindTick ==
  ASSUME NEW l \in Limiters, NEW u \in Nat, NEW t \in Nat, Behind(l, u, t)
  PROVE  Behind(l, IF u > 2 THEN u - 2 ELSE 0, t + 1)
BY FullFacts DEF Limiters, Behind

\* A limiter that nobody asked for the ttl is full, and u is empty.
LEMMA BehindDrop ==
  ASSUME NEW l \in Limiters, NEW u \in Nat, NEW t \in Nat, Behind(l, u, t),
         NEW now \in Nat, now <= t, now - l.seen >= BudgetTTL
  PROVE  u = 0
BY FullFacts DEF Limiters, Behind

\* A refusal only moves the time of the last question.
LEMMA BehindAsked ==
  ASSUME NEW l \in Limiters, NEW u \in Nat, NEW t \in Nat, Behind(l, u, t),
         NEW now \in Nat, now <= t, t <= now + Lag
  PROVE  /\ Asked(l, now) \in Limiters /\ Asked(l, now).tokens = l.tokens
         /\ Behind(Asked(l, now), u, t)
<1> DEFINE m == Asked(l, now)
<1>1. m \in Limiters /\ m.tokens = l.tokens /\ m.last = l.last /\ m.seen = now
  BY DEF Limiters, Asked
<1> HIDE DEF m
<1>2. Behind(m, u, t)
  BY <1>1, FullFacts DEF Limiters, Behind
<1> QED BY <1>1, <1>2 DEF m

\* A dial takes a token: u rises by a token less half of Lag, in half units, and l
\* sinks by as much at least, whether the reading is in order, behind the last one,
\* or late enough for the bucket to have been full.
LEMMA BehindSpend ==
  ASSUME NEW l \in Limiters, l.tokens <= Full, NEW u \in Nat, NEW t \in Nat, Behind(l, u, t),
         NEW now \in Nat, now <= t, t <= now + Lag, Tokens(l, now) >= Cost
  PROVE  /\ Spend(l, now) \in Limiters /\ Spend(l, now).tokens <= Full
         /\ u + 2 * Cost - Lag \in Nat
         /\ Behind(Spend(l, now), u + 2 * Cost - Lag, t)
<1> DEFINE n == Tokens(l, now)
<1>1. /\ l.tokens \in Nat /\ l.last \in Nat /\ l.seen \in Nat
  BY DEF Limiters
<1>2. /\ n \in Nat /\ n <= Full
      /\ \/ n = Full /\ l.last <= now /\ l.tokens + (now - l.last) >= Full
         \/ l.last <= now /\ n = l.tokens + (now - l.last)
         \/ now < l.last /\ n = l.tokens
  BY <1>1, FullFacts DEF Tokens, Full
<1> HIDE DEF n
<1> DEFINE m == Spend(l, now)
<1>3. m \in Limiters /\ m.tokens = n - Cost /\ m.last = now /\ m.seen = now
  <2>1. n >= Cost /\ n - Cost \in Nat
    BY <1>2, FullFacts DEF n
  <2> DEFINE a == [l EXCEPT !.tokens = n - Cost]
             b == [a EXCEPT !.last = now]
  <2>2. m = [b EXCEPT !.seen = now]
    BY DEF Spend, n, m
  <2>3. a \in Limiters /\ a.tokens = n - Cost
    BY <2>1 DEF Limiters
  <2> HIDE DEF a
  <2>4. b \in Limiters /\ b.tokens = n - Cost /\ b.last = now
    BY <2>3 DEF Limiters
  <2> HIDE DEF b, m
  <2> QED BY <2>2, <2>4 DEF Limiters
<1> HIDE DEF m
<1>4. u + 2 * Cost - Lag \in Nat
  BY FullFacts
<1>5. PICK c \in Nat :
        /\ l.last <= c /\ c <= t /\ c <= l.last + Lag /\ c <= l.seen + Lag
        /\ u = 0 \/ u + 2 * l.tokens + 2 * t <= 2 * Full + c + l.last
  BY DEF Behind
<1>6. (u + 2 * Cost - Lag) + 2 * (n - Cost) + 2 * t <= 2 * Full + t + now
  BY <1>1, <1>2, <1>5, FullFacts
<1>7. Behind(m, u + 2 * Cost - Lag, t)
  BY <1>3, <1>6 DEF Behind
<1> QED BY <1>2, <1>3, <1>4, <1>7, FullFacts DEF m

-----------------------------------------------------------------------------

\* A table of limiters that agrees with the buckets u at time t.
TableOK(table, u, t) ==
  /\ table \in [Ids -> Limiters \cup {NoEntry}] /\ u \in [Ids -> Nat]
  /\ \A a \in Ids : /\ table[a] = NoEntry => u[a] = 0
                    /\ table[a] # NoEntry => table[a].tokens <= Full /\ Behind(table[a], u[a], t)

BudgetInv == TableOK(budget, used, clock)

\* Dropping the entries that nobody asked about keeps the table in agreement.
LEMMA SweptOK ==
  ASSUME MapInv, BudgetInv, NEW a \in Ids, NEW now \in Readings
  PROVE  TableOK(Swept(a, now), used, clock)
<1>1. clock \in Nat /\ now \in Nat /\ now <= clock
  BY ReadingsTimes DEF MapInv, MapTypeOK
<1>2. ASSUME NEW b \in Ids, budget[b] # NoEntry, now - budget[b].seen >= BudgetTTL
      PROVE  used[b] = 0
  <2>1. budget[b] \in Limiters /\ used[b] \in Nat /\ Behind(budget[b], used[b], clock)
    BY <1>2 DEF BudgetInv, TableOK
  <2> QED BY <1>1, <1>2, <2>1, BehindDrop
<1>3. ASSUME NEW b \in Ids
      PROVE  \/ Swept(a, now)[b] = budget[b]
             \/ Swept(a, now)[b] = NoEntry /\ used[b] = 0
  BY <1>2 DEF Swept
<1>4. Swept(a, now) \in [Ids -> Limiters \cup {NoEntry}]
  BY DEF Swept, BudgetInv, TableOK
<1> QED BY <1>3, <1>4 DEF BudgetInv, TableOK

\* So does the limiter that an address gets.
LEMMA LimiterOK ==
  ASSUME MapInv, NEW a \in Ids, NEW table, TableOK(table, used, clock)
  PROVE  /\ Limiter(a, table) \in Limiters /\ Limiter(a, table).tokens <= Full
         /\ used[a] \in Nat /\ Behind(Limiter(a, table), used[a], clock)
<1>1. CASE table[a] # NoEntry
  BY <1>1 DEF Limiter, TableOK
<1>2. CASE table[a] = NoEntry
  <2> DEFINE l == [tokens |-> Full, last |-> 0, seen |-> 0]
  <2>1. Limiter(a, table) = l /\ used[a] = 0
    BY <1>2 DEF Limiter, TableOK, Full
  <2>2. l \in Limiters /\ l.tokens = Full /\ l.last = 0 /\ l.seen = 0
    BY FullFacts DEF Limiters
  <2>3. clock \in Nat
    BY DEF MapInv, MapTypeOK
  <2> HIDE DEF l
  <2>4. Behind(l, 0, clock)
    BY <2>2, <2>3, FullFacts DEF Behind
  <2> QED BY <2>1, <2>2, <2>4, FullFacts
<1> QED BY <1>1, <1>2

\* The two answers of Allow.
LEMMA AllowsOK ==
  ASSUME MapInv, BudgetInv, NEW a \in Ids, NEW now \in Readings, BudgetAllows(a, now), clock' = clock
  PROVE  BudgetInv'
<1> DEFINE table == Swept(a, now)
           l == Limiter(a, table)
           m == Spend(l, now)
           n == used[a] + 2 * Cost - Lag
<1>1. clock \in Nat /\ now \in Nat /\ now <= clock /\ clock <= now + Lag
  BY ReadingsTimes, MapAssumption DEF MapInv, MapTypeOK
<1>2. TableOK(table, used, clock)
  BY SweptOK
<1>3. l \in Limiters /\ l.tokens <= Full /\ used[a] \in Nat /\ Behind(l, used[a], clock)
  BY <1>2, LimiterOK
<1>4. /\ Tokens(l, now) >= Cost
      /\ budget' = [table EXCEPT ![a] = m] /\ used' = [used EXCEPT ![a] = n]
  BY DEF BudgetAllows, BudgetInv, TableOK
<1> HIDE DEF table, l
<1>5. m \in Limiters /\ m.tokens <= Full /\ n \in Nat /\ Behind(m, n, clock)
  BY <1>1, <1>3, <1>4, BehindSpend
<1> HIDE DEF m, n
<1>6. m # NoEntry
  BY <1>5, BudgetAssumption
<1>7. ASSUME NEW b \in Ids
      PROVE  /\ budget'[b] = IF b = a THEN m ELSE table[b]
             /\ used'[b] = IF b = a THEN n ELSE used[b]
  BY <1>2, <1>4 DEF TableOK
<1>8. budget' \in [Ids -> Limiters \cup {NoEntry}] /\ used' \in [Ids -> Nat]
  BY <1>2, <1>4, <1>5 DEF TableOK
<1>9. TableOK(budget', used', clock)
  BY <1>2, <1>5, <1>6, <1>7, <1>8 DEF TableOK
<1> QED BY <1>9 DEF BudgetInv

LEMMA RefusesOK ==
  ASSUME MapInv, BudgetInv, NEW a \in Ids, NEW now \in Readings, BudgetRefuses(a, now), clock' = clock
  PROVE  BudgetInv'
<1> DEFINE table == Swept(a, now)
           l == Limiter(a, table)
           m == Asked(l, now)
<1>1. clock \in Nat /\ now \in Nat /\ now <= clock /\ clock <= now + Lag
  BY ReadingsTimes, MapAssumption DEF MapInv, MapTypeOK
<1>2. TableOK(table, used, clock)
  BY SweptOK
<1>3. l \in Limiters /\ l.tokens <= Full /\ used[a] \in Nat /\ Behind(l, used[a], clock)
  BY <1>2, LimiterOK
<1>4. used' = used /\ (budget' = table \/ budget' = [table EXCEPT ![a] = m])
  BY DEF BudgetRefuses
<1> HIDE DEF table, l
<1>5. m \in Limiters /\ m.tokens <= Full /\ Behind(m, used[a], clock)
  BY <1>1, <1>3, BehindAsked
<1> HIDE DEF m
<1>6. m # NoEntry
  BY <1>5, BudgetAssumption
<1>7. CASE budget' = table
  BY <1>2, <1>4, <1>7 DEF BudgetInv
<1>8. CASE budget' = [table EXCEPT ![a] = m]
  <2>1. ASSUME NEW b \in Ids PROVE budget'[b] = IF b = a THEN m ELSE table[b]
    BY <1>2, <1>8 DEF TableOK
  <2>2. budget' \in [Ids -> Limiters \cup {NoEntry}]
    BY <1>2, <1>5, <1>8 DEF TableOK
  <2>3. TableOK(budget', used, clock)
    BY <1>2, <1>5, <1>6, <2>1, <2>2 DEF TableOK
  <2> QED BY <1>4, <2>3 DEF BudgetInv
<1> QED BY <1>4, <1>7, <1>8

LEMMA BudgetInvNext == MapInv /\ CallsInv /\ BudgetInv /\ [DialNext]_allVars => BudgetInv'
<1> SUFFICES ASSUME MapInv, CallsInv, BudgetInv, [DialNext]_allVars PROVE BudgetInv'
  OBVIOUS
<1>1. ASSUME UNCHANGED <<budget, used, clock>> PROVE BudgetInv'
  BY <1>1 DEF BudgetInv
<1>2. CASE UNCHANGED allVars
  BY <1>1, <1>2 DEF allVars, mapVars, dialVars
<1>3. CASE Pass
  <2>1. /\ clock' = clock + 1 /\ clock \in Nat /\ budget' = budget
        /\ used' = [a \in Ids |-> IF used[a] > 2 THEN used[a] - 2 ELSE 0]
    BY <1>3 DEF Pass, Tick, MapInv, MapTypeOK
  <2>2. used \in [Ids -> Nat] /\ used' \in [Ids -> Nat]
    BY <2>1 DEF BudgetInv, TableOK
  <2>3. ASSUME NEW a \in Ids
        PROVE  /\ budget[a] = NoEntry => used'[a] = 0
               /\ budget[a] # NoEntry => budget[a].tokens <= Full /\ Behind(budget[a], used'[a], clock + 1)
    <3>1. used'[a] = IF used[a] > 2 THEN used[a] - 2 ELSE 0
      BY <2>1
    <3>2. CASE budget[a] = NoEntry
      BY <3>1, <3>2 DEF BudgetInv, TableOK
    <3>3. CASE budget[a] # NoEntry
      <4>1. /\ budget[a] \in Limiters /\ used[a] \in Nat /\ budget[a].tokens <= Full
            /\ Behind(budget[a], used[a], clock)
        BY <3>3 DEF BudgetInv, TableOK
      <4> QED BY <2>1, <3>1, <3>3, <4>1, BehindTick
    <3> QED BY <3>2, <3>3
  <2>4. TableOK(budget, used', clock + 1)
    BY <2>2, <2>3 DEF TableOK, BudgetInv
  <2> QED BY <2>1, <2>4 DEF BudgetInv
<1>4. CASE AnyCall
  BY <1>1, <1>4 DEF AnyCall, Calls, Put, AllowGranted, AllowRefused, Take, dialVars
<1>5. ASSUME NEW w \in Workers, NEW id \in Ids, Sight(w, id) PROVE BudgetInv'
  BY <1>1, <1>5 DEF Sight, mapVars
<1>6. ASSUME NEW w \in Workers, TargetAllowed(w) \/ TargetRefused(w) PROVE BudgetInv'
  <2>1. calls[w].id \in Ids /\ calls[w].now \in Readings
    BY <1>6, CallFields DEF TargetAllowed, TargetRefused, At
  <2>2. /\ clock' = clock
        /\ BudgetAllows(calls[w].id, calls[w].now) \/ BudgetRefuses(calls[w].id, calls[w].now)
    BY <1>6 DEF TargetAllowed, TargetRefused, mapVars
  <2> QED BY <2>1, <2>2, AllowsOK, RefusesOK
<1>7. ASSUME NEW w \in Workers,
             \/ \E v \in Values : WindowGranted(w, v)
             \/ WindowRefused(w) \/ Queued(w) \/ QueueFull(w) \/ Release(w)
      PROVE  BudgetInv'
  BY <1>1, <1>7 DEF WindowGranted, AllowGranted, WindowRefused, AllowRefused, Queued, QueueFull,
                    Release, Take, mapVars
<1>8. ASSUME NEW a \in Ids, NEW now \in Readings, ClaimedDial(a, now) PROVE BudgetInv'
  BY <1>8, AllowsOK, RefusesOK DEF ClaimedDial, mapVars
<1> QED BY <1>2, <1>3, <1>4, <1>5, <1>6, <1>7, <1>8 DEF DialNext

-----------------------------------------------------------------------------

LEMMA DialInvInit == DialInit => MapInv /\ CallsInv /\ WindowInv /\ BudgetInv
<1> SUFFICES ASSUME DialInit PROVE MapInv /\ CallsInv /\ WindowInv /\ BudgetInv
  OBVIOUS
<1>1. MapInv
  BY MapInvInit DEF DialInit
<1>2. CallsInv
  BY DEF DialInit, CallsInv
<1>3. WindowInv
  BY DEF DialInit, Init, WindowInv, Held
<1>4. BudgetInv
  BY DEF DialInit, Init, BudgetInv, TableOK
<1> QED BY <1>1, <1>2, <1>3, <1>4

\* Whatever workers, budget and queue do in whatever order, a window that stands is
\* that of a queued dial or of a worker about to decide: every refusal of
\* enqueueLegacyFingerprint gives its window back (OnlyDialsSpend).
THEOREM WindowsSpentByDials == DialSpec => []OnlyDialsSpend
<1>1. WindowInv => OnlyDialsSpend
  BY DEF WindowInv, OnlyDialsSpend, Reserves
<1>2. MapInv /\ CallsInv /\ [DialNext]_allVars => MapInv'
  BY MapStep, MapInvNext
<1> QED BY <1>1, <1>2, DialInvInit, CallsInvNext, WindowInvNext, PTL DEF DialSpec, allVars

\* No address is dialled faster than its bucket allows, however small the table of
\* targetDialBudget, however often an entry is dropped and comes back full, and
\* with readings of the clock applied in any order (BudgetHonoured).
THEOREM BudgetIsHonoured == DialSpec => []BudgetHonoured
<1>1. MapInv /\ BudgetInv => BudgetHonoured
  <2> SUFFICES ASSUME MapInv, BudgetInv, NEW a \in Ids PROVE used[a] <= 2 * Burst * Cost
    BY DEF BudgetHonoured
  <2>1. used[a] \in Nat /\ Full \in Nat /\ clock \in Nat
    BY FullFacts DEF BudgetInv, TableOK, MapInv, MapTypeOK
  <2>2. used[a] <= 2 * Full
    <3>1. CASE budget[a] = NoEntry
      BY <2>1, <3>1 DEF BudgetInv, TableOK
    <3>2. CASE budget[a] # NoEntry
      <4>1. budget[a] \in Limiters /\ Behind(budget[a], used[a], clock)
        BY <3>2 DEF BudgetInv, TableOK
      <4> QED BY <2>1, <4>1, BehindBound
    <3> QED BY <3>1, <3>2
  <2>3. 2 * Full = 2 * Burst * Cost
    BY BudgetAssumption DEF Full
  <2> QED BY <2>2, <2>3
<1>2. MapInv /\ CallsInv /\ [DialNext]_allVars => MapInv'
  BY MapStep, MapInvNext
<1> QED BY <1>1, <1>2, DialInvInit, CallsInvNext, BudgetInvNext, PTL DEF DialSpec, allVars

\* The window is one of the expiring maps: what is proved of every use of the map
\* holds for legacyAttempted, and it is the plain map of values with times
\* (ImplementsTtlMap) under the calls of the workers.
THEOREM DialsUseMap == DialSpec => Spec /\ ImplementsTtlMap
<1>1. DialInit => Init
  BY DEF DialInit
<1>2. MapInv /\ CallsInv /\ [DialNext]_allVars => MapInv'
  BY MapStep, MapInvNext
<1> QED BY <1>1, <1>2, DialInvInit, CallsInvNext, MapStep, MapImplementsTtlMap, PTL
       DEF DialSpec, Spec, allVars
==============================================================================
