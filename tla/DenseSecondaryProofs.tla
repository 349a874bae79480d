------------------------ MODULE DenseSecondaryProofs ------------------------
(***************************************************************************)
(* Theorems about DenseSecondaryMap, for every key type and strategy.  The *)
(* argument: every way of changing the pairs keeps the slots and the pairs *)
(* pointing at each other and leaves every value but one where its slot    *)
(* says (P), so that what the caller sees changes at one index only.       *)
(***************************************************************************)
EXTENDS DenseSecondaryMap, TLAPS

P == INSTANCE PairsProofs WITH KeySet <- Keys

\* What the caller sees: the values by index, with their generations.
Attached == [i \in {j \in Positions : HoldsValue(j)} |-> get_at(i)]

\* ... with a value stored under k, or without the one of index i.
Stored(k, v) ==
  [i \in DOMAIN Attached \union {k.idx} |->
     IF i = k.idx THEN Sparse!SparseSlot(k.gen, v) ELSE Attached[i]]
Without(i) == [j \in DOMAIN Attached \ {i} |-> Attached[j]]

-----------------------------------------------------------------------------
(* The slots and the pairs *)

SlotsFit ==
  /\ slots_len <= MaxIdx + 1
  /\ \A i \in Positions : ~HoldsValue(i) => slots[i] = EmptySlot

DataInv == P!PairsOK /\ SlotsMatchPairs /\ SlotsFit

LEMMA SamePairs ==
  /\ P!SlotsPointAtPairs <=> SlotsPointAtPairs
  /\ P!SlotsPointAtPairs' <=> SlotsPointAtPairs'
  /\ P!PairsPointAtSlots <=> PairsPointAtSlots
  /\ P!PairsPointAtSlots' <=> PairsPointAtSlots'
  /\ \A p : P!At(p) = At(p)
  /\ \A k, v : P!Pair(k, v) = Pair(k, v)
  /\ \A i : P!Holds(i) <=> HoldsValue(i)
  /\ \A g : P!Odd(g) <=> Odd(g)
  BY DEF P!SlotsPointAtPairs, SlotsPointAtPairs, P!PairsPointAtSlots, PairsPointAtSlots,
         P!At, At, P!Pair, Pair, P!Holds, HoldsValue, P!Odd, Odd

\* n slots are the first of m slots.
LEMMA Within ==
  ASSUME NEW n \in Nat, NEW m \in Nat, m >= n
  PROVE  /\ 0 .. n - 1 \subseteq 0 .. m - 1
         /\ \A j \in 0 .. m - 1 : j \notin 0 .. n - 1 <=> j \in n .. m - 1
         /\ \A j \in 0 .. m - 1 : j \in 0 .. n - 1 <=> j < n
         /\ \A j \in n .. m - 1 : j \in 0 .. m - 1 /\ ~(j < n)
  OBVIOUS

\* How many slots there are after put(i, s).
LEMMA PutLen ==
  ASSUME NEW n \in Nat, NEW i \in Nat, NEW m, m = IF i < n THEN n ELSE i + 1,
         NEW max \in Nat, i <= max, n <= max + 1
  PROVE  m \in Nat /\ m <= max + 1 /\ m >= n /\ i < m /\ i \in 0 .. m - 1
  OBVIOUS

LEMMA KeyParts ==
  ASSUME SecondaryAssumption, NEW k \in Keys
  PROVE  /\ k = Key(k.idx, k.gen) /\ k.idx \in 0 .. MaxIdx /\ k.idx \in Nat
         /\ k.gen \in OddGens /\ k.gen \in Nat /\ Odd(k.gen)
         /\ ~Odd(0) /\ Slot(0, 0) = EmptySlot
  BY DEF SecondaryAssumption, Keys, OddGens, Odd, Key, EmptySlot

\* What is known of a slot.
LEMMA SlotFacts ==
  ASSUME SecondaryAssumption, DataInv
  PROVE  /\ slots_len \in 0 .. MaxIdx + 1 /\ Len(pairs) \in 0 .. slots_len
         /\ slots \in [Positions -> [gen : Nat, item : Nat]]
         /\ \A i \in Positions : HoldsValue(i) =>
              /\ slots[i].item \in 0 .. Len(pairs) - 1
              /\ At(slots[i].item).key = Key(i, slots[i].gen)
              /\ Key(i, slots[i].gen) \in Keys /\ slots[i].gen \in OddGens
  <1>1. /\ P!PairsOK /\ P!SlotsPointAtPairs /\ P!PairsPointAtSlots
        /\ slots_len <= MaxIdx + 1 /\ MaxIdx \in Nat
    BY SamePairs DEF DataInv, SlotsMatchPairs, SlotsFit, SecondaryAssumption
  <1>2. slots_len \in Nat /\ slots \in [Positions -> [gen : Nat, item : Nat]]
    BY <1>1 DEF P!PairsOK, P!SlotsOK, Positions
  <1>3. Len(pairs) \in 0 .. slots_len
    BY <1>1, <1>2, P!Types, P!PairsFit
  <1>4. ASSUME NEW i \in Positions, HoldsValue(i)
        PROVE  /\ slots[i].item \in 0 .. Len(pairs) - 1
               /\ At(slots[i].item).key = Key(i, slots[i].gen)
               /\ Key(i, slots[i].gen) \in Keys /\ slots[i].gen \in OddGens
    <2>1. i \in 0 .. slots_len - 1 /\ P!Holds(i)
      BY <1>4, SamePairs DEF Positions
    <2>2. /\ slots[i].item \in 0 .. Len(pairs) - 1
          /\ P!At(slots[i].item).key = [idx |-> i, gen |-> slots[i].gen]
      BY <1>1, <2>1, P!OnePairEach
    <2>3. P!At(slots[i].item).key \in Keys
      BY <1>1, <2>2, P!Types
    <2>4. Key(i, slots[i].gen) \in Keys
      BY <2>2, <2>3 DEF Key
    <2>5. QED
      BY <2>2, <2>4, SamePairs DEF Key, Keys
  <1>5. QED
    BY <1>1, <1>2, <1>3, <1>4

-----------------------------------------------------------------------------
(* What the caller sees of a step *)

\* All slots but i and the new ones keep their values, and new ones are empty.
Others(i) ==
  /\ slots_len' \in Nat /\ slots_len' >= slots_len /\ i \in Positions'
  /\ \A j \in Positions : j # i => P!Keeps(j)
  /\ \A j \in Positions' : j \notin Positions /\ j # i => slots'[j] = EmptySlot

LEMMA KeptSlot ==
  ASSUME SecondaryAssumption, DataInv, NEW i, Others(i)
  PROVE  /\ Positions \subseteq Positions'
         /\ \A j \in Positions' : j # i =>
              /\ HoldsValue(j)' <=> j \in Positions /\ HoldsValue(j)
              /\ j \in Positions /\ HoldsValue(j) => get_at(j)' = get_at(j)
              /\ ~Odd(slots'[j].gen) => slots'[j] = EmptySlot
  <1>1. slots_len \in Nat
    BY SlotFacts
  <1>2. Positions \subseteq Positions'
    <2>1. slots_len' \in Nat /\ slots_len' >= slots_len
      BY DEF Others
    <2>2. QED
      BY <1>1, <2>1, Within DEF Positions
  <1>3. ASSUME NEW j \in Positions', j # i
        PROVE  /\ HoldsValue(j)' <=> j \in Positions /\ HoldsValue(j)
               /\ j \in Positions /\ HoldsValue(j) => get_at(j)' = get_at(j)
               /\ ~Odd(slots'[j].gen) => slots'[j] = EmptySlot
    <2>1. CASE j \in Positions
      <3>1. /\ slots'[j].gen = slots[j].gen
            /\ IF HoldsValue(j) THEN pairs'[slots'[j].item + 1] = At(slots[j].item)
               ELSE slots'[j] = slots[j]
        BY <1>3, <2>1, SamePairs DEF Others, P!Keeps
      <3>2. ~HoldsValue(j) => slots[j] = EmptySlot
        BY <2>1 DEF DataInv, SlotsFit
      <3>3. QED
        BY <2>1, <3>1, <3>2 DEF HoldsValue, get_at, At
    <2>2. CASE j \notin Positions
      <3>1. slots'[j] = EmptySlot /\ ~Odd(0)
        BY <1>3, <2>2 DEF Others, Odd
      <3>2. QED
        BY <2>2, <3>1 DEF HoldsValue, EmptySlot, Slot
    <2>3. QED
      BY <2>1, <2>2
  <1>4. QED
    BY <1>2, <1>3

\* Slot i holds a value under generation g.
LEMMA StoredSeen ==
  ASSUME SecondaryAssumption, DataInv, NEW k \in Keys, NEW v, Others(k.idx),
         slots'[k.idx].gen = k.gen, pairs'[slots'[k.idx].item + 1] = Pair(k, v)
  PROVE  Attached' = Stored(k, v) /\ \A j \in Positions' : ~Odd(slots'[j].gen) => slots'[j] = EmptySlot
  <1> DEFINE i == k.idx
  <1>1. i \in Positions' /\ Odd(k.gen)
    BY KeyParts DEF Others
  <1>2. HoldsValue(i)' /\ get_at(i)' = Sparse!SparseSlot(k.gen, v)
    BY <1>1 DEF HoldsValue, get_at, Sparse!SparseSlot, At, Pair
  <1>3. {j \in Positions : HoldsValue(j)}' = {j \in Positions : HoldsValue(j)} \union {i}
    BY <1>1, <1>2, KeptSlot
  <1>4. \A j \in {j \in Positions : HoldsValue(j)}' :
           get_at(j)' = IF j = i THEN Sparse!SparseSlot(k.gen, v) ELSE Attached[j]
    BY <1>2, KeptSlot DEF Attached
  <1>5. Attached' = Stored(k, v)
    BY <1>3, <1>4 DEF Attached, Stored
  <1>6. QED
    BY <1>1, <1>5, KeptSlot

\* Slot i is empty.
LEMMA EmptySeen ==
  ASSUME SecondaryAssumption, DataInv, NEW i, Others(i), slots'[i] = EmptySlot
  PROVE  Attached' = Without(i) /\ \A j \in Positions' : ~Odd(slots'[j].gen) => slots'[j] = EmptySlot
  <1>1. ~HoldsValue(i)' /\ i \in Positions'
    BY DEF HoldsValue, EmptySlot, Slot, Odd, Others
  <1>2. {j \in Positions : HoldsValue(j)}' = {j \in Positions : HoldsValue(j)} \ {i}
    BY <1>1, KeptSlot
  <1>3. \A j \in {j \in Positions : HoldsValue(j)}' : get_at(j)' = Attached[j]
    BY <1>1, <1>2, KeptSlot DEF Attached
  <1>4. Attached' = Without(i)
    BY <1>2, <1>3 DEF Attached, Without
  <1>5. QED
    BY <1>4, KeptSlot

-----------------------------------------------------------------------------
(* The ways in which a step changes the slots and the pairs *)

\* What a step leaves of the slots and the pairs, and what the caller sees.
Leaves(seen) == DataInv' /\ Attached' = seen

LEMMA Settled ==
  ASSUME SecondaryAssumption, slots_len' \in Nat, slots_len' <= MaxIdx + 1,
         slots' \in [Positions' -> [gen : Nat, item : Nat]],
         pairs' \in Seq(P!AnyPair), P!PairsOK,
         SlotsPointAtPairs', PairsPointAtSlots',
         \A j \in Positions' : ~Odd(slots'[j].gen) => slots'[j] = EmptySlot
  PROVE  DataInv'
  BY DEF DataInv, P!PairsOK, P!SlotsOK, SlotsMatchPairs, SlotsFit, Positions, HoldsValue,
         P!AnyPair

\* insert replaces a value and its key, or a value is written.
LEMMA OverwriteEffect ==
  ASSUME SecondaryAssumption, DataInv, NEW k \in Keys, NEW v \in Values,
         k.idx \in Positions, HoldsValue(k.idx), slots_len' = slots_len,
         slots' = [slots EXCEPT ![k.idx] = Slot(k.gen, slots[k.idx].item)],
         overwrite(slots[k.idx].item, k, v)
  PROVE  /\ Leaves(Stored(k, v)) /\ Len(pairs') = Len(pairs)
         /\ pairs'[slots[k.idx].item + 1].key = k
         /\ \A q \in 0 .. Len(pairs) - 1 : q # slots[k.idx].item => pairs'[q + 1] = At(q)
  <1> DEFINE i == k.idx
             g == k.gen
             p == slots[k.idx].item
  <1>1. /\ P!PairsOK /\ P!SlotsPointAtPairs /\ P!PairsPointAtSlots
        /\ slots_len <= MaxIdx + 1 /\ slots_len \in Nat
        /\ slots \in [Positions -> [gen : Nat, item : Nat]]
    BY SamePairs, SlotFacts DEF DataInv, SlotsMatchPairs, SlotsFit
  <1>2. k = [idx |-> i, gen |-> g] /\ g \in Nat /\ Odd(g)
    BY KeyParts DEF Key
  <1>3. p \in 0 .. Len(pairs) - 1
    BY SlotFacts
  <1>4. /\ slots' \in [Positions -> [gen : Nat, item : Nat]]
        /\ slots'[i] = [gen |-> g, item |-> p]
        /\ \A j \in Positions : j # i => slots'[j] = slots[j]
    BY <1>1, <1>2, <1>3 DEF Slot
  <1>5. P!Overwrites(i, g, v)
    <2>1. P!Holds(i) /\ P!Odd(g) /\ i \in 0 .. slots_len - 1
      BY <1>2, SamePairs DEF Positions
    <2>2. pairs' = [pairs EXCEPT ![slots[i].item + 1] = P!Pair([idx |-> i, gen |-> g], v)]
      BY <1>2, SamePairs DEF overwrite
    <2>3. \A j \in 0 .. slots_len - 1 : j # i => slots'[j] = slots[j]
      BY <1>4 DEF Positions
    <2> HIDE DEF i, g
    <2>4. QED
      BY <1>2, <1>4, <2>1, <2>2, <2>3 DEF P!Overwrites, p, i
  <1>6. /\ P!SlotsPointAtPairs' /\ P!PairsPointAtSlots'
        /\ slots'[i].gen = g /\ pairs'[slots'[i].item + 1] = P!Pair([idx |-> i, gen |-> g], v)
        /\ \A j \in 0 .. slots_len - 1 : j # i => P!Keeps(j)
        /\ pairs' \in Seq(P!AnyPair) /\ Len(pairs') = Len(pairs)
        /\ \A q \in 0 .. Len(pairs) - 1 : q # slots[i].item => pairs'[q + 1] = P!At(q)
    <2> HIDE DEF i, g, p
    <2>1. QED
      BY <1>1, <1>5, P!OverwritesKeeps
  <1>7. pairs'[slots'[i].item + 1] = Pair(k, v) /\ slots'[i].item = p
    BY <1>2, <1>4, <1>6, SamePairs
  <1>8. Others(i) /\ Positions' = Positions
    BY <1>1, <1>6 DEF Others, Positions
  <1>9. /\ Attached' = Stored(k, v)
        /\ \A j \in Positions' : ~Odd(slots'[j].gen) => slots'[j] = EmptySlot
    BY <1>6, <1>7, <1>8, StoredSeen
  <1>10. DataInv'
    BY <1>1, <1>4, <1>6, <1>8, <1>9, SamePairs, Settled
  <1>11. QED
    BY <1>6, <1>7, <1>9, <1>10, SamePairs DEF Leaves, Pair

\* The pair of a value that a step adds.
LEMMA AddedPair ==
  ASSUME P!PairsOK, P!SlotsPointAtPairs, P!PairsPointAtSlots, NEW i, NEW g, NEW v,
         P!Appends(i, g, v)
  PROVE  pairs'[slots'[i].item + 1] = P!Pair([idx |-> i, gen |-> g], v)
  BY P!AppendsKeeps

\* insert stores a value where none is.
LEMMA InsertEffect ==
  ASSUME SecondaryAssumption, DataInv, NEW k \in Keys, NEW v \in Values,
         ~(k.idx \in Positions /\ HoldsValue(k.idx)),
         put(k.idx, Slot(k.gen, Len(pairs))), pairs' = Append(pairs, Pair(k, v))
  PROVE  Leaves(Stored(k, v)) /\ Len(pairs') = Len(pairs) + 1
  <1> DEFINE i == k.idx
             g == k.gen
  <1>1. /\ P!PairsOK /\ P!SlotsPointAtPairs /\ P!PairsPointAtSlots
        /\ slots_len <= MaxIdx + 1 /\ slots_len \in Nat /\ MaxIdx \in Nat /\ Len(pairs) \in Nat
        /\ slots \in [Positions -> [gen : Nat, item : Nat]]
    BY SamePairs, SlotFacts DEF DataInv, SlotsMatchPairs, SlotsFit, SecondaryAssumption
  <1>2. /\ k = [idx |-> i, gen |-> g] /\ g \in Nat /\ Odd(g)
        /\ i \in Nat /\ i <= MaxIdx
    BY KeyParts DEF Key
  <1>3. /\ slots_len' \in Nat /\ slots_len' <= MaxIdx + 1 /\ slots_len' >= slots_len
        /\ i < slots_len' /\ i \in 0 .. slots_len' - 1
    <2>1. slots_len' = IF i < slots_len THEN slots_len ELSE i + 1
      BY DEF put
    <2> HIDE DEF i
    <2>2. QED
      BY <1>1, <1>2, <2>1, PutLen
  <1>4. slots' = [j \in 0 .. slots_len' - 1 |->
                    IF j = i THEN [gen |-> g, item |-> Len(pairs)]
                    ELSE IF j < slots_len THEN slots[j] ELSE EmptySlot]
    BY DEF put, Slot
  <1>5. /\ slots'[i] = [gen |-> g, item |-> Len(pairs)]
        /\ \A j \in 0 .. slots_len - 1 : j # i => slots'[j] = slots[j]
        /\ \A j \in slots_len .. slots_len' - 1 : j # i => slots'[j] = EmptySlot
    <2> HIDE DEF i, g
    <2>1. i \in 0 .. slots_len' - 1
      BY <1>3
    <2>2. ASSUME NEW j \in 0 .. slots_len - 1, j # i PROVE slots'[j] = slots[j]
      <3>1. j \in 0 .. slots_len' - 1 /\ j < slots_len
        BY <1>1, <1>3, Within
      <3>2. QED
        BY <1>4, <2>2, <3>1
    <2>3. ASSUME NEW j \in slots_len .. slots_len' - 1, j # i PROVE slots'[j] = EmptySlot
      <3>1. j \in 0 .. slots_len' - 1 /\ ~(j < slots_len)
        BY <1>1, <1>3, Within
      <3>2. QED
        BY <1>4, <2>3, <3>1
    <2>4. QED
      BY <1>4, <2>1, <2>2, <2>3
  <1>6. slots' \in [Positions' -> [gen : Nat, item : Nat]]
    <2>1. EmptySlot \in [gen : Nat, item : Nat]
      BY DEF EmptySlot, Slot
    <2>2. ASSUME NEW j \in 0 .. slots_len' - 1 PROVE slots'[j] \in [gen : Nat, item : Nat]
      <3>1. j \in slots_len .. slots_len' - 1 \/ j \in Positions
        BY <1>1, <1>3, Within DEF Positions
      <3>2. CASE j = i
        BY <1>1, <1>2, <1>5, <3>2
      <3>3. CASE j # i
        BY <1>1, <1>5, <2>1, <3>1, <3>3 DEF Positions
      <3>4. QED
        BY <3>2, <3>3
    <2>3. QED
      BY <1>4, <2>2 DEF Positions
  <1>7. P!Appends(i, g, v)
    <2>1. P!Odd(g) /\ (i < slots_len => ~P!Holds(i))
      BY <1>1, <1>2, SamePairs DEF Positions
    <2>2. pairs' = Append(pairs, P!Pair([idx |-> i, gen |-> g], v))
      BY <1>2, SamePairs
    <2>3. \A j \in slots_len .. slots_len' - 1 : j # i => ~P!Odd(slots'[j].gen)
      BY <1>5, SamePairs, KeyParts DEF EmptySlot, Slot
    <2> HIDE DEF i, g
    <2>4. QED
      BY <1>2, <1>3, <1>5, <2>1, <2>2, <2>3 DEF P!Appends
  <1>8. /\ P!SlotsPointAtPairs' /\ P!PairsPointAtSlots'
        /\ slots'[i].gen = g /\ pairs'[slots'[i].item + 1] = P!Pair([idx |-> i, gen |-> g], v)
        /\ \A j \in 0 .. slots_len - 1 : j # i => P!Keeps(j)
        /\ pairs' \in Seq(P!AnyPair) /\ Len(pairs') = Len(pairs) + 1
    <2> HIDE DEF i, g
    <2>1. /\ P!SlotsPointAtPairs' /\ P!PairsPointAtSlots'
          /\ \A j \in 0 .. slots_len - 1 : j # i => P!Keeps(j)
          /\ pairs' \in Seq(P!AnyPair) /\ Len(pairs') = Len(pairs) + 1
      BY <1>1, <1>7, P!AppendsKeeps
    <2>2. slots'[i].gen = g
      BY <1>1, <1>7, P!AppendsKeeps
    <2>3. pairs'[slots'[i].item + 1] = P!Pair([idx |-> i, gen |-> g], v)
      BY <1>1, <1>7, AddedPair
    <2>4. QED
      BY <2>1, <2>2, <2>3
  <1>9. Others(i)
    <2>1. i \in Positions'
      BY <1>1, <1>2, <1>3 DEF Positions
    <2>2. \A j \in Positions' : j \notin Positions => j \in slots_len .. slots_len' - 1
      BY <1>1, <1>3, Within DEF Positions
    <2>3. \A j \in Positions : j # i => P!Keeps(j)
      BY <1>8 DEF Positions
    <2>4. QED
      BY <1>3, <1>5, <2>1, <2>2, <2>3 DEF Others
  <1>10. pairs'[slots'[i].item + 1] = Pair(k, v)
    BY <1>2, <1>8, SamePairs
  <1>11. /\ Attached' = Stored(k, v)
         /\ \A j \in Positions' : ~Odd(slots'[j].gen) => slots'[j] = EmptySlot
    BY <1>8, <1>9, <1>10, StoredSeen
  <1>12. DataInv'
    BY <1>1, <1>3, <1>6, <1>8, <1>11, SamePairs, Settled
  <1>13. QED
    BY <1>8, <1>11, <1>12 DEF Leaves

\* A value is taken out, and the last pair takes its place.
LEMMA SwapEffect ==
  ASSUME SecondaryAssumption, DataInv, NEW i \in Positions, HoldsValue(i),
         NEW p, p = slots[i].item, swap_remove(i, EmptySlot, p)
  PROVE  /\ Leaves(Without(i)) /\ Len(pairs') = Len(pairs) - 1
         /\ \A q \in 0 .. Len(pairs) - 2 :
              pairs'[q + 1] = IF q = p THEN At(Len(pairs) - 1) ELSE At(q)
  <1>1. /\ P!PairsOK /\ P!SlotsPointAtPairs /\ P!PairsPointAtSlots
        /\ slots_len <= MaxIdx + 1 /\ slots_len \in Nat
    BY SamePairs, SlotFacts DEF DataInv, SlotsMatchPairs, SlotsFit
  <1>2. P!SwapsOut(i, EmptySlot, p)
    <2>1. P!swap_remove(i, EmptySlot, p)
      BY DEF swap_remove, P!swap_remove, At, P!At
    <2>2. P!Holds(i) /\ EmptySlot \in [gen : Nat, item : Nat] /\ ~P!Odd(EmptySlot.gen)
      BY SamePairs DEF EmptySlot, Slot, Odd
    <2>3. QED
      BY <2>1, <2>2 DEF P!SwapsOut, Positions
  <1>3. /\ P!SlotsPointAtPairs' /\ P!PairsPointAtSlots'
        /\ slots'[i] = EmptySlot /\ slots_len' = slots_len
        /\ slots' \in [0 .. slots_len - 1 -> [gen : Nat, item : Nat]]
        /\ \A j \in 0 .. slots_len - 1 : j # i => P!Keeps(j)
        /\ pairs' \in Seq(P!AnyPair)
        /\ Len(pairs') = Len(pairs) - 1
        /\ \A q \in 0 .. Len(pairs) - 2 :
             pairs'[q + 1] = IF q = p THEN P!At(Len(pairs) - 1) ELSE P!At(q)
    BY <1>1, <1>2, P!SwapKeeps
  <1>4. Others(i) /\ slots' \in [Positions' -> [gen : Nat, item : Nat]]
    BY <1>1, <1>3 DEF Others, Positions
  <1>5. /\ Attached' = Without(i)
        /\ \A j \in Positions' : ~Odd(slots'[j].gen) => slots'[j] = EmptySlot
    BY <1>3, <1>4, EmptySeen
  <1>6. DataInv'
    BY <1>1, <1>3, <1>4, <1>5, SamePairs, Settled
  <1>7. QED
    BY <1>3, <1>5, <1>6, SamePairs DEF Leaves

-----------------------------------------------------------------------------
(* The steps, as those of a SparseSecondaryMap *)

LEMMA SparseSteps ==
  ASSUME SecondaryAssumption, NEW k \in Keys
  PROVE  /\ Sparse!Keys = Keys /\ k.idx \in Nat
         /\ Sparse!contains_key(k) <=> contains_key(k)
         /\ contains_key(k) => k.idx \in Positions /\ HoldsValue(k.idx)
         /\ contains_key(k) /\ Attached' = Without(k.idx) /\ asked' = k => Sparse!Remove(k)
         /\ \A v : /\ Attached' = Stored(k, v) /\ asked' = k => Sparse!Store(k, v)
                   /\ Accepts(k) /\ Attached' = Stored(k, v) /\ asked' = k => Sparse!Insert(k, v)
                   /\ contains_key(k) /\ Attached' = Stored(k, v) /\ asked' = k
                        => Sparse!Write(k, v)
  <1>1. Sparse!Keys = Keys
    BY DEF Sparse!Keys, Keys, OddGens, Odd
  <1>2. k.idx \in DOMAIN Attached <=> k.idx \in Positions /\ HoldsValue(k.idx)
    BY DEF Attached
  <1>3. k.idx \in DOMAIN Attached => Attached[k.idx].generation = slots[k.idx].gen
    BY DEF Attached, get_at
  <1>4. contains_key(k) => k.idx \in Positions /\ HoldsValue(k.idx)
    BY KeyParts DEF contains_key, HoldsValue
  <1>5. Sparse!contains_key(k) <=> contains_key(k)
    <2>1. Sparse!contains_key(k)
            <=> k.idx \in DOMAIN Attached /\ Attached[k.idx].generation = k.gen
      BY DEF Sparse!contains_key, Attached
    <2>2. QED
      BY <1>2, <1>3, <1>4, <2>1 DEF contains_key
  <1>6. ASSUME NEW v, Attached' = Stored(k, v), asked' = k PROVE Sparse!Store(k, v)
    BY <1>6 DEF Sparse!Store, Attached, Stored
  <1>7. ASSUME NEW v, Accepts(k), Attached' = Stored(k, v), asked' = k
        PROVE  Sparse!Insert(k, v)
    <2>1. k.idx \in DOMAIN Attached =>
            LET current == Attached[k.idx].generation
            IN  current = k.gen \/ <<current, k.gen>> \in Strategy
      BY <1>2, <1>3, <1>7 DEF Accepts
    <2>2. Sparse!Store(k, v)
      BY <1>6, <1>7
    <2>3. QED
      BY <2>1, <2>2 DEF Sparse!Insert, Attached
  <1>8. ASSUME contains_key(k), Attached' = Without(k.idx), asked' = k PROVE Sparse!Remove(k)
    <2>1. Sparse!contains_key(k)
      BY <1>5, <1>8
    <2>2. QED
      BY <1>8, <2>1 DEF Sparse!Remove, Attached, Without
  <1>9. k.idx \in Nat
    BY KeyParts
  <1>10. QED
    BY <1>1, <1>4, <1>5, <1>6, <1>7, <1>8, <1>9 DEF Sparse!Write

\* The key of every pair has the value of the pair.
LEMMA PairKey ==
  ASSUME SecondaryAssumption, DataInv, NEW p \in 0 .. Len(pairs) - 1
  PROVE  /\ At(p).key \in Keys /\ contains_key(At(p).key)
         /\ At(p).key.idx \in Positions /\ HoldsValue(At(p).key.idx)
         /\ slots[At(p).key.idx].item = p /\ slots[At(p).key.idx].gen = At(p).key.gen
         /\ At(p).key = Key(At(p).key.idx, At(p).key.gen)
  <1> DEFINE k == At(p).key
  <1>1. P!PairsOK /\ P!PairsPointAtSlots
    BY SamePairs DEF DataInv, SlotsMatchPairs
  <1>2. /\ P!At(p).key.idx \in 0 .. slots_len - 1 /\ P!Holds(P!At(p).key.idx)
        /\ slots[P!At(p).key.idx].item = p
        /\ slots[P!At(p).key.idx].gen = P!At(p).key.gen
    BY <1>1, P!OneKeyEach
  <1>3. /\ P!At(p).key \in Keys
        /\ P!At(p).key = [idx |-> P!At(p).key.idx, gen |-> P!At(p).key.gen]
    BY <1>1, P!Types
  <1>4. P!At(p) = At(p)
    BY SamePairs
  <1>5. /\ k \in Keys /\ k.idx \in 0 .. slots_len - 1 /\ HoldsValue(k.idx)
        /\ slots[k.idx].item = p /\ slots[k.idx].gen = k.gen
        /\ k = [idx |-> k.idx, gen |-> k.gen]
    BY <1>2, <1>3, <1>4, SamePairs
  <1> HIDE DEF k
  <1>6. k.idx \in Positions /\ contains_key(k) /\ k = Key(k.idx, k.gen)
    BY <1>5 DEF Positions, contains_key, Key
  <1>7. QED
    BY <1>5, <1>6 DEF k

LEMMA ReplaceMaps ==
  ASSUME SecondaryAssumption, DataInv, NEW k \in Keys, NEW v \in Values, Replace(k, v)
  PROVE  Sparse!Insert(k, v) /\ DataInv' /\ Len(pairs') = Len(pairs)
  <1>1. Leaves(Stored(k, v)) /\ Len(pairs') = Len(pairs)
    BY OverwriteEffect DEF Replace
  <1>2. QED
    BY <1>1, SparseSteps DEF Replace, Leaves

LEMMA InsertMaps ==
  ASSUME SecondaryAssumption, DataInv, NEW k \in Keys, NEW v \in Values, Insert(k, v)
  PROVE  Sparse!Insert(k, v) /\ DataInv' /\ Len(pairs') = Len(pairs) + 1
  <1>1. Leaves(Stored(k, v)) /\ Len(pairs') = Len(pairs) + 1
    BY InsertEffect DEF Insert
  <1>2. Accepts(k)
    BY DEF Insert, Accepts
  <1>3. QED
    BY <1>1, <1>2, SparseSteps DEF Insert, Leaves

LEMMA RemoveMaps ==
  ASSUME SecondaryAssumption, DataInv, NEW k \in Keys, contains_key(k), asked' = k,
         NEW p, p = slots[k.idx].item, swap_remove(k.idx, EmptySlot, p)
  PROVE  /\ Sparse!Remove(k) /\ DataInv' /\ Len(pairs') = Len(pairs) - 1
         /\ \A q \in 0 .. Len(pairs) - 2 :
              pairs'[q + 1] = IF q = p THEN At(Len(pairs) - 1) ELSE At(q)
  <1> DEFINE i == k.idx
  <1>1. i \in Positions /\ HoldsValue(i)
    BY SparseSteps
  <1>2. p = slots[i].item /\ swap_remove(i, EmptySlot, p)
    OBVIOUS
  <1> HIDE DEF i
  <1>3. /\ Leaves(Without(i)) /\ Len(pairs') = Len(pairs) - 1
        /\ \A q \in 0 .. Len(pairs) - 2 :
              pairs'[q + 1] = IF q = p THEN At(Len(pairs) - 1) ELSE At(q)
    BY <1>1, <1>2, SwapEffect
  <1>4. QED
    BY <1>3, SparseSteps DEF Leaves, i

\* The caller writes the value of k, or f does while retain runs.
LEMMA WriteMaps ==
  ASSUME SecondaryAssumption, DataInv, NEW k \in Keys, contains_key(k), asked' = k,
         NEW v \in Values, NEW p, p = slots[k.idx].item,
         UNCHANGED <<slots, slots_len>>, overwrite(p, k, v)
  PROVE  /\ Sparse!Write(k, v) /\ DataInv' /\ Len(pairs') = Len(pairs)
         /\ \A q \in 0 .. Len(pairs) - 1 : pairs'[q + 1].key = At(q).key
  <1>1. k.idx \in Positions /\ HoldsValue(k.idx) /\ slots[k.idx].gen = k.gen
    BY SparseSteps DEF contains_key
  <1>2. slots' = [slots EXCEPT ![k.idx] = Slot(k.gen, slots[k.idx].item)]
    BY <1>1, SlotFacts DEF Slot
  <1>3. /\ Leaves(Stored(k, v)) /\ Len(pairs') = Len(pairs)
        /\ pairs'[slots[k.idx].item + 1].key = k
        /\ \A q \in 0 .. Len(pairs) - 1 : q # slots[k.idx].item => pairs'[q + 1] = At(q)
    BY <1>1, <1>2, OverwriteEffect
  <1>4. At(slots[k.idx].item).key = k
    BY <1>1, SlotFacts, KeyParts
  <1>5. Sparse!Write(k, v)
    BY <1>3, SparseSteps DEF Leaves
  <1>6. QED
    BY <1>3, <1>4, <1>5 DEF Leaves

LEMMA DrainMaps ==
  ASSUME SecondaryAssumption, DataInv, DrainNext
  PROVE  /\ \E k \in Keys : Sparse!Remove(k)
         /\ DataInv' /\ Len(pairs') = Len(pairs) - 1
  <1> DEFINE last == Len(pairs) - 1
             k == At(last).key
             i == k.idx
  <1>1. pairs # <<>> /\ Len(pairs) \in Nat /\ pairs \in Seq(P!AnyPair)
    BY SlotFacts DEF DrainNext, DataInv, P!PairsOK
  <1>2. last \in 0 .. Len(pairs) - 1
    BY <1>1
  <1>3. k \in Keys /\ contains_key(k) /\ i \in Positions /\ HoldsValue(i) /\ slots[i].item = last
    BY <1>2, PairKey
  <1>4. /\ slots' = [slots EXCEPT ![i] = EmptySlot] /\ slots_len' = slots_len
        /\ pairs' = SubSeq(pairs, 1, last) /\ asked' = k
    BY DEF DrainNext
  <1> HIDE DEF last, k, i
  <1>5. P!swap_remove(i, EmptySlot, last)
    <2>1. P!PairsOK /\ P!SlotsPointAtPairs
      BY SamePairs DEF DataInv, SlotsMatchPairs
    <2>2. i \in 0 .. slots_len - 1 /\ P!Holds(i)
      BY <1>3, SamePairs DEF Positions
    <2>3. slots[i].item = Len(pairs) - 1 /\ pairs' = SubSeq(pairs, 1, Len(pairs) - 1)
      BY <1>3, <1>4 DEF last
    <2>4. P!swap_remove(i, EmptySlot, Len(pairs) - 1)
      BY <1>4, <2>1, <2>2, <2>3, P!LastIsSwap
    <2>5. QED
      BY <2>4 DEF last
  <1>6. swap_remove(i, EmptySlot, last)
    BY <1>5 DEF swap_remove, P!swap_remove, At, P!At
  <1>7. Sparse!Remove(k) /\ DataInv' /\ Len(pairs') = Len(pairs) - 1
    BY <1>3, <1>4, <1>6, RemoveMaps DEF i
  <1>8. QED
    BY <1>3, <1>7

\* All slots are emptied, and the pairs go.
LEMMA ClearMaps ==
  ASSUME SecondaryAssumption, DataInv, Clear
  PROVE  Sparse!Clear /\ DataInv' /\ pairs' = <<>>
  <1>1. /\ slots' = [i \in Positions |-> EmptySlot] /\ pairs' = <<>> /\ slots_len' = slots_len
        /\ asked' = asked
    BY DEF Clear, room
  <1>2. slots_len \in Nat /\ slots_len <= MaxIdx + 1 /\ P!PairsOK
    BY SlotFacts DEF DataInv, SlotsFit
  <1>3. Positions' = Positions /\ \A i \in Positions : slots'[i] = EmptySlot
    BY <1>1 DEF Positions
  <1>4. EmptySlot \in [gen : Nat, item : Nat] /\ ~Odd(EmptySlot.gen)
    BY DEF EmptySlot, Slot, Odd
  <1>5. slots' \in [Positions' -> [gen : Nat, item : Nat]]
    BY <1>1, <1>3, <1>4
  <1>6. SlotsPointAtPairs'
    BY <1>1, <1>3, <1>4 DEF SlotsPointAtPairs, Positions, Odd
  <1>7. PairsPointAtSlots'
    BY <1>1 DEF PairsPointAtSlots
  <1>8. DataInv'
    BY <1>1, <1>2, <1>3, <1>5, <1>6, <1>7, Settled
  <1>9. Attached' = [i \in {} |-> 0]
    <2>1. {j \in Positions : HoldsValue(j)}' = {}
      BY <1>3, <1>4 DEF HoldsValue
    <2>2. QED
      BY <2>1 DEF Attached
  <1>10. Sparse!Clear
    BY <1>1, <1>9 DEF Sparse!Clear, Attached
  <1>11. QED
    BY <1>1, <1>8, <1>10

\* A step that changes neither the slots nor the pairs.
LEMMA QuietMaps ==
  ASSUME DataInv, UNCHANGED <<slots, slots_len, pairs, asked>>
  PROVE  UNCHANGED Sparse!vars /\ DataInv'
  <1>1. DataInv'
    BY DEF DataInv, P!PairsOK, P!SlotsOK, SlotsMatchPairs, SlotsPointAtPairs,
           PairsPointAtSlots, At, SlotsFit, Positions, HoldsValue
  <1>2. {j \in Positions : HoldsValue(j)}' = {j \in Positions : HoldsValue(j)}
    BY DEF Positions, HoldsValue
  <1>3. Attached' = Attached
    <2>1. \A i : get_at(i)' = get_at(i)
      BY DEF get_at, At
    <2>2. QED
      BY <1>2, <2>1 DEF Attached
  <1>4. QED
    BY <1>1, <1>3 DEF Sparse!vars, Attached

-----------------------------------------------------------------------------
(* The loops and the room *)

LoopInv ==
  /\ mode \in {"idle", "retain", "drain"}
  /\ position \in Nat
  /\ mode = "retain" => position <= Len(pairs)
  /\ mode # "retain" => position = 0 /\ visited = {}
  /\ visited \subseteq Keys
  /\ RetainSeesEachOnce

RoomInv ==
  /\ capacity \in slots_len .. StorageMax
  /\ pairs_capacity \in Len(pairs) .. PairsMax
  /\ asked \in Keys \union {NoKey}

\* No method that has a position is in progress.
LEMMA Calm ==
  ASSUME mode' \in {"idle", "drain"}, position' = 0, visited' = {}
  PROVE  LoopInv'
  BY DEF LoopInv, RetainSeesEachOnce

\* What retain has seen after a step in which f saw the value at the position.
LEMMA SeenOnce ==
  ASSUME SecondaryAssumption, DataInv, LoopInv, mode = "retain", mode' = "retain",
         position \in 0 .. Len(pairs) - 1, visited' = visited \union {At(position).key},
         \/ /\ position' = position + 1 /\ Len(pairs') = Len(pairs)
            /\ \A q \in 0 .. Len(pairs) - 1 : pairs'[q + 1].key = At(q).key
         \/ /\ position' = position /\ Len(pairs') = Len(pairs) - 1
            /\ \A q \in 0 .. Len(pairs) - 2 :
                 pairs'[q + 1] = IF q = position THEN At(Len(pairs) - 1) ELSE At(q)
  PROVE  LoopInv'
  <1> DEFINE key(p) == At(p).key
             last == Len(pairs) - 1
  <1>1. /\ visited \subseteq Keys
        /\ \A p \in 0 .. last : key(p) \in visited <=> p < position
    BY DEF LoopInv, RetainSeesEachOnce
  <1>2. \A p, q \in 0 .. last : key(p) = key(q) => p = q
    <2>1. P!PairsOK /\ P!PairsPointAtSlots
      BY SamePairs DEF DataInv, SlotsMatchPairs
    <2>2. \A p, q \in 0 .. Len(pairs) - 1 : P!At(p).key.idx = P!At(q).key.idx => p = q
      BY <2>1, P!OneKeyEach
    <2>3. QED
      BY <2>2, SamePairs
  <1>3. key(position) \in Keys
    BY PairKey
  <1>4. Len(pairs) \in Nat
    BY SlotFacts
  <1>5. /\ position' \in Nat /\ position' <= Len(pairs')
        /\ \A p \in 0 .. Len(pairs') - 1 : pairs'[p + 1].key \in visited' <=> p < position'
    <2>1. CASE /\ position' = position + 1 /\ Len(pairs') = Len(pairs)
               /\ \A q \in 0 .. Len(pairs) - 1 : pairs'[q + 1].key = At(q).key
      <3>1. ASSUME NEW p \in 0 .. Len(pairs') - 1
            PROVE  pairs'[p + 1].key \in visited' <=> p < position'
        <4>1. p \in 0 .. last /\ pairs'[p + 1].key = key(p)
          BY <2>1
        <4> HIDE DEF key, last
        <4>2. key(p) \in visited' <=> p < position \/ p = position
          BY <1>1, <1>2, <4>1 DEF key, last
        <4>3. QED
          BY <1>4, <2>1, <4>1, <4>2 DEF last
      <3>2. QED
        BY <1>4, <2>1, <3>1
    <2>2. CASE /\ position' = position /\ Len(pairs') = Len(pairs) - 1
               /\ \A q \in 0 .. Len(pairs) - 2 :
                    pairs'[q + 1] = IF q = position THEN At(Len(pairs) - 1) ELSE At(q)
      <3>1. ASSUME NEW p \in 0 .. Len(pairs') - 1
            PROVE  pairs'[p + 1].key \in visited' <=> p < position'
        <4> DEFINE q == IF p = position THEN last ELSE p
        <4>1. p \in 0 .. last - 1 /\ q \in 0 .. last /\ q # position /\ (q < position <=> p < position)
          BY <1>4, <2>2
        <4>2. pairs'[p + 1].key = key(q)
          BY <1>4, <2>2, <4>1
        <4> HIDE DEF key, last, q
        <4>3. key(q) \in visited' <=> q < position
          BY <1>1, <1>2, <4>1 DEF key, last
        <4>4. QED
          BY <2>2, <4>1, <4>2, <4>3
      <3>2. QED
        BY <1>4, <2>2, <3>1
    <2>3. QED
      BY <2>1, <2>2
  <1>6. visited' \subseteq Keys
    BY <1>1, <1>3
  <1>7. RetainSeesEachOnce'
    BY <1>5 DEF RetainSeesEachOnce, At
  <1>8. QED
    BY <1>5, <1>6, <1>7 DEF LoopInv

\* What f sees and leaves in a step of retain.
LEMMA RetainKeepMaps ==
  ASSUME SecondaryAssumption, DataInv, LoopInv, NEW v \in Values, RetainKeep(v)
  PROVE  /\ \E k \in Keys : Sparse!Write(k, v)
         /\ DataInv' /\ LoopInv' /\ Len(pairs') = Len(pairs)
  <1> DEFINE k == At(position).key
  <1>1. /\ mode = "retain" /\ mode' = "retain" /\ position \in Nat /\ position < Len(pairs)
        /\ UNCHANGED <<slots, slots_len>> /\ overwrite(position, k, v)
        /\ asked' = k /\ position' = position + 1 /\ visited' = visited \union {k}
    BY DEF RetainKeep, LoopInv
  <1>2. position \in 0 .. Len(pairs) - 1
    BY <1>1, SlotFacts
  <1>3. k \in Keys /\ contains_key(k) /\ position = slots[k.idx].item
    BY <1>2, PairKey
  <1>4. /\ Sparse!Write(k, v) /\ DataInv' /\ Len(pairs') = Len(pairs)
        /\ \A q \in 0 .. Len(pairs) - 1 : pairs'[q + 1].key = At(q).key
    <2> HIDE DEF k
    <2>1. QED
      BY <1>1, <1>3, WriteMaps
  <1>5. LoopInv'
    BY <1>1, <1>2, <1>4, SeenOnce
  <1>6. QED
    BY <1>3, <1>4, <1>5

LEMMA RetainDropMaps ==
  ASSUME SecondaryAssumption, DataInv, LoopInv, RetainDrop
  PROVE  /\ \E k \in Keys : Sparse!Remove(k)
         /\ DataInv' /\ LoopInv' /\ Len(pairs') = Len(pairs) - 1
  <1> DEFINE k == At(position).key
  <1>1. /\ mode = "retain" /\ mode' = "retain" /\ position \in Nat /\ position < Len(pairs)
        /\ swap_remove(k.idx, EmptySlot, position)
        /\ asked' = k /\ position' = position /\ visited' = visited \union {k}
    BY DEF RetainDrop, LoopInv
  <1>2. position \in 0 .. Len(pairs) - 1
    BY <1>1, SlotFacts
  <1>3. k \in Keys /\ contains_key(k) /\ position = slots[k.idx].item
    BY <1>2, PairKey
  <1>4. /\ Sparse!Remove(k) /\ DataInv' /\ Len(pairs') = Len(pairs) - 1
        /\ \A q \in 0 .. Len(pairs) - 2 :
             pairs'[q + 1] = IF q = position THEN At(Len(pairs) - 1) ELSE At(q)
    <2> HIDE DEF k
    <2>1. QED
      BY <1>1, <1>3, RemoveMaps
  <1>5. LoopInv'
    BY <1>1, <1>2, <1>4, SeenOnce
  <1>6. QED
    BY <1>3, <1>4, <1>5

\* Room for the pair and the slot of an insert.
LEMMA PutRoom ==
  ASSUME SecondaryAssumption, NEW n \in Nat, NEW i \in Nat, n = slots_len,
         capacity \in n .. StorageMax, NEW s, put(i, s)
  PROVE  capacity' \in slots_len' .. StorageMax
  <1>1. CASE i < n
    BY <1>1 DEF put
  <1>2. CASE ~(i < n)
    <2>1. slots_len' = i + 1 /\ ensure_room(i - n + 1)
      BY <1>2 DEF put
    <2>2. capacity' \in i + 1 .. StorageMax
      BY <1>2, <2>1 DEF ensure_room, SecondaryAssumption
    <2>3. QED
      BY <2>1, <2>2
  <1>3. QED
    BY <1>1, <1>2

LEMMA PairsRoom ==
  ASSUME NEW n \in Nat, NEW m \in Nat, m = Len(pairs), pairs_capacity \in m .. PairsMax,
         pairs_ensure_room(n)
  PROVE  pairs_capacity' \in m + n .. PairsMax
  BY DenseAssumption DEF pairs_ensure_room

LEMMA SlotsRoom ==
  ASSUME SecondaryAssumption, NEW n \in Nat, slots_len \in Nat,
         capacity \in slots_len .. StorageMax, ensure_room(n)
  PROVE  capacity' \in slots_len .. StorageMax
  BY DEF ensure_room, SecondaryAssumption

\* The pairs that are left fit where there was room for more.
LEMMA StillFits ==
  ASSUME NEW n \in Nat, NEW m \in Nat, m <= n, NEW c \in n .. PairsMax
  PROVE  c \in m .. PairsMax
  BY DenseAssumption


-----------------------------------------------------------------------------
(* The inductive invariant *)

DenseInv == DataInv /\ LoopInv /\ RoomInv

\* A step keeps the invariant, and is one of a SparseSecondaryMap or a stutter.
Sound == DenseInv' /\ (Sparse!Next \/ UNCHANGED Sparse!vars)

\* What holds of the rest of the state while no method is in progress.
LEMMA IdleStep ==
  ASSUME LoopInv, mode = "idle", UNCHANGED call
  PROVE  LoopInv'
  BY Calm DEF LoopInv, call

LEMMA RoomTypes ==
  ASSUME SecondaryAssumption, DataInv, RoomInv
  PROVE  /\ slots_len \in Nat /\ Len(pairs) \in Nat
         /\ capacity \in slots_len .. StorageMax
         /\ pairs_capacity \in Len(pairs) .. PairsMax
         /\ asked \in Keys \union {NoKey}
  BY SlotFacts DEF RoomInv

LEMMA ReplaceSound ==
  ASSUME SecondaryAssumption, DenseInv, NEW k \in Keys, NEW v \in Values, Replace(k, v)
  PROVE  Sound
  <1>1. DataInv /\ LoopInv /\ RoomInv
    BY DEF DenseInv
  <1>2. Sparse!Insert(k, v) /\ DataInv' /\ Len(pairs') = Len(pairs)
    BY <1>1, ReplaceMaps
  <1>3. /\ mode = "idle" /\ UNCHANGED <<slots_len, capacity, pairs_capacity, call>>
        /\ asked' = k
    BY DEF Replace, room
  <1>4. LoopInv'
    BY <1>1, <1>3, IdleStep
  <1>5. RoomInv'
    BY <1>1, <1>2, <1>3 DEF RoomInv
  <1>6. QED
    BY <1>2, <1>4, <1>5, SparseSteps DEF Sound, DenseInv, Sparse!Next

LEMMA InsertSound ==
  ASSUME SecondaryAssumption, DenseInv, NEW k \in Keys, NEW v \in Values, Insert(k, v)
  PROVE  Sound
  <1>1. DataInv /\ LoopInv /\ RoomInv
    BY DEF DenseInv
  <1>2. Sparse!Insert(k, v) /\ DataInv' /\ Len(pairs') = Len(pairs) + 1
    BY <1>1, InsertMaps
  <1>3. /\ mode = "idle" /\ UNCHANGED call /\ asked' = k
        /\ pairs_ensure_room(1) /\ put(k.idx, Slot(k.gen, Len(pairs)))
    BY DEF Insert
  <1>4. LoopInv'
    BY <1>1, <1>3, IdleStep
  <1>5. pairs_capacity' \in Len(pairs) + 1 .. PairsMax
    BY <1>1, <1>3, RoomTypes, PairsRoom
  <1>6. capacity' \in slots_len' .. StorageMax
    BY <1>1, <1>3, RoomTypes, KeyParts, PutRoom
  <1>7. RoomInv'
    BY <1>2, <1>3, <1>5, <1>6 DEF RoomInv
  <1>8. QED
    BY <1>2, <1>4, <1>7, SparseSteps DEF Sound, DenseInv, Sparse!Next

LEMMA RemoveSound ==
  ASSUME SecondaryAssumption, DenseInv, NEW k \in Keys, Remove(k)
  PROVE  Sound
  <1>1. DataInv /\ LoopInv /\ RoomInv
    BY DEF DenseInv
  <1>2. Sparse!Remove(k) /\ DataInv' /\ Len(pairs') = Len(pairs) - 1
    BY <1>1, RemoveMaps DEF Remove
  <1>3. /\ mode = "idle" /\ UNCHANGED <<capacity, pairs_capacity, call>> /\ asked' = k
        /\ slots_len' = slots_len
    BY DEF Remove, room, swap_remove
  <1>4. LoopInv'
    BY <1>1, <1>3, IdleStep
  <1>5. RoomInv'
    <2>1. Len(pairs) \in Nat /\ Len(pairs') \in Nat
      BY <1>1, <1>2, SlotFacts DEF DataInv, P!PairsOK
    <2>2. Len(pairs') <= Len(pairs)
      BY <1>2, <2>1
    <2>3. pairs_capacity \in Len(pairs') .. PairsMax
      BY <1>1, <2>1, <2>2, StillFits DEF RoomInv
    <2>4. QED
      BY <1>1, <1>3, <2>3 DEF RoomInv
  <1>6. QED
    BY <1>2, <1>4, <1>5, SparseSteps DEF Sound, DenseInv, Sparse!Next

LEMMA WriteSound ==
  ASSUME SecondaryAssumption, DenseInv, NEW k \in Keys, NEW v \in Values, Write(k, v)
  PROVE  Sound
  <1>1. DataInv /\ LoopInv /\ RoomInv
    BY DEF DenseInv
  <1>2. /\ mode = "idle" /\ UNCHANGED <<slots, slots_len, capacity, pairs_capacity, call>>
        /\ asked' = k /\ contains_key(k) /\ overwrite(slots[k.idx].item, k, v)
    BY DEF Write, room
  <1>3. Sparse!Write(k, v) /\ DataInv' /\ Len(pairs') = Len(pairs)
    BY <1>1, <1>2, WriteMaps
  <1>4. LoopInv'
    BY <1>1, <1>2, IdleStep
  <1>5. RoomInv'
    BY <1>1, <1>2, <1>3 DEF RoomInv
  <1>6. QED
    BY <1>3, <1>4, <1>5, SparseSteps DEF Sound, DenseInv, Sparse!Next

LEMMA ClearSound ==
  ASSUME SecondaryAssumption, DenseInv, Clear
  PROVE  Sound
  <1>1. DataInv /\ LoopInv /\ RoomInv
    BY DEF DenseInv
  <1>2. Sparse!Clear /\ DataInv' /\ pairs' = <<>>
    BY <1>1, ClearMaps
  <1>3. /\ mode = "idle" /\ UNCHANGED <<slots_len, capacity, pairs_capacity, call, asked>>
    BY DEF Clear, room
  <1>4. LoopInv'
    BY <1>1, <1>3, IdleStep
  <1>5. RoomInv'
    <2>1. Len(pairs) \in Nat /\ Len(pairs') = 0
      BY <1>1, <1>2, SlotFacts
    <2>2. pairs_capacity \in Len(pairs') .. PairsMax
      BY <1>1, <2>1, StillFits DEF RoomInv
    <2>3. QED
      BY <1>1, <1>3, <2>2 DEF RoomInv
  <1>6. QED
    BY <1>2, <1>4, <1>5 DEF Sound, DenseInv, Sparse!Next

\* Room is made, or a method begins or ends: the caller sees no change.
LEMMA QuietSound ==
  ASSUME SecondaryAssumption, DenseInv, UNCHANGED <<slots, slots_len, pairs, asked>>,
         capacity' \in slots_len .. StorageMax, pairs_capacity' \in Len(pairs) .. PairsMax,
         LoopInv'
  PROVE  Sound
  BY QuietMaps DEF Sound, DenseInv, RoomInv

LEMMA ReserveSound ==
  ASSUME SecondaryAssumption, DenseInv,
         Refuse \/ \E n \in 1 .. StorageMax : Reserve(n)
  PROVE  Sound
  <1>1. DataInv /\ LoopInv /\ RoomInv
    BY DEF DenseInv
  <1>2. /\ mode = "idle" /\ UNCHANGED <<slots, slots_len, pairs, asked, call>>
    BY DEF Refuse, Reserve
  <1>3. /\ \/ UNCHANGED capacity
           \/ \E n \in Nat : ensure_room(n)
        /\ \/ UNCHANGED pairs_capacity
           \/ \E n \in Nat : pairs_ensure_room(n)
    BY DEF Refuse, Reserve, SecondaryAssumption
  <1>4. capacity' \in slots_len .. StorageMax
    BY <1>1, <1>3, RoomTypes, SlotsRoom
  <1>5. pairs_capacity' \in Len(pairs) .. PairsMax
    <2>1. ASSUME NEW n \in Nat, pairs_ensure_room(n)
          PROVE  pairs_capacity' \in Len(pairs) .. PairsMax
      <3>1. pairs_capacity' \in Len(pairs) + n .. PairsMax
        BY <1>1, <2>1, RoomTypes, PairsRoom
      <3>2. QED
        BY <1>1, <3>1, RoomTypes
    <2>2. QED
      BY <1>1, <1>3, <2>1, RoomTypes
  <1>6. LoopInv'
    BY <1>1, <1>2, IdleStep
  <1>7. QED
    BY <1>2, <1>4, <1>5, <1>6, QuietSound

LEMMA LoopSound ==
  ASSUME SecondaryAssumption, DenseInv,
         RetainDrop \/ DrainNext \/ \E v \in Values : RetainKeep(v)
  PROVE  Sound
  <1>1. DataInv /\ LoopInv /\ RoomInv
    BY DEF DenseInv
  <1>2. /\ UNCHANGED <<slots_len, capacity, pairs_capacity>>
    BY DEF RetainDrop, DrainNext, RetainKeep, room, swap_remove
  <1>3. /\ DataInv' /\ LoopInv' /\ Len(pairs') \in {Len(pairs), Len(pairs) - 1}
        /\ \E k \in Keys : Sparse!Remove(k) \/ \E v \in Values : Sparse!Write(k, v)
    <2>1. CASE RetainDrop
      BY <1>1, <2>1, RetainDropMaps
    <2>2. CASE DrainNext
      <3>1. mode' \in {"idle", "drain"} /\ position' = 0 /\ visited' = {}
        BY <1>1, <2>2 DEF LoopInv, DrainNext, call
      <3>2. LoopInv'
        BY <3>1, Calm
      <3>3. QED
        BY <1>1, <2>2, <3>2, DrainMaps
    <2>3. ASSUME NEW v \in Values, RetainKeep(v)
          PROVE  /\ DataInv' /\ LoopInv' /\ Len(pairs') = Len(pairs)
                 /\ \E k \in Keys : Sparse!Write(k, v)
      BY <1>1, <2>3, RetainKeepMaps
    <2>4. QED
      BY <2>1, <2>2, <2>3
  <1>4. /\ asked' \in Keys /\ Sparse!Next
    <2>1. PICK k \in Keys : Sparse!Remove(k) \/ \E v \in Values : Sparse!Write(k, v)
      BY <1>3
    <2>2. asked' = k
      BY <2>1 DEF Sparse!Remove, Sparse!Write, Sparse!Store
    <2>3. QED
      BY <2>1, <2>2, SparseSteps DEF Sparse!Next
  <1>5. pairs_capacity \in Len(pairs') .. PairsMax
    <2>1. Len(pairs) \in Nat /\ Len(pairs') \in Nat
      BY <1>1, <1>3, SlotFacts DEF DataInv, P!PairsOK
    <2>2. Len(pairs') <= Len(pairs)
      BY <1>3, <2>1
    <2>3. QED
      BY <1>1, <2>1, <2>2, StillFits DEF RoomInv
  <1>6. RoomInv'
    BY <1>1, <1>2, <1>4, <1>5 DEF RoomInv
  <1>7. QED
    BY <1>3, <1>4, <1>6 DEF Sound, DenseInv

LEMMA StepSound ==
  ASSUME SecondaryAssumption, DenseInv, [Next]_vars
  PROVE  Sound
  <1>1. ASSUME NEW k \in Keys, KeyStep(k) PROVE Sound
    BY <1>1, ReplaceSound, InsertSound, WriteSound, RemoveSound DEF KeyStep
  <1>2. CASE Refuse \/ \E n \in 1 .. StorageMax : Reserve(n)
    BY <1>2, ReserveSound
  <1>3. CASE Clear
    BY <1>3, ClearSound
  <1>4. CASE RetainDrop \/ DrainNext \/ \E v \in Values : RetainKeep(v)
    BY <1>4, LoopSound
  <1>5. DataInv /\ LoopInv /\ RoomInv /\ Len(pairs) \in Nat
    BY RoomTypes DEF DenseInv
  <1>6. ASSUME NEW m \in {"retain", "drain"}, Begin(m) PROVE Sound
    <2>1. /\ mode = "idle" /\ mode' = m
          /\ UNCHANGED <<slots, slots_len, capacity, pairs_capacity, pairs, asked, position, visited>>
      BY <1>6 DEF Begin, room
    <2>2. position' = 0 /\ visited' = {}
      BY <1>5, <2>1 DEF LoopInv
    <2>3. LoopInv'
      BY <1>5, <2>1, <2>2 DEF LoopInv, RetainSeesEachOnce
    <2>4. QED
      BY <1>5, <2>1, <2>3, RoomTypes, QuietSound
  <1>7. CASE Finish
    <2>1. LoopInv'
      BY <1>7, Calm DEF Finish
    <2>2. QED
      BY <1>5, <1>7, <2>1, RoomTypes, QuietSound DEF Finish, room
  <1>8. CASE UNCHANGED vars
    <2>1. LoopInv'
      BY <1>5, <1>8 DEF vars, LoopInv, RetainSeesEachOnce, At
    <2>2. QED
      BY <1>5, <1>8, <2>1, RoomTypes, QuietSound DEF vars
  <1>9. QED
    BY <1>1, <1>2, <1>3, <1>4, <1>6, <1>7, <1>8 DEF Next

LEMMA InitSound ==
  ASSUME SecondaryAssumption, Init
  PROVE  DenseInv /\ Sparse!Init
  <1>1. /\ slots = [i \in {} |-> EmptySlot] /\ slots_len = 0 /\ pairs = <<>> /\ asked = NoKey
        /\ mode = "idle" /\ position = 0 /\ visited = {} /\ MaxIdx \in Nat
    BY DEF Init, SecondaryAssumption
  <1>2. Positions = {} /\ slots \in [0 .. -1 -> [gen : Nat, item : Nat]]
    BY <1>1 DEF Positions
  <1>3. Keys \subseteq P!OddKeys
    BY SamePairs DEF Keys, OddGens, P!OddKeys, P!Odd, Odd, SecondaryAssumption
  <1>4. P!PairsOK
    BY <1>1, <1>2, <1>3 DEF P!PairsOK, P!SlotsOK
  <1>5. SlotsMatchPairs /\ SlotsFit
    BY <1>1, <1>2 DEF SlotsMatchPairs, SlotsPointAtPairs, PairsPointAtSlots, SlotsFit, Positions
  <1>6. LoopInv
    BY <1>1 DEF LoopInv, RetainSeesEachOnce
  <1>7. RoomInv
    BY <1>1 DEF RoomInv, Init
  <1>8. Sparse!Init
    <2>1. Attached = [i \in {} |-> 0]
      BY <1>2 DEF Attached
    <2>2. NoKey = Sparse!NoKey
      BY DEF NoKey, Sparse!NoKey, Key
    <2>3. QED
      BY <1>1, <2>1, <2>2 DEF Sparse!Init, Attached
  <1>9. QED
    BY <1>4, <1>5, <1>6, <1>7, <1>8 DEF DenseInv, DataInv

LEMMA Invariance == Spec => []DenseInv
  <1>1. SecondaryAssumption
    BY SecondaryAssumption
  <1>2. Init => DenseInv
    BY <1>1, InitSound
  <1>3. DenseInv /\ [Next]_vars => DenseInv'
    BY <1>1, StepSound DEF Sound
  <1>4. QED
    BY <1>2, <1>3, PTL DEF Spec

-----------------------------------------------------------------------------
(* Theorems *)

LEMMA InvTypes ==
  ASSUME SecondaryAssumption, DenseInv
  PROVE  TypeOK
  <1>1. DataInv /\ LoopInv /\ RoomInv
    BY DEF DenseInv
  <1>2. /\ slots_len \in 0 .. MaxIdx + 1 /\ Len(pairs) \in 0 .. slots_len
        /\ slots \in [Positions -> [gen : Nat, item : Nat]] /\ MaxIdx \in Nat
    BY <1>1, SlotFacts DEF SecondaryAssumption
  <1>3. ASSUME NEW i \in Positions
        PROVE  slots[i] \in [gen : {0} \union OddGens, item : 0 .. MaxIdx]
    <2>1. slots[i] \in [gen : Nat, item : Nat]
      BY <1>2
    <2>2. CASE HoldsValue(i)
      <3>1. slots[i].item \in 0 .. Len(pairs) - 1 /\ slots[i].gen \in OddGens
        BY <1>1, <2>2, SlotFacts
      <3>2. slots[i].item \in 0 .. MaxIdx
        BY <1>2, <3>1
      <3>3. QED
        BY <2>1, <3>1, <3>2
    <2>3. CASE ~HoldsValue(i)
      <3>1. slots[i] = EmptySlot
        BY <1>1, <2>3 DEF DataInv, SlotsFit
      <3>2. QED
        BY <1>2, <3>1 DEF EmptySlot, Slot
    <2>4. QED
      BY <2>2, <2>3
  <1>4. slots \in [Positions -> [gen : {0} \union OddGens, item : 0 .. MaxIdx]]
    BY <1>2, <1>3
  <1>5. pairs \in Seq([key : Keys, value : Values])
    BY <1>1 DEF DataInv, P!PairsOK, P!AnyPair
  <1>6. position \in 0 .. MaxIdx + 1
    BY <1>1, <1>2 DEF LoopInv
  <1>7. QED
    BY <1>1, <1>2, <1>4, <1>5, <1>6 DEF TypeOK, LoopInv, RoomInv

\* The types of the map's state.  Every position that a slot stores fits in the
\* index type, which the unchecked conversions of to_stored rely on.
THEOREM TypeCorrect == Spec => []TypeOK
  <1>1. SecondaryAssumption
    BY SecondaryAssumption
  <1>2. DenseInv => TypeOK
    BY <1>1, InvTypes
  <1>3. QED
    BY <1>2, Invariance, PTL

\* The rules of DenseSecondaryMapRawParts hold between any two calls, and also
\* where a panic of the caller's code, or a forgotten drain, leaves the map.
THEOREM PairsFound == Spec => []SlotsMatchPairs
  <1>1. DenseInv => SlotsMatchPairs
    BY DEF DenseInv, DataInv
  <1>2. QED
    BY <1>1, Invariance, PTL

\* retain calls f on every value once, although every value that f rejects
\* moves the last pair into its place.
THEOREM RetainExact == Spec => []RetainSeesEachOnce
  <1>1. DenseInv => RetainSeesEachOnce
    BY DEF DenseInv, LoopInv
  <1>2. QED
    BY <1>1, Invariance, PTL

\* The dense secondary map implements the sparse one: each step is a step of
\* the sparse map's, or one that its caller cannot see.
THEOREM Refines == Spec => ImplementsSparse
  <1>1. SecondaryAssumption
    BY SecondaryAssumption
  <1>2. Init => Sparse!Init
    BY <1>1, InitSound
  <1>3. DenseInv /\ [Next]_vars => [Sparse!Next]_(Sparse!vars)
    BY <1>1, StepSound DEF Sound
  <1>4. QED
    BY <1>2, <1>3, Invariance, PTL DEF Spec, ImplementsSparse, Sparse!Spec

=============================================================================
