-------------------------- MODULE DenseGenMapProofs --------------------------
(***************************************************************************)
(* Theorems about DenseGenMap, for every key type and any raw parts.  The  *)
(* argument: with the values put back into the slots (Inlined), the map is *)
(* a GenMap, so what is proved of GenMap's slots, free list and keys holds *)
(* for it (G); and every way of changing the pairs keeps the slots and the *)
(* pairs pointing at each other and leaves every value but one where its   *)
(* slot says (P).                                                          *)
(***************************************************************************)
EXTENDS DenseParts, FiniteSetTheorems, TLAPS

P == INSTANCE PairsProofs WITH KeySet <- Keys

\* The slots, with the values in place of their positions.
Inlined ==
  [i \in Positions |-> IF HoldsValue(i) THEN Slot(slots[i].gen, At(slots[i].item).value)
                       ELSE slots[i]]

\* The map as a GenMap, whose storage has room for every slot that a key can
\* point at.  Its loops are the caller's, who removes value after value.
G == INSTANCE GenMapProofs WITH
  slots <- Inlined,
  len <- Cardinality({i \in Positions : HoldsValue(i)}),
  capacity <- MaxIdx + 1,
  StorageMax <- MaxIdx + 1,
  PartsSlots <- MaxIdx + 1,
  ReserveMax <- 0,
  promised <- 0,
  position <- 0,
  mode <- IF mode = "entry" THEN "entry" ELSE "idle"

-----------------------------------------------------------------------------
(* The two views of a slot *)

\* The operators on generations, keys and targets are the same in both.
LEMMA SameNames ==
  /\ G!Positions = Positions /\ G!Positions' = Positions'
  /\ G!OddGens = OddGens /\ G!Keys = Keys /\ G!NoTarget = NoTarget
  /\ \A g : (G!Odd(g) <=> Odd(g)) /\ (P!Odd(g) <=> Odd(g))
            /\ G!wrapping_next(g) = wrapping_next(g)
            /\ G!detached_generation(g) = detached_generation(g)
            /\ (G!RunsOut(g) <=> RunsOut(g))
  /\ \A i, x : G!Slot(i, x) = Slot(i, x) /\ G!Key(i, x) = Key(i, x)
               /\ G!freed_parts(i, x) = freed_parts(i, x)
  BY DEF G!Positions, Positions, G!OddGens, OddGens, G!Keys, Keys, G!NoTarget, NoTarget,
         G!Odd, P!Odd, Odd, G!wrapping_next, wrapping_next, G!detached_generation,
         detached_generation, G!RunsOut, RunsOut, G!Slot, Slot, G!Key, Key,
         G!freed_parts, freed_parts

LEMMA SamePairs ==
  /\ P!SlotsPointAtPairs <=> SlotsPointAtPairs
  /\ P!SlotsPointAtPairs' <=> SlotsPointAtPairs'
  /\ P!PairsPointAtSlots <=> PairsPointAtSlots
  /\ P!PairsPointAtSlots' <=> PairsPointAtSlots'
  /\ \A p : P!At(p) = At(p)
  /\ \A k, v : P!Pair(k, v) = Pair(k, v)
  /\ \A i : P!Holds(i) <=> HoldsValue(i)
  BY DEF P!SlotsPointAtPairs, SlotsPointAtPairs, P!PairsPointAtSlots, PairsPointAtSlots,
         P!At, At, P!Pair, Pair, P!Holds, HoldsValue, P!Odd, Odd

\* The configuration is one of a GenMap.
LEMMA SameConfig ==
  ASSUME ConfigAssumption
  PROVE  G!ConfigAssumption /\ G!ReserveAssumption /\ G!PartsAssumption
  BY DEF ConfigAssumption, G!ConfigAssumption, G!ReserveAssumption, G!PartsAssumption

\* The slots agree on the generation, and on the link if they hold no value.
LEMMA InlinedSlot ==
  ASSUME NEW i \in Positions
  PROVE  /\ Inlined[i].gen = slots[i].gen
         /\ G!HoldsValue(i) <=> HoldsValue(i)
         /\ HoldsValue(i) => Inlined[i] = Slot(slots[i].gen, At(slots[i].item).value)
         /\ ~HoldsValue(i) => Inlined[i] = slots[i]
  BY DEF Inlined, Slot, G!HoldsValue, HoldsValue, G!Odd, Odd

\* A key has a value, or is detached, in one view if it is in the other.
LEMMA SameKeys ==
  ASSUME ConfigAssumption, NEW k \in Keys
  PROVE  /\ G!contains_key(k) <=> contains_key(k)
         /\ G!detached_slot(k) <=> detached_slot(k)
         /\ contains_key(k) => k.idx \in Positions /\ HoldsValue(k.idx)
         /\ detached_slot(k) => k.idx \in Positions /\ ~HoldsValue(k.idx)
         /\ k = Key(k.idx, k.gen)
  <1>1. k.gen \in OddGens /\ Odd(k.gen) /\ k = Key(k.idx, k.gen)
    BY DEF Keys, OddGens, Key
  <1>2. ~Odd(wrapping_next(k.gen))
    <2>1. G!ConfigAssumption /\ k.gen \in G!OddGens
      BY <1>1, SameConfig, SameNames
    <2>2. ~G!Odd(G!wrapping_next(k.gen))
      BY <2>1, G!NextOfOdd
    <2>3. QED
      BY <2>2, SameNames
  <1>3. contains_key(k) => k.idx \in Positions /\ HoldsValue(k.idx)
    BY <1>1 DEF contains_key, HoldsValue
  <1>4. detached_slot(k) => k.idx \in Positions /\ ~HoldsValue(k.idx)
    BY <1>2 DEF detached_slot, HoldsValue, Slot, detached_generation
  <1>5. G!contains_key(k) <=> contains_key(k)
    BY InlinedSlot, SameNames DEF G!contains_key, contains_key
  <1>6. G!detached_slot(k) <=> detached_slot(k)
    <2>1. G!detached_slot(k) <=> /\ k.idx \in Positions
                                 /\ Inlined[k.idx] = Slot(wrapping_next(k.gen), k.idx)
      BY SameNames DEF G!detached_slot, G!detached_generation
    <2>2. Slot(wrapping_next(k.gen), k.idx).gen = wrapping_next(k.gen)
      BY DEF Slot
    <2>3. QED
      BY <1>2, <1>4, <2>1, <2>2, InlinedSlot DEF HoldsValue, detached_slot, detached_generation
  <1>7. QED
    BY <1>1, <1>3, <1>4, <1>5, <1>6

\* The targets of next_target are the same.
LEMMA SameTarget ==
  ASSUME ConfigAssumption, G!IInv
  PROVE  /\ G!Target = Target
         /\ next_free # NoSlot => /\ next_free \in Positions /\ ~HoldsValue(next_free)
                                  /\ Inlined[next_free] = slots[next_free]
  <1>1. CASE next_free # NoSlot
    <2>0. G!ConfigAssumption /\ G!FieldsOK /\ G!FreeListComplete
      BY SameConfig DEF G!IInv, G!DataOK
    <2>1. next_free \in G!Positions /\ ~G!HoldsValue(next_free)
      BY <1>1, <2>0, G!HeadOfList
    <2>2. QED
      BY <1>1, <2>1, InlinedSlot, SameNames DEF G!Target, Target
  <1>2. CASE next_free = NoSlot
    BY <1>2 DEF G!Target, Target
  <1>3. QED
    BY <1>1, <1>2

-----------------------------------------------------------------------------
(* The invariant *)

\* The pairs and the slots, which know of each other except while clear runs.
PairsInv == P!PairsOK /\ Len(pairs) <= slots_len /\ SlotsMatchPairs

\* What is known of the slots, as those of a GenMap.
LEMMA SlotFacts ==
  ASSUME ConfigAssumption, G!IInv
  PROVE  /\ slots_len \in Nat /\ slots_len <= MaxIdx + 1 /\ MaxIdx + 1 <= NoSlot
         /\ next_free \in 0 .. NoSlot /\ KeysFit /\ retired \subseteq Positions
         /\ \A i \in Positions : /\ slots[i].gen \in 0 .. GenMax
                                 /\ ~HoldsValue(i) => slots[i].item \in 0 .. NoSlot
                                 /\ HoldsValue(i) => Key(i, slots[i].gen) \in Keys
         /\ Target.idx \in Nat /\ Target.gen \in OddGens /\ Odd(Target.gen)
         /\ next_free = NoSlot => Target.idx = slots_len
         /\ next_free # NoSlot => Target.idx = next_free
         /\ (next_free = NoSlot => slots_len <= MaxIdx)
              => Key(Target.idx, Target.gen) \in Keys
         /\ mode = "entry" => target = Target /\ (next_free = NoSlot => slots_len <= MaxIdx)
         /\ mode # "entry" => target = NoTarget
         /\ issued \subseteq Keys
  <1>1. G!ConfigAssumption /\ G!FieldsOK /\ G!KeysFit /\ G!CallOK /\ G!FreeListComplete
    BY SameConfig DEF G!IInv, G!DataOK
  <1>2. /\ slots_len \in 0 .. MaxIdx + 1
        /\ Inlined \in [Positions -> [gen : 0 .. GenMax, item : Values \union 0 .. NoSlot]]
        /\ \A i \in Positions :
             Inlined[i].item \in IF G!HoldsValue(i) THEN Values ELSE 0 .. NoSlot
        /\ next_free \in 0 .. NoSlot /\ retired \subseteq Positions
    BY <1>1, SameNames DEF G!FieldsOK
  <1>3. slots_len \in Nat /\ slots_len <= MaxIdx + 1 /\ MaxIdx + 1 <= NoSlot
    BY <1>2 DEF ConfigAssumption
  <1>4. ASSUME NEW i \in Positions
        PROVE  /\ slots[i].gen \in 0 .. GenMax
               /\ ~HoldsValue(i) => slots[i].item \in 0 .. NoSlot
               /\ HoldsValue(i) => slots[i].gen <= MaxGen /\ Key(i, slots[i].gen) \in Keys
    <2>1. Inlined[i].gen \in 0 .. GenMax
      BY <1>2
    <2>2. ~HoldsValue(i) => slots[i].item \in 0 .. NoSlot
      BY <1>2, InlinedSlot
    <2>3. HoldsValue(i) => slots[i].gen <= MaxGen
      BY <1>1, InlinedSlot, SameNames DEF G!KeysFit
    <2>4. slots[i].gen \in Nat /\ i \in 0 .. MaxIdx
      BY <1>3, <2>1, InlinedSlot DEF ConfigAssumption, Positions
    <2>5. HoldsValue(i) => slots[i].gen \in OddGens
      BY <2>3, <2>4 DEF HoldsValue, OddGens, ConfigAssumption
    <2>6. QED
      BY <2>1, <2>2, <2>3, <2>4, <2>5, InlinedSlot DEF Key, Keys
  <1>5. KeysFit
    BY <1>4 DEF KeysFit
  <1>6. Target.gen \in OddGens /\ Odd(Target.gen) /\ Target.idx \in Nat
    <2>1. CASE next_free # NoSlot
      <3>1. /\ next_free \in Positions /\ Inlined[next_free] = slots[next_free]
            /\ Inlined[next_free].gen + 1 \in OddGens
        BY <1>1, <2>1, G!HeadOfList, SameTarget, SameNames
      <3>2. QED
        BY <2>1, <3>1 DEF Target, OddGens, Positions
    <2>2. CASE next_free = NoSlot
      BY <1>1, <1>3, <2>2, G!ZeroIsEven, SameNames DEF Target, OddGens
    <2>3. QED
      BY <2>1, <2>2
  <1>7. /\ next_free = NoSlot => Target.idx = slots_len
        /\ next_free # NoSlot => Target.idx = next_free
    BY DEF Target
  <1>8. ASSUME next_free = NoSlot => slots_len <= MaxIdx
        PROVE  Key(Target.idx, Target.gen) \in Keys
    <2>1. Target.idx \in 0 .. MaxIdx
      BY <1>3, <1>7, <1>8, SameTarget DEF Positions, ConfigAssumption
    <2>2. QED
      BY <1>6, <2>1 DEF Key, Keys
  <1>9. /\ mode = "entry" => target = Target /\ (next_free = NoSlot => slots_len <= MaxIdx)
        /\ mode # "entry" => target = NoTarget
        /\ issued \subseteq Keys
    BY <1>1, SameTarget, SameNames DEF G!CallOK
  <1>10. QED
    BY <1>2, <1>3, <1>4, <1>5, <1>6, <1>7, <1>8, <1>9

-----------------------------------------------------------------------------
(* How a step changes the slots *)

\* A slot that a step leaves alone is left alone with its value.
LEMMA InlinedKept ==
  ASSUME NEW j \in Positions, j \in Positions', P!Keeps(j)
  PROVE  Inlined'[j] = Inlined[j]
  <1>1. /\ slots'[j].gen = slots[j].gen
        /\ IF HoldsValue(j) THEN pairs'[slots'[j].item + 1] = At(slots[j].item)
           ELSE slots'[j] = slots[j]
    BY SamePairs DEF P!Keeps
  <1>2. HoldsValue(j)' <=> HoldsValue(j)
    BY <1>1 DEF HoldsValue
  <1>3. Inlined'[j] = IF HoldsValue(j)' THEN Slot(slots'[j].gen, pairs'[slots'[j].item + 1].value)
                      ELSE slots'[j]
    BY DEF Inlined, At
  <1>4. Inlined[j] = IF HoldsValue(j) THEN Slot(slots[j].gen, At(slots[j].item).value)
                     ELSE slots[j]
    BY DEF Inlined
  <1>5. QED
    BY <1>1, <1>2, <1>3, <1>4

\* The slot i of the next state.
LEMMA InlinedNext ==
  ASSUME NEW i \in Positions'
  PROVE  /\ Odd(slots'[i].gen) =>
              Inlined'[i] = Slot(slots'[i].gen, pairs'[slots'[i].item + 1].value)
         /\ ~Odd(slots'[i].gen) => Inlined'[i] = slots'[i]
         /\ Inlined'[i].gen = slots'[i].gen
  <1>1. Inlined'[i] = IF Odd(slots'[i].gen)
                     THEN Slot(slots'[i].gen, pairs'[slots'[i].item + 1].value)
                     ELSE slots'[i]
    BY DEF Inlined, HoldsValue, At
  <1>2. QED
    BY <1>1 DEF Slot

LEMMA InlinedNow == Inlined = [j \in Positions |-> Inlined[j]]
  BY DEF Inlined

LEMMA InlinedAfter == Inlined' = [j \in Positions' |-> Inlined'[j]]
  BY DEF Inlined

\* A step that changes no slot, nor the pairs while a slot stores a position, is
\* invisible in the GenMap's slots.
LEMMA SameInlined ==
  ASSUME UNCHANGED <<slots, slots_len>>,
         pairs' = pairs \/ \A i \in Positions : ~HoldsValue(i)
  PROVE  /\ Inlined' = Inlined
         /\ Cardinality({i \in Positions : HoldsValue(i)})'
              = Cardinality({i \in Positions : HoldsValue(i)})
  <1>1. Positions' = Positions
    BY DEF Positions
  <1>2. \A i \in Positions : HoldsValue(i)' <=> HoldsValue(i)
    BY DEF HoldsValue
  <1>3. ASSUME NEW i \in Positions PROVE Inlined'[i] = Inlined[i]
    <2>1. i \in Positions'
      BY <1>1
    <2>2. CASE HoldsValue(i)
      <3>1. pairs' = pairs
        BY <2>2
      <3>2. QED
        BY <2>1, <2>2, <3>1, InlinedNext, InlinedSlot DEF HoldsValue, At
    <2>3. CASE ~HoldsValue(i)
      BY <2>1, <2>3, InlinedNext, InlinedSlot DEF HoldsValue, At
    <2>4. QED
      BY <2>2, <2>3
  <1>4. Inlined' = Inlined
    BY <1>1, <1>3, InlinedNow, InlinedAfter
  <1>5. {i \in Positions : HoldsValue(i)}' = {i \in Positions : HoldsValue(i)}
    BY <1>1, <1>2
  <1>6. QED
    BY <1>4, <1>5

\* One slot changes, and no other value.
LEMMA Rewritten ==
  ASSUME slots_len' = slots_len, NEW i \in Positions,
         \A j \in Positions : j # i => P!Keeps(j)
  PROVE  Inlined' = [Inlined EXCEPT ![i] = Inlined'[i]]
  <1>1. Positions' = Positions
    BY DEF Positions
  <1>2. \A j \in Positions : j # i => Inlined'[j] = Inlined[j]
    BY <1>1, InlinedKept
  <1>3. Inlined' = [j \in Positions |-> Inlined'[j]]
    BY <1>1 DEF Inlined
  <1>4. Inlined = [j \in Positions |-> Inlined[j]]
    BY DEF Inlined
  <1>5. QED
    BY <1>2, <1>3, <1>4

\* A slot is added.
LEMMA Added ==
  ASSUME slots_len \in Nat, slots_len' = slots_len + 1, \A j \in Positions : P!Keeps(j)
  PROVE  Inlined' = [j \in 0 .. slots_len |-> IF j = slots_len THEN Inlined'[slots_len]
                                              ELSE Inlined[j]]
  <1>1. Positions' = 0 .. slots_len /\ \A j \in 0 .. slots_len : j # slots_len => j \in Positions
    BY DEF Positions
  <1>2. \A j \in Positions : j \in Positions'
    BY <1>1 DEF Positions
  <1>3. \A j \in Positions : Inlined'[j] = Inlined[j]
    BY <1>2, InlinedKept
  <1>4. Inlined' = [j \in Positions' |-> Inlined'[j]]
    BY DEF Inlined
  <1>5. QED
    BY <1>1, <1>3, <1>4

\* The slot of the target becomes s, and no other slot changes.
LEMMA Occupied ==
  ASSUME ConfigAssumption, G!IInv, PairsInv, NEW s \in [gen : Nat, item : Nat],
         Occupy(Target, s)
  PROVE  /\ slots_len' \in Nat /\ slots_len' >= slots_len /\ Target.idx < slots_len'
         /\ slots_len' = IF next_free = NoSlot THEN slots_len + 1 ELSE slots_len
         /\ slots'[Target.idx] = s /\ slots' \in [0 .. slots_len' - 1 -> [gen : Nat, item : Nat]]
         /\ \A j \in 0 .. slots_len - 1 : j # Target.idx => slots'[j] = slots[j]
         /\ \A j \in slots_len .. slots_len' - 1 : j = Target.idx
         /\ Target.idx < slots_len => ~HoldsValue(Target.idx)
  <1>1. /\ slots_len \in Nat /\ Target.idx \in Nat
        /\ slots \in [0 .. slots_len - 1 -> [gen : Nat, item : Nat]]
    BY SlotFacts DEF PairsInv, P!PairsOK, P!SlotsOK
  <1>2. CASE next_free # NoSlot
    <2>1. /\ Target.from_free_list /\ Target.idx = next_free
          /\ next_free \in 0 .. slots_len - 1 /\ ~HoldsValue(next_free)
      BY <1>2, SameTarget DEF Target, Positions
    <2>2. slots' = [slots EXCEPT ![next_free] = s] /\ slots_len' = slots_len
      BY <2>1 DEF Occupy
    <2>3. QED
      BY <1>1, <1>2, <2>1, <2>2
  <1>3. CASE next_free = NoSlot
    <2>1. ~Target.from_free_list /\ Target.idx = slots_len
      BY <1>3 DEF Target
    <2>2. /\ slots' = [j \in 0 .. slots_len |-> IF j = slots_len THEN s ELSE slots[j]]
          /\ slots_len' = slots_len + 1
      BY <2>1 DEF Occupy, push
    <2>3. \A j \in 0 .. slots_len : j # slots_len => j \in 0 .. slots_len - 1
      BY <1>1
    <2>4. slots' \in [0 .. slots_len -> [gen : Nat, item : Nat]]
      BY <1>1, <2>2, <2>3
    <2>5. slots_len' - 1 = slots_len
      BY <1>1, <2>2
    <2>6. QED
      BY <1>1, <1>3, <2>1, <2>2, <2>4, <2>5
  <1>4. QED
    BY <1>2, <1>3

\* ... and so does the slot of the GenMap, with the value.
LEMMA OccupiedInlined ==
  ASSUME ConfigAssumption, G!IInv, PairsInv, NEW s \in [gen : Nat, item : Nat],
         Occupy(Target, s), \A j \in Positions : j # Target.idx => P!Keeps(j)
  PROVE  G!Occupy(G!Target, Inlined'[Target.idx])
  <1>1. G!Target = Target
    BY SameTarget
  <1>2. CASE next_free # NoSlot
    <2>1. /\ Target.from_free_list /\ Target.idx = next_free
          /\ next_free \in Positions /\ Inlined[next_free] = slots[next_free]
      BY <1>2, SameTarget DEF Target
    <2>2. slots_len' = slots_len /\ next_free' = Inlined[next_free].item
      BY <2>1 DEF Occupy
    <2>3. Inlined' = [Inlined EXCEPT ![next_free] = Inlined'[next_free]]
      BY <2>1, <2>2, Rewritten
    <2>4. QED
      BY <1>1, <2>1, <2>2, <2>3 DEF G!Occupy
  <1>3. CASE next_free = NoSlot
    <2>1. ~Target.from_free_list /\ Target.idx = slots_len /\ slots_len \in Nat
      BY <1>3, SlotFacts DEF Target
    <2>2. slots_len' = slots_len + 1 /\ next_free' = next_free
      BY <2>1 DEF Occupy, push
    <2>3. \A j \in Positions : P!Keeps(j)
      BY <2>1 DEF Positions
    <2>4. Inlined' = [j \in 0 .. slots_len |-> IF j = slots_len THEN Inlined'[slots_len]
                                               ELSE Inlined[j]]
      BY <2>1, <2>2, <2>3, Added
    <2>5. QED
      BY <1>1, <2>1, <2>2, <2>4 DEF G!Occupy, G!push
  <1>4. QED
    BY <1>2, <1>3

\* insert, an entry or insert_with_key puts a value in the slot of the target.
LEMMA FillEffect ==
  ASSUME ConfigAssumption, G!IInv, PairsInv, mode # "clear", NEW v \in Values,
         next_free = NoSlot => slots_len <= MaxIdx, fill(Target, v)
  PROVE  /\ P!PairsOK' /\ SlotsPointAtPairs' /\ PairsPointAtSlots'
         /\ G!Occupy(G!Target, G!Slot(G!Target.gen, v)) /\ Len(pairs') = Len(pairs) + 1
  <1> DEFINE i == Target.idx
             g == Target.gen
             s == Slot(g, Len(pairs))
  <1>1. /\ slots_len \in Nat /\ i \in Nat /\ g \in OddGens /\ Odd(g) /\ Key(i, g) \in Keys
        /\ P!PairsOK /\ SlotsPointAtPairs /\ PairsPointAtSlots
    BY SlotFacts DEF PairsInv, SlotsMatchPairs
  <1>2. g \in Nat /\ Len(pairs) \in Nat /\ s \in [gen : Nat, item : Nat]
    BY <1>1, SamePairs, P!Types DEF Slot, OddGens
  <1>3. Occupy(Target, s) /\ pairs' = Append(pairs, Pair(Key(i, g), v))
    BY DEF fill
  <1>4. P!Appends(i, g, v)
    <2>1. /\ i < slots_len => ~HoldsValue(i)
          /\ slots_len' \in Nat /\ slots_len' >= slots_len /\ i < slots_len'
          /\ slots'[i] = [gen |-> g, item |-> Len(pairs)]
          /\ \A j \in 0 .. slots_len - 1 : j # i => slots'[j] = slots[j]
          /\ \A j \in slots_len .. slots_len' - 1 : j = i
      BY <1>2, <1>3, Occupied DEF Slot
    <2>2. [idx |-> i, gen |-> g] \in Keys /\ pairs' = Append(pairs, P!Pair([idx |-> i, gen |-> g], v))
      BY <1>1, <1>3, SamePairs DEF Key
    <2>3. P!Odd(g) /\ (i < slots_len => ~P!Holds(i))
      BY <1>1, <2>1, SamePairs, SameNames
    <2> HIDE DEF i, g
    <2>4. QED
      BY <1>1, <2>1, <2>2, <2>3 DEF P!Appends
  <1>5. /\ SlotsPointAtPairs' /\ PairsPointAtSlots' /\ slots'[i].gen = g
        /\ pairs'[slots'[i].item + 1] = Pair(Key(i, g), v)
        /\ \A j \in 0 .. slots_len - 1 : j # i => P!Keeps(j)
        /\ pairs' \in Seq(P!AnyPair) /\ Len(pairs') = Len(pairs) + 1
    BY <1>1, <1>4, SamePairs, P!AppendsKeeps DEF Key
  <1>6. P!PairsOK'
    BY <1>1, <1>2, <1>3, <1>5, Occupied DEF P!PairsOK, P!SlotsOK, P!AnyPair
  <1>7. i \in Positions' /\ Pair(Key(i, g), v).value = v
    <2>1. slots_len' \in Nat /\ Target.idx < slots_len'
      BY <1>2, <1>3, Occupied
    <2>2. i \in Positions'
      BY <1>1, <2>1 DEF Positions
    <2>3. QED
      BY <2>2 DEF Pair
  <1>8. Inlined'[i] = Slot(g, v)
    BY <1>1, <1>5, <1>7, InlinedNext
  <1>9. G!Occupy(G!Target, Slot(g, v))
    <2>1. \A j \in Positions : j # i => P!Keeps(j)
      BY <1>5 DEF Positions
    <2>2. QED
      BY <1>2, <1>3, <1>8, <2>1, OccupiedInlined
  <1>10. QED
    BY <1>5, <1>6, <1>9, SameTarget, SameNames

\* reserve_key detaches the slot of the target.
LEMMA ReserveEffect ==
  ASSUME ConfigAssumption, G!IInv, PairsInv, mode # "clear", pairs' = pairs,
         NEW s \in [gen : Nat, item : Nat], ~Odd(s.gen), Occupy(Target, s)
  PROVE  /\ P!PairsOK' /\ SlotsPointAtPairs' /\ PairsPointAtSlots'
         /\ G!Occupy(G!Target, s)
  <1> DEFINE i == Target.idx
  <1>1. /\ slots_len \in Nat /\ i \in Nat
        /\ P!PairsOK /\ SlotsPointAtPairs /\ PairsPointAtSlots
    BY SlotFacts DEF PairsInv, SlotsMatchPairs
  <1>2. /\ slots_len' \in Nat /\ slots_len' >= slots_len /\ i < slots_len' /\ slots'[i] = s
        /\ slots' \in [0 .. slots_len' - 1 -> [gen : Nat, item : Nat]]
        /\ \A j \in 0 .. slots_len - 1 : j # i => slots'[j] = slots[j]
        /\ \A j \in slots_len .. slots_len' - 1 : j = i
        /\ i < slots_len => ~HoldsValue(i)
    BY Occupied
  <1>3. P!Vacates(i, s)
    <2>1. ~P!Odd(s.gen)
      BY SameNames
    <2> HIDE DEF i
    <2>2. QED
      BY <1>1, <1>2, <2>1 DEF P!Vacates
  <1>4. /\ SlotsPointAtPairs' /\ PairsPointAtSlots'
        /\ \A j \in 0 .. slots_len - 1 : j # i => P!Keeps(j)
    BY <1>1, <1>2, <1>3, SamePairs, P!VacatesKeeps
  <1>5. P!PairsOK'
    BY <1>1, <1>2 DEF P!PairsOK, P!SlotsOK, P!AnyPair
  <1>6. Inlined'[i] = s
    <2>1. i \in Positions'
      BY <1>1, <1>2 DEF Positions
    <2>2. QED
      BY <1>2, <2>1, InlinedNext
  <1>7. \A j \in Positions : j # i => P!Keeps(j)
    BY <1>4 DEF Positions
  <1>8. QED
    BY <1>4, <1>5, <1>6, <1>7, OccupiedInlined, SameTarget

\* A slot is rewritten, holds no value afterwards, and the pairs stay: release,
\* and clear on its way.
LEMMA VacateEffect ==
  ASSUME ConfigAssumption, G!IInv, PairsInv, pairs' = pairs, slots_len' = slots_len,
         NEW i \in Positions, NEW s \in [gen : Nat, item : Nat], ~Odd(s.gen),
         slots' = [slots EXCEPT ![i] = s]
  PROVE  /\ P!PairsOK' /\ SlotsPointAtPairs'
         /\ PairsPointAtSlots /\ ~HoldsValue(i) => PairsPointAtSlots'
         /\ Inlined' = [Inlined EXCEPT ![i] = s]
  <1>1. /\ slots_len \in Nat /\ P!PairsOK /\ SlotsPointAtPairs
        /\ slots \in [0 .. slots_len - 1 -> [gen : Nat, item : Nat]]
    BY SlotFacts DEF PairsInv, SlotsMatchPairs, P!PairsOK, P!SlotsOK
  <1>2. /\ i \in 0 .. slots_len - 1 /\ slots'[i] = s
        /\ slots' \in [0 .. slots_len' - 1 -> [gen : Nat, item : Nat]]
        /\ \A j \in 0 .. slots_len - 1 : j # i => slots'[j] = slots[j]
    BY <1>1 DEF Positions
  <1>3. P!Vacates(i, s)
    <2>1. ~P!Odd(s.gen)
      BY SameNames
    <2>2. QED
      BY <1>1, <1>2, <2>1 DEF P!Vacates
  <1>4. /\ SlotsPointAtPairs'
        /\ PairsPointAtSlots /\ ~HoldsValue(i) => PairsPointAtSlots'
        /\ \A j \in 0 .. slots_len - 1 : j # i => P!Keeps(j)
    BY <1>1, <1>3, SamePairs, P!VacatesKeeps
  <1>5. P!PairsOK'
    BY <1>1, <1>2 DEF P!PairsOK, P!SlotsOK, P!AnyPair
  <1>6. i \in Positions' /\ Inlined'[i] = s
    BY <1>2, InlinedNext DEF Positions
  <1>7. Inlined' = [Inlined EXCEPT ![i] = Inlined'[i]]
    BY <1>4, Rewritten DEF Positions
  <1>8. QED
    BY <1>4, <1>5, <1>6, <1>7

\* A value is taken out, and the last pair takes its place.
LEMMA SwapEffect ==
  ASSUME ConfigAssumption, G!IInv, PairsInv, mode # "clear",
         NEW i \in Positions, HoldsValue(i), NEW s \in [gen : Nat, item : Nat], ~Odd(s.gen),
         NEW p, p = slots[i].item, swap_remove(i, s, p)
  PROVE  /\ P!PairsOK' /\ SlotsPointAtPairs' /\ PairsPointAtSlots'
         /\ slots_len' = slots_len /\ Inlined' = [Inlined EXCEPT ![i] = s]
         /\ Len(pairs') = Len(pairs) - 1
         /\ \A q \in 0 .. Len(pairs) - 2 :
              pairs'[q + 1] = IF q = p THEN At(Len(pairs) - 1) ELSE At(q)
  <1>1. P!PairsOK /\ SlotsPointAtPairs /\ PairsPointAtSlots /\ slots_len' = slots_len
    BY DEF PairsInv, SlotsMatchPairs, swap_remove
  <1>2. P!SwapsOut(i, s, p)
    <2>1. P!swap_remove(i, s, p)
      BY DEF swap_remove, P!swap_remove, At, P!At
    <2>2. ~P!Odd(s.gen) /\ P!Holds(i)
      BY SamePairs, SameNames
    <2>3. QED
      BY <2>1, <2>2 DEF P!SwapsOut, Positions
  <1>3. /\ SlotsPointAtPairs' /\ PairsPointAtSlots' /\ slots'[i] = s
        /\ slots' \in [0 .. slots_len - 1 -> [gen : Nat, item : Nat]]
        /\ \A j \in 0 .. slots_len - 1 : j # i => P!Keeps(j)
        /\ pairs' \in Seq(P!AnyPair) /\ Len(pairs') = Len(pairs) - 1
        /\ \A q \in 0 .. Len(pairs) - 2 :
              pairs'[q + 1] = IF q = p THEN At(Len(pairs) - 1) ELSE At(q)
    BY <1>1, <1>2, SamePairs, P!SwapKeeps
  <1>4. P!PairsOK'
    BY <1>1, <1>3 DEF P!PairsOK, P!SlotsOK, P!AnyPair
  <1>5. i \in Positions' /\ Inlined'[i] = s
    BY <1>1, <1>3, InlinedNext DEF Positions
  <1>6. Inlined' = [Inlined EXCEPT ![i] = Inlined'[i]]
    BY <1>1, <1>3, Rewritten DEF Positions
  <1>7. QED
    BY <1>1, <1>3, <1>4, <1>5, <1>6

\* A value is written, in its place.
LEMMA WriteEffect ==
  ASSUME ConfigAssumption, G!IInv, PairsInv, mode # "clear", NEW k \in Keys, contains_key(k),
         NEW v \in Values, UNCHANGED <<slots, slots_len>>,
         pairs' = [pairs EXCEPT ![slots[k.idx].item + 1] = Pair(k, v)]
  PROVE  /\ P!PairsOK' /\ SlotsPointAtPairs' /\ PairsPointAtSlots'
         /\ Inlined' = [Inlined EXCEPT ![k.idx] = Slot(k.gen, v)]
         /\ Len(pairs') = Len(pairs)
         /\ \A q \in 0 .. Len(pairs) - 1 : pairs'[q + 1].key = At(q).key
  <1> DEFINE i == k.idx
             g == k.gen
  <1>1. /\ P!PairsOK /\ SlotsPointAtPairs /\ PairsPointAtSlots /\ slots_len \in Nat
        /\ slots \in [0 .. slots_len - 1 -> [gen : Nat, item : Nat]]
    BY SlotFacts DEF PairsInv, SlotsMatchPairs, P!PairsOK, P!SlotsOK
  <1>2. /\ i \in Positions /\ HoldsValue(i) /\ Odd(g) /\ k = Key(i, g)
        /\ slots[i].gen = g
    BY SameKeys DEF contains_key, HoldsValue
  <1>3. i \in 0 .. slots_len - 1 /\ slots[i] = [gen |-> g, item |-> slots[i].item]
    BY <1>1, <1>2 DEF Positions
  <1>4. P!Overwrites(i, g, v)
    <2>1. P!Holds(i) /\ P!Odd(g) /\ k = [idx |-> i, gen |-> g]
      BY <1>2, SamePairs, SameNames DEF Key
    <2>2. pairs' = [pairs EXCEPT ![slots[i].item + 1] = P!Pair([idx |-> i, gen |-> g], v)]
      BY <2>1, SamePairs
    <2> HIDE DEF i, g
    <2>3. QED
      BY <1>3, <2>1, <2>2 DEF P!Overwrites
  <1>5. /\ SlotsPointAtPairs' /\ PairsPointAtSlots'
        /\ slots'[i].gen = g /\ pairs'[slots'[i].item + 1] = Pair(k, v)
        /\ \A j \in 0 .. slots_len - 1 : j # i => P!Keeps(j)
        /\ pairs' \in Seq(P!AnyPair) /\ Len(pairs') = Len(pairs)
        /\ \A q \in 0 .. Len(pairs) - 1 : q # slots[i].item => pairs'[q + 1] = At(q)
    <2>1. P!PairsOK /\ P!SlotsPointAtPairs /\ P!PairsPointAtSlots
      BY <1>1, SamePairs
    <2> HIDE DEF i, g
    <2>2. pairs'[slots'[i].item + 1] = P!Pair([idx |-> i, gen |-> g], v)
      BY <1>4, <2>1, P!OverwritesKeeps
    <2>3. /\ P!SlotsPointAtPairs' /\ P!PairsPointAtSlots' /\ slots'[i].gen = g
          /\ \A j \in 0 .. slots_len - 1 : j # i => P!Keeps(j)
          /\ pairs' \in Seq(P!AnyPair) /\ Len(pairs') = Len(pairs)
          /\ \A q \in 0 .. Len(pairs) - 1 : q # slots[i].item => pairs'[q + 1] = P!At(q)
      BY <1>4, <2>1, P!OverwritesKeeps
    <2>4. k = [idx |-> i, gen |-> g]
      BY <1>2 DEF Key
    <2>5. QED
      BY <2>2, <2>3, <2>4, SamePairs
  <1>6. P!PairsOK'
    BY <1>1, <1>5 DEF P!PairsOK, P!SlotsOK, P!AnyPair
  <1>7. Inlined'[i] = Slot(g, v)
    <2>1. i \in Positions' /\ Pair(k, v).value = v
      BY <1>2 DEF Positions, Pair
    <2>2. QED
      BY <1>2, <1>5, <2>1, InlinedNext
  <1>8. Inlined' = [Inlined EXCEPT ![i] = Inlined'[i]]
    BY <1>2, <1>5, Rewritten DEF Positions
  <1>9. ASSUME NEW q \in 0 .. Len(pairs) - 1 PROVE pairs'[q + 1].key = At(q).key
    <2>1. CASE q = slots[i].item
      <3>1. At(q).key = [idx |-> i, gen |-> g]
        BY <1>1, <1>2, <1>3, <2>1, SamePairs, P!OnePairEach
      <3>2. QED
        BY <1>2, <1>5, <2>1, <3>1 DEF Pair, Key
    <2>2. CASE q # slots[i].item
      BY <1>5, <2>2
    <2>3. QED
      BY <2>1, <2>2
  <1>10. QED
    BY <1>5, <1>6, <1>7, <1>8, <1>9

\* attach puts a value in a detached slot.
LEMMA AttachEffect ==
  ASSUME ConfigAssumption, G!IInv, PairsInv, NEW k \in Keys, NEW v \in Values, Attach(k, v)
  PROVE  /\ P!PairsOK' /\ SlotsPointAtPairs' /\ PairsPointAtSlots'
         /\ Inlined' = [Inlined EXCEPT ![k.idx] = Slot(k.gen, v)]
         /\ Len(pairs') = Len(pairs) + 1
  <1> DEFINE i == k.idx
             g == k.gen
  <1>0. /\ mode = "idle" /\ detached_slot(k) /\ slots_len' = slots_len
        /\ pairs' = Append(pairs, Pair(k, v))
        /\ slots' = [slots EXCEPT ![i] = Slot(g, Len(pairs))]
    BY DEF Attach
  <1>1. /\ P!PairsOK /\ SlotsPointAtPairs /\ PairsPointAtSlots /\ slots_len \in Nat
        /\ slots \in [0 .. slots_len - 1 -> [gen : Nat, item : Nat]]
    BY <1>0, SlotFacts DEF PairsInv, SlotsMatchPairs, P!PairsOK, P!SlotsOK
  <1>2. /\ i \in 0 .. slots_len - 1 /\ ~HoldsValue(i) /\ g \in OddGens /\ Odd(g) /\ g \in Nat
        /\ k = [idx |-> i, gen |-> g]
    BY <1>0, SameKeys DEF Positions, Keys, OddGens, Key
  <1>3. Len(pairs) \in Nat /\ Slot(g, Len(pairs)) \in [gen : Nat, item : Nat]
    BY <1>1, <1>2, SamePairs, P!Types DEF Slot
  <1>4. /\ slots' \in [0 .. slots_len - 1 -> [gen : Nat, item : Nat]]
        /\ slots'[i] = [gen |-> g, item |-> Len(pairs)]
        /\ \A j \in 0 .. slots_len - 1 : j # i => slots'[j] = slots[j]
    BY <1>0, <1>1, <1>2, <1>3 DEF Slot
  <1>5. P!Appends(i, g, v)
    <2>1. P!Odd(g) /\ ~P!Holds(i) /\ i \in Nat /\ i < slots_len
      BY <1>1, <1>2, SamePairs, SameNames
    <2>2. pairs' = Append(pairs, P!Pair([idx |-> i, gen |-> g], v))
      BY <1>0, <1>2, SamePairs
    <2>3. [idx |-> i, gen |-> g] \in Keys
      BY <1>2
    <2> HIDE DEF i, g
    <2>4. QED
      BY <1>0, <1>1, <1>4, <2>1, <2>2, <2>3 DEF P!Appends
  <1>6. /\ SlotsPointAtPairs' /\ PairsPointAtSlots' /\ slots'[i].gen = g
        /\ pairs'[slots'[i].item + 1] = Pair(k, v)
        /\ \A j \in 0 .. slots_len - 1 : j # i => P!Keeps(j)
        /\ pairs' \in Seq(P!AnyPair) /\ Len(pairs') = Len(pairs) + 1
    <2>1. P!PairsOK /\ P!SlotsPointAtPairs /\ P!PairsPointAtSlots
      BY <1>1, SamePairs
    <2> HIDE DEF i, g
    <2>2. /\ P!SlotsPointAtPairs' /\ P!PairsPointAtSlots' /\ slots'[i].gen = g
          /\ pairs'[slots'[i].item + 1] = P!Pair([idx |-> i, gen |-> g], v)
          /\ \A j \in 0 .. slots_len - 1 : j # i => P!Keeps(j)
          /\ pairs' \in Seq(P!AnyPair) /\ Len(pairs') = Len(pairs) + 1
      BY <1>5, <2>1, P!AppendsKeeps
    <2>3. k = [idx |-> i, gen |-> g]
      BY <1>2
    <2>4. QED
      BY <2>2, <2>3, SamePairs
  <1>7. P!PairsOK'
    BY <1>0, <1>1, <1>4, <1>6 DEF P!PairsOK, P!SlotsOK, P!AnyPair
  <1>8. Inlined'[i] = Slot(g, v)
    <2>1. i \in Positions' /\ Pair(k, v).value = v
      BY <1>0, <1>2 DEF Positions, Pair
    <2>2. QED
      BY <1>2, <1>6, <2>1, InlinedNext
  <1>9. Inlined' = [Inlined EXCEPT ![i] = Inlined'[i]]
    BY <1>0, <1>2, <1>6, Rewritten DEF Positions
  <1>10. QED
    BY <1>6, <1>7, <1>8, <1>9

-----------------------------------------------------------------------------
(* The number of values *)

LEMMA SameHeld ==
  /\ {i \in Positions : HoldsValue(i)} = G!Held
  /\ {i \in Positions : HoldsValue(i)}' = G!Held'
  <1>1. {i \in Positions : HoldsValue(i)} = G!Held
    BY InlinedSlot, SameNames DEF G!Held
  <1>2. ASSUME NEW i \in Positions' PROVE G!HoldsValue(i)' <=> HoldsValue(i)'
    BY <1>2, InlinedNext, SameNames DEF G!HoldsValue, HoldsValue
  <1>3. QED
    BY <1>1, <1>2, SameNames DEF G!Held

\* Both views count in the same way.
LEMMA SameCount ==
  ASSUME NEW S
  PROVE  G!Cardinality(S) = Cardinality(S) /\ (G!IsFiniteSet(S) <=> IsFiniteSet(S))
  BY DEF G!Cardinality, Cardinality, G!IsFiniteSet, IsFiniteSet

LEMMA HeldFinite ==
  ASSUME ConfigAssumption, G!IInv
  PROVE  IsFiniteSet(G!Held) /\ Cardinality(G!Held) \in 0 .. NoSlot
  <1>1. G!ConfigAssumption /\ G!FieldsOK
    BY SameConfig DEF G!IInv, G!DataOK
  <1>2. G!IsFiniteSet(G!Held) /\ G!Cardinality(G!Held) \in 0 .. NoSlot
    BY <1>1, G!HeldBounded
  <1>3. QED
    BY <1>2, SameCount

\* A value more, in a map that has no more slots than the index type can count.
LEMMA CountUp ==
  ASSUME ConfigAssumption, G!IInv, slots_len' \in Nat, slots_len' <= NoSlot,
         NEW x, x \notin G!Held, G!Held' = G!Held \union {x}
  PROVE  G!increment_len
  <1>1. IsFiniteSet(G!Held) /\ Cardinality(G!Held) \in 0 .. NoSlot
    BY HeldFinite
  <1>2. Cardinality(G!Held') = Cardinality(G!Held) + 1
    BY <1>1, FS_AddElement
  <1>3. Cardinality(G!Held') \in 0 .. slots_len'
    <2>1. G!Held' \in SUBSET (0 .. slots_len' - 1)
      BY SameNames DEF G!Held, Positions
    <2>2. G!Cardinality(G!Held') \in 0 .. slots_len'
      BY <2>1, G!PositionsBounded
    <2>3. QED
      BY <2>2, SameCount
  <1>4. Cardinality(G!Held) # NoSlot
    BY <1>1, <1>2, <1>3 DEF ConfigAssumption
  <1>5. QED
    BY <1>2, <1>4, SameHeld DEF G!increment_len

\* A value less.
LEMMA CountDown ==
  ASSUME ConfigAssumption, G!IInv, NEW x \in G!Held, G!Held' = G!Held \ {x}
  PROVE  G!decrement_len
  <1>1. IsFiniteSet(G!Held) /\ Cardinality(G!Held) \in 0 .. NoSlot
    BY HeldFinite
  <1>2. Cardinality(G!Held') = Cardinality(G!Held) - 1 /\ Cardinality(G!Held) # 0
    BY <1>1, FS_RemoveElement, FS_EmptySet
  <1>3. QED
    BY <1>2, SameHeld DEF G!decrement_len

-----------------------------------------------------------------------------
(* The steps, as those of a GenMap *)

\* What a slot becomes when its value goes, or is set aside for one.
LEMMA VacantSlots ==
  ASSUME ConfigAssumption, G!IInv, NEW i \in Nat, NEW g \in OddGens
  PROVE  /\ freed_parts(i, g).slot \in [gen : Nat, item : Nat]
         /\ ~Odd(freed_parts(i, g).slot.gen)
         /\ Slot(detached_generation(g), i) \in [gen : Nat, item : Nat]
         /\ ~Odd(Slot(detached_generation(g), i).gen)
         /\ Slot(0, NoSlot) \in [gen : Nat, item : Nat] /\ ~Odd(Slot(0, NoSlot).gen)
  <1>1. wrapping_next(g) \in Nat /\ ~Odd(wrapping_next(g)) /\ ~Odd(0)
    <2>1. G!ConfigAssumption /\ g \in G!OddGens
      BY SameConfig, SameNames
    <2>2. ~G!Odd(G!wrapping_next(g)) /\ ~G!Odd(0) /\ G!wrapping_next(g) \in 0 .. GenMax
      BY <2>1, G!NextOfOdd, G!ZeroIsEven
    <2>3. QED
      BY <2>2, SameNames
  <1>2. next_free \in Nat /\ NoSlot \in Nat
    BY SlotFacts DEF ConfigAssumption
  <1>3. QED
    BY <1>1, <1>2 DEF freed_parts, detached_generation, Slot

\* The slot i, which held a value, is freed or retires.
LEMMA TakenOut ==
  ASSUME ConfigAssumption, G!IInv, NEW i \in Positions, HoldsValue(i), freed(i),
         slots_len' = slots_len,
         Inlined' = [Inlined EXCEPT ![i] = freed_parts(i, slots[i].gen).slot]
  PROVE  G!take(i)
  <1>1. slots[i].gen \in OddGens /\ i \in Nat /\ slots_len \in Nat
    BY SlotFacts DEF Key, Keys, Positions
  <1>2. G!Free(i, Inlined[i].gen)
    BY InlinedSlot, SameNames DEF G!Free, freed
  <1>3. G!Held' = G!Held \ {i} /\ i \in G!Held
    <2>1. /\ G!ConfigAssumption /\ G!FieldsOK /\ i \in G!Positions /\ G!HoldsValue(i)
          /\ Inlined[i].gen \in G!OddGens
      BY <1>1, SameConfig, SameNames, InlinedSlot DEF G!IInv, G!DataOK
    <2>2. G!Held' = G!Held \ {i}
      BY <1>2, <2>1, G!HeldAfterFree
    <2>3. QED
      BY <2>1, <2>2 DEF G!Held
  <1>4. QED
    BY <1>2, <1>3, CountDown DEF G!take

\* ... and that is the removal of its key, whatever method does it.
LEMMA TakenKey ==
  ASSUME ConfigAssumption, G!IInv, NEW i \in Positions, HoldsValue(i), freed(i),
         slots_len' = slots_len, UNCHANGED <<mode, target, issued>>, mode # "entry",
         Inlined' = [Inlined EXCEPT ![i] = freed_parts(i, slots[i].gen).slot]
  PROVE  Key(i, slots[i].gen) \in Keys /\ G!Remove(Key(i, slots[i].gen))
  <1> DEFINE k == Key(i, slots[i].gen)
  <1>1. k \in Keys /\ k.idx = i /\ contains_key(k)
    BY SlotFacts DEF Key, contains_key
  <1>2. G!take(k.idx) /\ G!contains_key(k)
    BY <1>1, TakenOut, SameKeys
  <1> HIDE DEF k
  <1>3. G!Remove(k)
    BY <1>2 DEF G!Remove, G!call
  <1>4. QED
    BY <1>1, <1>3 DEF k

\* The slot of the target is filled, and its key handed out.
LEMMA Filled ==
  ASSUME ConfigAssumption, G!IInv, PairsInv, mode # "clear", NEW v \in Values,
         next_free = NoSlot => slots_len <= MaxIdx, fill(Target, v)
  PROVE  G!fill(G!Target, v)
  <1> DEFINE s == G!Slot(G!Target.gen, v)
  <1>1. G!Occupy(G!Target, s)
    BY FillEffect
  <1>2. G!Held' = G!Held \union {G!Target.idx} /\ G!Target.idx \notin G!Held
    <2>1. G!Odd(s.gen)
      BY SlotFacts, SameTarget, SameNames DEF Slot
    <2>2. G!ConfigAssumption
      BY SameConfig
    <2> HIDE DEF s
    <2>3. QED
      BY <1>1, <2>1, <2>2, G!HeldAfterOccupy
  <1>3. slots_len' \in Nat /\ slots_len' <= NoSlot
    <2>1. slots_len' = IF next_free = NoSlot THEN slots_len + 1 ELSE slots_len
      BY SameTarget DEF fill, Occupy, push, Target
    <2>2. QED
      BY <2>1, SlotFacts DEF ConfigAssumption
  <1>4. G!increment_len
    BY <1>2, <1>3, CountUp
  <1>5. G!Issue(G!Target)
    BY SameTarget, SameNames DEF fill, HandOut, G!Issue, G!HandOut
  <1>6. QED
    BY <1>1, <1>4, <1>5 DEF G!fill

\* next_target picks, and the GenMap has room for every slot that it picks.
LEMMA Picked ==
  ASSUME ConfigAssumption, G!IInv, next_target
  PROVE  G!next_target /\ (next_free = NoSlot => slots_len <= MaxIdx)
  BY SlotFacts DEF next_target, G!next_target, G!ensure_room, ConfigAssumption

\* ... and changes nothing else for the GenMap either.
LEMMA Still ==
  ASSUME UNCHANGED <<slots, slots_len, next_free, target, issued, retired>>,
         pairs' = pairs \/ \A i \in Positions : ~HoldsValue(i),
         mode' = mode \/ (mode # "entry" /\ mode' # "entry")
  PROVE  UNCHANGED G!vars
  BY SameInlined DEF G!vars

LEMMA InsertMaps ==
  ASSUME ConfigAssumption, G!IInv, PairsInv, NEW v \in Values, Insert(v)
  PROVE  G!Insert(v) /\ P!PairsOK' /\ SlotsPointAtPairs' /\ PairsPointAtSlots'
  <1>1. G!next_target /\ (next_free = NoSlot => slots_len <= MaxIdx)
    BY Picked DEF Insert
  <1>2. /\ mode = "idle" /\ fill(Target, v)
        /\ UNCHANGED <<mode, target, retired>>
    BY DEF Insert, call
  <1>3. P!PairsOK' /\ SlotsPointAtPairs' /\ PairsPointAtSlots'
    BY <1>1, <1>2, FillEffect
  <1>4. G!fill(G!Target, v)
    BY <1>1, <1>2, Filled
  <1>5. G!Insert(v)
    BY <1>1, <1>2, <1>4 DEF G!Insert, G!call
  <1>6. QED
    BY <1>3, <1>5

LEMMA EntryMaps ==
  ASSUME ConfigAssumption, G!IInv, PairsInv, NEW v \in Values, EntryInsert(v)
  PROVE  G!EntryInsert(v) /\ P!PairsOK' /\ SlotsPointAtPairs' /\ PairsPointAtSlots'
  <1>1. /\ mode = "entry" /\ fill(target, v) /\ mode' = "idle" /\ target' = NoTarget
        /\ retired' = retired
    BY DEF EntryInsert
  <1>2. target = Target /\ (next_free = NoSlot => slots_len <= MaxIdx)
    BY <1>1, SlotFacts
  <1>3. P!PairsOK' /\ SlotsPointAtPairs' /\ PairsPointAtSlots'
    BY <1>1, <1>2, FillEffect
  <1>4. G!fill(target, v)
    <2>1. fill(Target, v)
      BY <1>1, <1>2
    <2>2. G!fill(G!Target, v)
      BY <1>1, <1>2, <2>1, Filled
    <2>3. QED
      BY <1>2, <2>2, SameTarget
  <1>5. G!EntryInsert(v)
    BY <1>1, <1>4, SameNames DEF G!EntryInsert
  <1>6. QED
    BY <1>3, <1>5

LEMMA VacantEntryMaps ==
  ASSUME ConfigAssumption, G!IInv, VacantEntry
  PROVE  G!VacantEntry
  <1>1. G!next_target
    BY Picked DEF VacantEntry
  <1>2. /\ mode = "idle" /\ mode' = "entry" /\ target' = Target
        /\ UNCHANGED <<slots, slots_len, next_free, issued, retired, pairs>>
    BY DEF VacantEntry
  <1>3. QED
    BY <1>1, <1>2, SameInlined, SameTarget DEF G!VacantEntry, G!data

LEMMA ReserveKeyMaps ==
  ASSUME ConfigAssumption, G!IInv, PairsInv, ReserveKey
  PROVE  G!ReserveKey /\ P!PairsOK' /\ SlotsPointAtPairs' /\ PairsPointAtSlots'
  <1> DEFINE s == Slot(detached_generation(Target.gen), Target.idx)
  <1>1. G!next_target /\ (next_free = NoSlot => slots_len <= MaxIdx)
    BY Picked DEF ReserveKey
  <1>2. /\ mode = "idle" /\ Occupy(Target, s) /\ HandOut(Target)
        /\ UNCHANGED <<mode, target, retired, pairs>>
    BY DEF ReserveKey, call
  <1>3. s \in [gen : Nat, item : Nat] /\ ~Odd(s.gen)
    BY SlotFacts, VacantSlots
  <1>4. s = G!Slot(G!detached_generation(G!Target.gen), G!Target.idx)
    BY SameTarget, SameNames
  <1> HIDE DEF s
  <1>5. /\ P!PairsOK' /\ SlotsPointAtPairs' /\ PairsPointAtSlots'
        /\ G!Occupy(G!Target, s)
    BY <1>2, <1>3, ReserveEffect
  <1>6. G!Issue(G!Target)
    BY <1>2, SameTarget, SameNames DEF HandOut, G!Issue, G!HandOut
  <1>7. Cardinality({i \in Positions : HoldsValue(i)})' = Cardinality({i \in Positions : HoldsValue(i)})
    <2>1. G!Held' = G!Held
      <3>1. G!ConfigAssumption /\ ~G!Odd(s.gen)
        BY <1>3, SameConfig, SameNames
      <3>2. QED
        BY <1>1, <1>5, <3>1, G!HeldAfterOccupy
    <2>2. QED
      BY <2>1, SameHeld
  <1>8. G!ReserveKey
    BY <1>1, <1>2, <1>4, <1>5, <1>6, <1>7 DEF G!ReserveKey, G!call
  <1>9. QED
    BY <1>5, <1>8

\* One slot is rewritten: it joins those that hold a value, or leaves them.
LEMMA HeldNext ==
  ASSUME NEW i \in Positions, NEW s, slots_len' = slots_len,
         Inlined' = [Inlined EXCEPT ![i] = s]
  PROVE  /\ Odd(s.gen) => G!Held' = G!Held \union {i}
         /\ ~Odd(s.gen) => G!Held' = G!Held \ {i}
         /\ i \in G!Held <=> HoldsValue(i)
  <1>1. Positions' = Positions
    BY DEF Positions
  <1>2. Inlined'[i] = s /\ \A j \in Positions : j # i => Inlined'[j] = Inlined[j]
    BY InlinedNow
  <1>3. \A j \in Positions : HoldsValue(j)' <=> Odd(Inlined'[j].gen)
    BY <1>1, InlinedNext DEF HoldsValue
  <1>4. \A j \in Positions : HoldsValue(j) <=> Odd(Inlined[j].gen)
    BY InlinedSlot DEF HoldsValue
  <1>5. \A j \in Positions : HoldsValue(j)' <=> IF j = i THEN Odd(s.gen) ELSE HoldsValue(j)
    BY <1>2, <1>3, <1>4
  <1>6. {j \in Positions : HoldsValue(j)}' = {j \in Positions : HoldsValue(j)'}
    BY <1>1
  <1>7. QED
    BY <1>5, <1>6, SameHeld

\* A slot that held a value holds none afterwards: a value less.
LEMMA CountTaken ==
  ASSUME ConfigAssumption, G!IInv, NEW i \in Positions, HoldsValue(i), NEW s, ~Odd(s.gen),
         slots_len' = slots_len, Inlined' = [Inlined EXCEPT ![i] = s]
  PROVE  G!decrement_len
  <1>1. i \in G!Held /\ G!Held' = G!Held \ {i}
    BY HeldNext
  <1>2. QED
    BY <1>1, CountDown

\* A slot that held none holds one: a value more.
LEMMA CountPut ==
  ASSUME ConfigAssumption, G!IInv, NEW i \in Positions, ~HoldsValue(i), NEW s, Odd(s.gen),
         slots_len' = slots_len, Inlined' = [Inlined EXCEPT ![i] = s]
  PROVE  G!increment_len
  <1>1. i \notin G!Held /\ G!Held' = G!Held \union {i}
    BY HeldNext
  <1>2. slots_len' \in Nat /\ slots_len' <= NoSlot
    BY SlotFacts DEF ConfigAssumption
  <1>3. QED
    BY <1>1, <1>2, CountUp

\* A slot that holds a value before and after, or neither: as many values.
LEMMA CountSame ==
  ASSUME NEW i \in Positions, NEW s, HoldsValue(i) <=> Odd(s.gen),
         slots_len' = slots_len, Inlined' = [Inlined EXCEPT ![i] = s]
  PROVE  Cardinality({j \in Positions : HoldsValue(j)})'
           = Cardinality({j \in Positions : HoldsValue(j)})
  <1>1. CASE HoldsValue(i)
    BY <1>1, HeldNext, SameHeld
  <1>2. CASE ~HoldsValue(i)
    BY <1>2, HeldNext, SameHeld
  <1>3. QED
    BY <1>1, <1>2

LEMMA RemoveMaps ==
  ASSUME ConfigAssumption, G!IInv, PairsInv, NEW k \in Keys, Remove(k)
  PROVE  /\ G!Remove(k) /\ P!PairsOK' /\ SlotsPointAtPairs' /\ PairsPointAtSlots'
         /\ Len(pairs') = Len(pairs) - 1
  <1> DEFINE i == k.idx
             s == freed_parts(i, k.gen).slot
  <1>1. /\ mode = "idle" /\ contains_key(k) /\ freed(i)
        /\ swap_remove(i, s, slots[i].item) /\ UNCHANGED <<mode, target, issued>>
    BY DEF Remove, call
  <1>2. /\ i \in Positions /\ HoldsValue(i) /\ k = Key(i, k.gen)
        /\ slots[i].gen = k.gen /\ k.gen \in OddGens /\ i \in Nat
    BY <1>1, SameKeys DEF contains_key, Keys, OddGens
  <1>3. s \in [gen : Nat, item : Nat] /\ ~Odd(s.gen)
    BY <1>2, VacantSlots
  <1>4. /\ P!PairsOK' /\ SlotsPointAtPairs' /\ PairsPointAtSlots'
        /\ slots_len' = slots_len /\ Inlined' = [Inlined EXCEPT ![i] = s]
        /\ Len(pairs') = Len(pairs) - 1
    <2> HIDE DEF i, s
    <2>1. QED
      BY <1>1, <1>2, <1>3, SwapEffect
  <1>5. G!Remove(k)
    <2> HIDE DEF i
    <2>1. G!Remove(Key(i, slots[i].gen))
      BY <1>1, <1>2, <1>4, TakenKey
    <2>2. QED
      BY <1>2, <2>1
  <1>6. QED
    BY <1>4, <1>5

LEMMA RetireMaps ==
  ASSUME ConfigAssumption, G!IInv, PairsInv, NEW k \in Keys, Retire(k)
  PROVE  /\ G!Retire(k) /\ P!PairsOK' /\ SlotsPointAtPairs' /\ PairsPointAtSlots'
         /\ Len(pairs') = Len(pairs) - 1
  <1> DEFINE i == k.idx
             s == Slot(0, NoSlot)
  <1>1. /\ mode = "idle" /\ contains_key(k) /\ retired' = retired \union {i}
        /\ swap_remove(i, s, slots[i].item) /\ UNCHANGED <<mode, target, issued, next_free>>
    BY DEF Retire, call
  <1>2. i \in Positions /\ HoldsValue(i) /\ k.gen \in OddGens /\ i \in Nat
    BY <1>1, SameKeys DEF Keys, OddGens
  <1>3. s \in [gen : Nat, item : Nat] /\ ~Odd(s.gen)
    BY <1>2, VacantSlots
  <1> HIDE DEF s
  <1>4. /\ P!PairsOK' /\ SlotsPointAtPairs' /\ PairsPointAtSlots'
        /\ slots_len' = slots_len /\ Inlined' = [Inlined EXCEPT ![i] = s]
        /\ Len(pairs') = Len(pairs) - 1
    <2> HIDE DEF i
    <2>1. QED
      BY <1>1, <1>2, <1>3, SwapEffect
  <1>5. G!decrement_len
    BY <1>2, <1>3, <1>4, CountTaken
  <1>6. G!contains_key(k) /\ s = G!Slot(0, NoSlot)
    BY <1>1, SameKeys, SameNames DEF s
  <1>7. G!Retire(k)
    BY <1>1, <1>4, <1>5, <1>6 DEF G!Retire, G!call
  <1>8. QED
    BY <1>4, <1>7

LEMMA DetachMaps ==
  ASSUME ConfigAssumption, G!IInv, PairsInv, NEW k \in Keys, Detach(k)
  PROVE  /\ G!Detach(k) /\ P!PairsOK' /\ SlotsPointAtPairs' /\ PairsPointAtSlots'
         /\ Len(pairs') = Len(pairs) - 1
  <1> DEFINE i == k.idx
             s == Slot(detached_generation(k.gen), i)
  <1>1. /\ mode = "idle" /\ contains_key(k)
        /\ swap_remove(i, s, slots[i].item)
        /\ UNCHANGED <<mode, target, issued, next_free, retired>>
    BY DEF Detach, call
  <1>2. i \in Positions /\ HoldsValue(i) /\ k.gen \in OddGens /\ i \in Nat
    BY <1>1, SameKeys DEF Keys, OddGens
  <1>3. s \in [gen : Nat, item : Nat] /\ ~Odd(s.gen)
    BY <1>2, VacantSlots
  <1>4. s = G!Slot(G!detached_generation(k.gen), i)
    BY SameNames
  <1> HIDE DEF s
  <1>5. /\ P!PairsOK' /\ SlotsPointAtPairs' /\ PairsPointAtSlots'
        /\ slots_len' = slots_len /\ Inlined' = [Inlined EXCEPT ![i] = s]
        /\ Len(pairs') = Len(pairs) - 1
    <2> HIDE DEF i
    <2>1. QED
      BY <1>1, <1>2, <1>3, SwapEffect
  <1>6. G!decrement_len
    BY <1>2, <1>3, <1>5, CountTaken
  <1>7. G!contains_key(k)
    BY <1>1, SameKeys
  <1>8. G!Detach(k)
    BY <1>1, <1>4, <1>5, <1>6, <1>7 DEF G!Detach, G!call
  <1>9. QED
    BY <1>5, <1>8

LEMMA AttachMaps ==
  ASSUME ConfigAssumption, G!IInv, PairsInv, NEW k \in Keys, NEW v \in Values, Attach(k, v)
  PROVE  G!Attach(k, v) /\ P!PairsOK' /\ SlotsPointAtPairs' /\ PairsPointAtSlots'
  <1>1. /\ mode = "idle" /\ detached_slot(k) /\ slots_len' = slots_len
        /\ UNCHANGED <<mode, target, issued, next_free, retired>>
    BY DEF Attach, call
  <1>2. /\ P!PairsOK' /\ SlotsPointAtPairs' /\ PairsPointAtSlots'
        /\ Inlined' = [Inlined EXCEPT ![k.idx] = Slot(k.gen, v)]
    BY AttachEffect
  <1>3. k.idx \in Positions /\ ~HoldsValue(k.idx) /\ Odd(k.gen) /\ Slot(k.gen, v).gen = k.gen
    BY <1>1, SameKeys DEF Keys, OddGens, Slot
  <1>4. G!increment_len
    BY <1>1, <1>2, <1>3, CountPut
  <1>5. G!detached_slot(k) /\ Slot(k.gen, v) = G!Slot(k.gen, v)
    BY <1>1, SameKeys, SameNames
  <1>6. G!Attach(k, v)
    BY <1>1, <1>2, <1>4, <1>5 DEF G!Attach, G!call
  <1>7. QED
    BY <1>2, <1>6

\* The caller writes the value of k, in mode idle or, as f, while retain runs.
LEMMA WriteMaps ==
  ASSUME ConfigAssumption, G!IInv, PairsInv, mode # "clear", mode # "entry",
         NEW k \in Keys, contains_key(k), NEW v \in Values,
         UNCHANGED <<slots, slots_len, mode, target, issued, next_free, retired>>,
         pairs' = [pairs EXCEPT ![slots[k.idx].item + 1] = Pair(k, v)]
  PROVE  G!Write(k, v) /\ P!PairsOK' /\ SlotsPointAtPairs' /\ PairsPointAtSlots'
  <1>1. /\ P!PairsOK' /\ SlotsPointAtPairs' /\ PairsPointAtSlots'
        /\ Inlined' = [Inlined EXCEPT ![k.idx] = Slot(k.gen, v)]
    BY WriteEffect
  <1>2. k.idx \in Positions /\ HoldsValue(k.idx) /\ Odd(k.gen) /\ Slot(k.gen, v).gen = k.gen
    BY SameKeys DEF Keys, OddGens, Slot
  <1>3. Cardinality({j \in Positions : HoldsValue(j)})'
          = Cardinality({j \in Positions : HoldsValue(j)})
    BY <1>1, <1>2, CountSame
  <1>4. G!contains_key(k) /\ Slot(k.gen, v) = G!Slot(k.gen, v)
    BY SameKeys, SameNames
  <1>5. G!Write(k, v)
    BY <1>1, <1>3, <1>4 DEF G!Write, G!call
  <1>6. QED
    BY <1>1, <1>5

LEMMA ReleaseMaps ==
  ASSUME ConfigAssumption, G!IInv, PairsInv, NEW k \in Keys, Release(k)
  PROVE  G!Release(k) /\ P!PairsOK' /\ SlotsPointAtPairs' /\ PairsPointAtSlots'
  <1> DEFINE i == k.idx
             s == freed_parts(i, k.gen).slot
  <1>1. /\ mode = "idle" /\ detached_slot(k) /\ Free(i, k.gen)
        /\ UNCHANGED <<mode, target, issued, pairs>>
    BY DEF Release, call
  <1>2. i \in Positions /\ ~HoldsValue(i) /\ k.gen \in OddGens /\ i \in Nat
    BY <1>1, SameKeys DEF Keys, OddGens
  <1>3. s \in [gen : Nat, item : Nat] /\ ~Odd(s.gen)
    BY <1>2, VacantSlots
  <1>4. slots' = [slots EXCEPT ![i] = s] /\ slots_len' = slots_len
    BY <1>1 DEF Free
  <1>5. PairsPointAtSlots
    BY <1>1 DEF PairsInv, SlotsMatchPairs
  <1>6. s = G!freed_parts(i, k.gen).slot
    BY SameNames
  <1> HIDE DEF s
  <1>7. /\ P!PairsOK' /\ SlotsPointAtPairs' /\ PairsPointAtSlots'
        /\ Inlined' = [Inlined EXCEPT ![i] = s]
    <2> HIDE DEF i
    <2>1. QED
      BY <1>1, <1>2, <1>3, <1>4, <1>5, VacateEffect
  <1>8. Cardinality({j \in Positions : HoldsValue(j)})'
          = Cardinality({j \in Positions : HoldsValue(j)})
    BY <1>2, <1>3, <1>4, <1>7, CountSame
  <1>9. G!Free(i, k.gen)
    BY <1>1, <1>4, <1>6, <1>7, SameNames DEF Free, G!Free
  <1>10. G!detached_slot(k)
    BY <1>1, SameKeys
  <1>11. G!Release(k)
    BY <1>1, <1>8, <1>9, <1>10 DEF G!Release, G!call
  <1>12. QED
    BY <1>7, <1>11

\* While clear does not run, the key of every pair has the value of the pair.
LEMMA PairKey ==
  ASSUME ConfigAssumption, G!IInv, PairsInv, mode # "clear", NEW p \in 0 .. Len(pairs) - 1
  PROVE  /\ At(p).key \in Keys /\ contains_key(At(p).key)
         /\ At(p).key.idx \in Positions /\ HoldsValue(At(p).key.idx)
         /\ slots[At(p).key.idx].item = p /\ slots[At(p).key.idx].gen = At(p).key.gen
         /\ At(p).key = Key(At(p).key.idx, At(p).key.gen)
  <1> DEFINE k == At(p).key
  <1>1. P!PairsOK /\ P!PairsPointAtSlots
    BY SamePairs DEF PairsInv, SlotsMatchPairs
  <1>2. /\ P!At(p).key.idx \in 0 .. slots_len - 1 /\ P!Holds(P!At(p).key.idx)
        /\ slots[P!At(p).key.idx].item = p
        /\ slots[P!At(p).key.idx].gen = P!At(p).key.gen
    BY <1>1, P!OneKeyEach
  <1>3. /\ P!At(p).key \in Keys
        /\ P!At(p).key = [idx |-> P!At(p).key.idx, gen |-> P!At(p).key.gen]
    BY <1>1, P!Types
  <1>4. P!At(p) = At(p)
    BY SamePairs
  <1>5. /\ k \in Keys /\ k.idx \in 0 .. slots_len - 1 /\ HoldsValue(k.idx)
        /\ slots[k.idx].item = p /\ slots[k.idx].gen = k.gen
        /\ k = [idx |-> k.idx, gen |-> k.gen]
    BY <1>2, <1>3, <1>4, SamePairs
  <1> HIDE DEF k
  <1>6. k.idx \in Positions /\ contains_key(k) /\ k = Key(k.idx, k.gen)
    BY <1>5 DEF Positions, contains_key, Key
  <1>7. QED
    BY <1>5, <1>6 DEF k

\* retain and drain take a value out as remove does.
LEMMA DropMaps ==
  ASSUME ConfigAssumption, G!IInv, PairsInv, mode # "clear", mode # "entry",
         NEW i \in Positions, HoldsValue(i), freed(i), NEW p, p = slots[i].item,
         swap_remove(i, freed_parts(i, slots[i].gen).slot, p),
         UNCHANGED <<mode, target, issued>>
  PROVE  /\ \E k \in Keys : G!Remove(k)
         /\ P!PairsOK' /\ SlotsPointAtPairs' /\ PairsPointAtSlots'
         /\ Len(pairs') = Len(pairs) - 1
         /\ \A q \in 0 .. Len(pairs) - 2 :
              pairs'[q + 1] = IF q = p THEN At(Len(pairs) - 1) ELSE At(q)
  <1> DEFINE s == freed_parts(i, slots[i].gen).slot
  <1>1. slots[i].gen \in OddGens /\ i \in Nat
    BY SlotFacts DEF Key, Keys, Positions
  <1>2. s \in [gen : Nat, item : Nat] /\ ~Odd(s.gen)
    BY <1>1, VacantSlots
  <1>3. swap_remove(i, s, p)
    OBVIOUS
  <1>4. /\ P!PairsOK' /\ SlotsPointAtPairs' /\ PairsPointAtSlots'
        /\ slots_len' = slots_len /\ Inlined' = [Inlined EXCEPT ![i] = s]
        /\ Len(pairs') = Len(pairs) - 1
        /\ \A q \in 0 .. Len(pairs) - 2 :
              pairs'[q + 1] = IF q = p THEN At(Len(pairs) - 1) ELSE At(q)
    <2> HIDE DEF s
    <2>1. QED
      BY <1>2, <1>3, SwapEffect
  <1>5. Key(i, slots[i].gen) \in Keys /\ G!Remove(Key(i, slots[i].gen))
    BY <1>4, TakenKey
  <1>6. QED
    BY <1>4, <1>5

LEMMA RetainDropMaps ==
  ASSUME ConfigAssumption, G!IInv, PairsInv, position \in Nat, RetainDrop
  PROVE  /\ \E k \in Keys : G!Remove(k)
         /\ P!PairsOK' /\ SlotsPointAtPairs' /\ PairsPointAtSlots'
         /\ Len(pairs') = Len(pairs) - 1
         /\ \A q \in 0 .. Len(pairs) - 2 :
              pairs'[q + 1] = IF q = position THEN At(Len(pairs) - 1) ELSE At(q)
  <1> DEFINE i == At(position).key.idx
  <1>1. /\ mode = "retain" /\ position < Len(pairs) /\ freed(i)
        /\ swap_remove(i, freed_parts(i, slots[i].gen).slot, position)
        /\ UNCHANGED <<mode, target, issued>>
    BY DEF RetainDrop
  <1>2. position \in 0 .. Len(pairs) - 1
    BY <1>1, SamePairs, P!Types DEF PairsInv
  <1>3. i \in Positions /\ HoldsValue(i) /\ position = slots[i].item
    BY <1>1, <1>2, PairKey
  <1> HIDE DEF i
  <1>4. QED
    BY <1>1, <1>3, DropMaps

LEMMA DrainNextMaps ==
  ASSUME ConfigAssumption, G!IInv, PairsInv, DrainNext
  PROVE  /\ \E k \in Keys : G!Remove(k)
         /\ P!PairsOK' /\ SlotsPointAtPairs' /\ PairsPointAtSlots'
         /\ Len(pairs') = Len(pairs) - 1
  <1> DEFINE last == Len(pairs) - 1
             i == At(last).key.idx
             s == freed_parts(i, slots[i].gen).slot
  <1>1. /\ mode = "drain" /\ pairs # <<>> /\ Free(i, slots[i].gen)
        /\ pairs' = SubSeq(pairs, 1, last) /\ UNCHANGED <<mode, target, issued>>
    BY DEF DrainNext, call
  <1>2. last \in 0 .. Len(pairs) - 1
    BY <1>1 DEF PairsInv, P!PairsOK
  <1>3. i \in Positions /\ HoldsValue(i) /\ slots[i].item = last
    BY <1>1, <1>2, PairKey
  <1>4. freed(i) /\ slots' = [slots EXCEPT ![i] = s] /\ slots_len' = slots_len
    BY <1>1 DEF Free, freed
  <1>5. swap_remove(i, s, last)
    <2>1. P!PairsOK /\ P!SlotsPointAtPairs /\ i \in 0 .. slots_len - 1 /\ P!Holds(i)
      BY <1>3, SamePairs DEF PairsInv, SlotsMatchPairs, Positions
    <2> HIDE DEF i, s
    <2>2. P!swap_remove(i, s, last)
      BY <1>1, <1>3, <1>4, <2>1, P!LastIsSwap
    <2>3. QED
      BY <2>2 DEF swap_remove, P!swap_remove, At, P!At
  <1> HIDE DEF last, i
  <1>6. Len(pairs) - 1 = last
    BY DEF last
  <1>7. QED
    BY <1>1, <1>3, <1>4, <1>5, DropMaps

LEMMA ClearSlotMaps ==
  ASSUME ConfigAssumption, G!IInv, PairsInv, position \in Nat, ClearSlot
  PROVE  /\ (\E k \in Keys : G!Remove(k)) \/ UNCHANGED G!vars
         /\ P!PairsOK' /\ SlotsPointAtPairs'
         /\ ~Odd(slots'[position].gen) /\ slots_len' = slots_len
         /\ \A j \in Positions : j # position => slots'[j] = slots[j]
  <1> DEFINE i == position
             s == freed_parts(i, slots[i].gen).slot
  <1>1. /\ mode = "clear" /\ i < slots_len
        /\ UNCHANGED <<mode, target, issued, pairs>>
    BY DEF ClearSlot
  <1>2. i \in Positions /\ P!PairsOK /\ SlotsPointAtPairs
    BY <1>1, SlotFacts DEF Positions, PairsInv, SlotsMatchPairs
  <1>3. CASE HoldsValue(i)
    <2>1. Free(i, slots[i].gen) /\ slots[i].gen \in OddGens /\ i \in Nat
      BY <1>2, <1>3, SlotFacts DEF ClearSlot, Key, Keys
    <2>2. freed(i) /\ slots' = [slots EXCEPT ![i] = s] /\ slots_len' = slots_len
      BY <2>1 DEF Free, freed
    <2>3. s \in [gen : Nat, item : Nat] /\ ~Odd(s.gen)
      BY <2>1, VacantSlots
    <2>4. Inlined' = [Inlined EXCEPT ![i] = s] /\ P!PairsOK' /\ SlotsPointAtPairs'
      <3> HIDE DEF s
      <3>1. QED
        BY <1>1, <1>2, <2>2, <2>3, VacateEffect
    <2>5. \E k \in Keys : G!Remove(k)
      BY <1>1, <1>2, <1>3, <2>2, <2>4, TakenKey
    <2>6. slots'[i] = s /\ \A j \in Positions : j # i => slots'[j] = slots[j]
      BY <1>2, <2>2 DEF P!PairsOK, P!SlotsOK, Positions
    <2>7. QED
      BY <2>2, <2>3, <2>4, <2>5, <2>6 DEF HoldsValue
  <1>4. CASE ~HoldsValue(i)
    <2>1. UNCHANGED <<slots, slots_len, next_free, retired>>
      BY <1>4 DEF ClearSlot
    <2>2. UNCHANGED G!vars
      BY <1>1, <2>1, Still
    <2>3. P!PairsOK' /\ SlotsPointAtPairs'
      BY <1>1, <1>2, <2>1 DEF P!PairsOK, P!SlotsOK, SlotsPointAtPairs, At
    <2>4. QED
      BY <1>4, <2>1, <2>2, <2>3 DEF HoldsValue
  <1>5. QED
    BY <1>3, <1>4

-----------------------------------------------------------------------------
(* Every step is one of a GenMap, and keeps slots and pairs together *)

LoopInv ==
  /\ mode \in {"idle", "entry", "clear", "retain", "drain"}
  /\ position \in Nat
  /\ mode = "clear" => /\ position <= slots_len
                       /\ \A i \in Positions : i < position => ~HoldsValue(i)
  /\ mode = "retain" => position <= Len(pairs)
  /\ mode \notin {"clear", "retain"} => position = 0
  /\ mode # "retain" => visited = {}
  /\ visited \subseteq Keys
  /\ RetainSeesEachOnce

\* What a step does to both, whatever the step.
Sound ==
  /\ [G!Next]_(G!vars)
  /\ P!PairsOK' /\ SlotsPointAtPairs' /\ (mode' # "clear" => PairsPointAtSlots')

\* A step that changes neither the slots nor the pairs.
LEMMA QuietSound ==
  ASSUME ConfigAssumption, PairsInv,
         UNCHANGED <<slots, slots_len, next_free, pairs, issued, retired>>,
         \/ UNCHANGED target /\ (mode' = mode \/ (mode = "idle" /\ mode' # "entry"))
         \/ mode \in {"retain", "drain"} /\ mode' = "idle" /\ target' = target
         \/ G!Next /\ mode # "clear"
  PROVE  Sound
  <1>1. P!PairsOK' /\ SlotsPointAtPairs'
    BY DEF PairsInv, SlotsMatchPairs, P!PairsOK, P!SlotsOK, SlotsPointAtPairs, At
  <1>2. mode' # "clear" => PairsPointAtSlots'
    BY DEF PairsInv, SlotsMatchPairs, PairsPointAtSlots, At
  <1>3. G!Next \/ UNCHANGED G!vars
    BY Still
  <1>4. QED
    BY <1>1, <1>2, <1>3 DEF Sound

LEMMA StepMaps ==
  ASSUME ConfigAssumption, G!IInv, PairsInv, LoopInv, [Next]_vars
  PROVE  Sound
  <1>0. position \in Nat
    BY DEF LoopInv
  <1>1. ASSUME NEW v \in Values, Insert(v) PROVE Sound
    BY <1>1, InsertMaps DEF Sound, G!Next
  <1>2. CASE VacantEntry
    <2>1. G!Next
      BY <1>2, VacantEntryMaps DEF G!Next
    <2>2. QED
      BY <1>2, <2>1, QuietSound DEF VacantEntry
  <1>3. ASSUME NEW v \in Values, EntryInsert(v) PROVE Sound
    BY <1>3, EntryMaps DEF Sound, G!Next
  <1>4. CASE ReserveKey
    BY <1>4, ReserveKeyMaps DEF Sound, G!Next
  <1>5. ASSUME NEW n, Reserve(n) \/ PairsRefuse(n) PROVE Sound
    BY <1>5, QuietSound DEF Reserve, PairsRefuse, call
  <1>6. ASSUME NEW k \in Keys, KeyStep(k) PROVE Sound
    <2>1. CASE Remove(k)
      BY <2>1, RemoveMaps, SameNames DEF Sound, G!Next, G!KeyStep
    <2>2. CASE Retire(k)
      BY <2>2, RetireMaps, SameNames DEF Sound, G!Next, G!KeyStep
    <2>3. CASE Detach(k)
      BY <2>3, DetachMaps, SameNames DEF Sound, G!Next, G!KeyStep
    <2>4. CASE Release(k)
      BY <2>4, ReleaseMaps, SameNames DEF Sound, G!Next, G!KeyStep
    <2>5. ASSUME NEW v \in Values, Attach(k, v) PROVE Sound
      BY <2>5, AttachMaps, SameNames DEF Sound, G!Next, G!KeyStep
    <2>6. ASSUME NEW v \in Values, Write(k, v) PROVE Sound
      <3>1. G!Write(k, v) /\ P!PairsOK' /\ SlotsPointAtPairs' /\ PairsPointAtSlots'
        BY <2>6, WriteMaps DEF Write, call
      <3>2. QED
        BY <3>1, SameNames DEF Sound, G!Next, G!KeyStep
    <2>7. QED
      BY <1>6, <2>1, <2>2, <2>3, <2>4, <2>5, <2>6 DEF KeyStep
  <1>7. ASSUME NEW m \in {"clear", "retain", "drain"}, Begin(m) PROVE Sound
    BY <1>7, QuietSound DEF Begin
  <1>8. CASE ClearSlot
    <2>1. mode' = "clear"
      BY <1>8 DEF ClearSlot
    <2>2. /\ (\E k \in Keys : G!Remove(k)) \/ UNCHANGED G!vars
          /\ P!PairsOK' /\ SlotsPointAtPairs'
      BY <1>0, <1>8, ClearSlotMaps
    <2>3. QED
      BY <2>1, <2>2, SameNames DEF Sound, G!Next, G!KeyStep
  <1>9. CASE ClearPairs
    <2>1. /\ mode = "clear" /\ mode' = "idle" /\ pairs' = <<>>
          /\ UNCHANGED <<slots, slots_len, next_free, target, issued, retired>>
          /\ \A i \in Positions : ~HoldsValue(i)
      BY <1>9 DEF ClearPairs, LoopInv, Positions
    <2>2. UNCHANGED G!vars
      BY <2>1, Still
    <2>3. pairs' \in Seq(P!AnyPair)' /\ Len(pairs') = 0
      BY <2>1
    <2>4. P!PairsOK' /\ SlotsPointAtPairs' /\ PairsPointAtSlots'
      BY <2>1, <2>3 DEF PairsInv, P!PairsOK, P!SlotsOK, P!AnyPair, SlotsPointAtPairs,
                        PairsPointAtSlots, HoldsValue, Positions, Odd
    <2>5. QED
      BY <2>2, <2>4 DEF Sound
  <1>10. ASSUME NEW v \in Values, RetainKeep(v) PROVE Sound
    <2> DEFINE k == At(position).key
    <2>1. /\ mode = "retain" /\ position \in 0 .. Len(pairs) - 1
          /\ UNCHANGED <<slots, slots_len, mode, target, issued, next_free, retired>>
          /\ pairs' = [pairs EXCEPT ![position + 1] = Pair(k, v)]
      BY <1>0, <1>10, SamePairs, P!Types DEF RetainKeep, PairsInv
    <2>2. k \in Keys /\ contains_key(k) /\ slots[k.idx].item = position
      BY <2>1, PairKey
    <2> HIDE DEF k
    <2>3. G!Write(k, v) /\ P!PairsOK' /\ SlotsPointAtPairs' /\ PairsPointAtSlots'
      BY <2>1, <2>2, WriteMaps
    <2>4. QED
      BY <2>2, <2>3, SameNames DEF Sound, G!Next, G!KeyStep
  <1>11. CASE RetainDrop
    <2>1. /\ \E k \in Keys : G!Remove(k)
          /\ P!PairsOK' /\ SlotsPointAtPairs' /\ PairsPointAtSlots'
      BY <1>0, <1>11, RetainDropMaps
    <2>2. QED
      BY <2>1, SameNames DEF Sound, G!Next, G!KeyStep
  <1>12. CASE DrainNext
    <2>1. /\ \E k \in Keys : G!Remove(k)
          /\ P!PairsOK' /\ SlotsPointAtPairs' /\ PairsPointAtSlots'
      BY <1>12, DrainNextMaps
    <2>2. QED
      BY <2>1, SameNames DEF Sound, G!Next, G!KeyStep
  <1>13. CASE Finish
    BY <1>13, QuietSound DEF Finish
  <1>14. CASE Abandon
    <2>1. CASE mode = "entry"
      <3>1. G!Abandon
        BY <1>14, <2>1, SameInlined, SameNames DEF Abandon, G!Abandon, G!data
      <3>2. QED
        BY <1>14, <2>1, <3>1, QuietSound DEF Abandon, G!Next
    <2>2. CASE mode # "entry"
      <3>1. target = NoTarget
        BY <2>2, SlotFacts
      <3>2. QED
        BY <1>14, <2>2, <3>1, QuietSound DEF Abandon
    <2>3. QED
      BY <2>1, <2>2
  <1>15. CASE Reset
    <2>1. /\ mode = "idle" /\ slots_len' = 0 /\ pairs' = <<>>
          /\ UNCHANGED <<mode, target>>
          /\ next_free' = NoSlot /\ issued' = {} /\ retired' = {}
          /\ slots' = [i \in {} |-> Slot(0, NoSlot)]
      BY <1>15 DEF Reset, call
    <2>2. Positions' = {}
      BY <2>1 DEF Positions
    <2>3. Inlined' = [i \in {} |-> G!Slot(0, NoSlot)]
      BY <2>2, InlinedAfter
    <2>4. Cardinality({j \in Positions : HoldsValue(j)})' = 0
      BY <2>2, FS_EmptySet
    <2>5. G!Reset
      BY <2>1, <2>3, <2>4 DEF G!Reset, G!call
    <2>6. pairs' \in Seq(P!AnyPair)' /\ Len(pairs') = 0
      BY <2>1
    <2>7. slots' \in [0 .. -1 -> [gen : Nat, item : Nat]]
      BY <2>1
    <2>8. P!PairsOK' /\ SlotsPointAtPairs' /\ PairsPointAtSlots'
      BY <2>1, <2>6, <2>7 DEF PairsInv, P!PairsOK, P!SlotsOK, P!AnyPair, SlotsPointAtPairs,
                        PairsPointAtSlots
    <2>9. QED
      BY <2>5, <2>8 DEF Sound, G!Next
  <1>16. CASE UNCHANGED vars
    BY <1>16, QuietSound DEF vars
  <1>17. QED
    BY <1>1, <1>2, <1>3, <1>4, <1>5, <1>6, <1>7, <1>8, <1>9, <1>10, <1>11, <1>12, <1>13,
       <1>14, <1>15, <1>16 DEF Next, LoopStep

-----------------------------------------------------------------------------
(* The loops *)

\* The pairs never outnumber the slots.
LEMMA StepPairs ==
  ASSUME ConfigAssumption, G!IInv, PairsInv, LoopInv, [Next]_vars
  PROVE  PairsInv'
  <1>1. P!PairsOK' /\ SlotsPointAtPairs' /\ (mode' # "clear" => PairsPointAtSlots')
    BY StepMaps DEF Sound
  <1>2. CASE mode' # "clear"
    <2>1. Len(pairs') <= slots_len'
      BY <1>1, <1>2, SamePairs, P!PairsFitNext
    <2>2. QED
      BY <1>1, <2>1 DEF PairsInv, SlotsMatchPairs
  <1>3. CASE mode' = "clear"
    <2>1. UNCHANGED <<pairs, slots_len>>
      <3>1. CASE ClearSlot
        BY <3>1 DEF ClearSlot, Free
      <3>2. ASSUME NEW m, Begin(m) PROVE UNCHANGED <<pairs, slots_len>>
        BY <3>2 DEF Begin
      <3>3. CASE UNCHANGED vars
        BY <3>3 DEF vars
      <3>4. QED
        BY <1>3, <3>1, <3>2, <3>3
        DEF Next, LoopStep, KeyStep, Insert, VacantEntry, EntryInsert, ReserveKey, Reserve,
            PairsRefuse, Remove, Retire, Detach, Attach, Release, Write, ClearPairs,
            RetainKeep, RetainDrop, DrainNext, Finish, Abandon, Reset, call
    <2>2. QED
      BY <1>1, <1>3, <2>1 DEF PairsInv, SlotsMatchPairs
  <1>4. QED
    BY <1>2, <1>3

\* No method that has a position is in progress.
LEMMA Calm ==
  ASSUME mode' \in {"idle", "entry", "drain"}, position' = 0, visited' = {}
  PROVE  LoopInv'
  BY DEF LoopInv, RetainSeesEachOnce

\* What retain has seen after a step in which f saw the value at the position.
LEMMA SeenOnce ==
  ASSUME ConfigAssumption, G!IInv, PairsInv, LoopInv, mode = "retain", mode' = "retain",
         position \in 0 .. Len(pairs) - 1, visited' = visited \union {At(position).key},
         \/ /\ position' = position + 1 /\ Len(pairs') = Len(pairs)
            /\ \A q \in 0 .. Len(pairs) - 1 : pairs'[q + 1].key = At(q).key
         \/ /\ position' = position /\ Len(pairs') = Len(pairs) - 1
            /\ \A q \in 0 .. Len(pairs) - 2 :
                 pairs'[q + 1] = IF q = position THEN At(Len(pairs) - 1) ELSE At(q)
  PROVE  LoopInv'
  <1> DEFINE key(p) == At(p).key
             last == Len(pairs) - 1
  <1>1. /\ visited \subseteq Keys
        /\ \A p \in 0 .. last : key(p) \in visited <=> p < position
    BY DEF LoopInv, RetainSeesEachOnce
  <1>2. \A p, q \in 0 .. last : key(p) = key(q) => p = q
    <2>1. P!PairsOK /\ P!PairsPointAtSlots
      BY SamePairs DEF PairsInv, SlotsMatchPairs
    <2>2. \A p, q \in 0 .. Len(pairs) - 1 : P!At(p).key.idx = P!At(q).key.idx => p = q
      BY <2>1, P!OneKeyEach
    <2>3. QED
      BY <2>2, SamePairs
  <1>3. key(position) \in Keys
    BY PairKey
  <1>4. Len(pairs) \in Nat
    BY SamePairs, P!Types DEF PairsInv
  <1>5. /\ position' \in Nat /\ position' <= Len(pairs')
        /\ \A p \in 0 .. Len(pairs') - 1 : pairs'[p + 1].key \in visited' <=> p < position'
    <2>1. CASE /\ position' = position + 1 /\ Len(pairs') = Len(pairs)
               /\ \A q \in 0 .. Len(pairs) - 1 : pairs'[q + 1].key = At(q).key
      <3>1. ASSUME NEW p \in 0 .. Len(pairs') - 1
            PROVE  pairs'[p + 1].key \in visited' <=> p < position'
        <4>1. p \in 0 .. last /\ pairs'[p + 1].key = key(p)
          BY <2>1
        <4> HIDE DEF key, last
        <4>2. key(p) \in visited' <=> p < position \/ p = position
          BY <1>1, <1>2, <4>1 DEF key, last
        <4>3. QED
          BY <1>4, <2>1, <4>1, <4>2 DEF last
      <3>2. QED
        BY <1>4, <2>1, <3>1
    <2>2. CASE /\ position' = position /\ Len(pairs') = Len(pairs) - 1
               /\ \A q \in 0 .. Len(pairs) - 2 :
                    pairs'[q + 1] = IF q = position THEN At(Len(pairs) - 1) ELSE At(q)
      <3>1. ASSUME NEW p \in 0 .. Len(pairs') - 1
            PROVE  pairs'[p + 1].key \in visited' <=> p < position'
        <4> DEFINE q == IF p = position THEN last ELSE p
        <4>1. p \in 0 .. last - 1 /\ q \in 0 .. last /\ q # position /\ (q < position <=> p < position)
          BY <1>4, <2>2
        <4>2. pairs'[p + 1].key = key(q)
          BY <1>4, <2>2, <4>1
        <4> HIDE DEF key, last, q
        <4>3. key(q) \in visited' <=> q < position
          BY <1>1, <1>2, <4>1 DEF key, last
        <4>4. QED
          BY <2>2, <4>1, <4>2, <4>3
      <3>2. QED
        BY <1>4, <2>2, <3>1
    <2>3. QED
      BY <2>1, <2>2
  <1>6. visited' \subseteq Keys
    BY <1>1, <1>3
  <1>7. RetainSeesEachOnce'
    BY <1>5 DEF RetainSeesEachOnce, At
  <1>8. QED
    BY <1>5, <1>6, <1>7 DEF LoopInv

LEMMA StepLoop ==
  ASSUME ConfigAssumption, G!IInv, PairsInv, LoopInv, [Next]_vars
  PROVE  LoopInv'
  <1>1. /\ position \in Nat
        /\ mode \notin {"clear", "retain"} => position = 0
        /\ mode # "retain" => visited = {}
    BY DEF LoopInv
  <1>2. ASSUME mode = "idle", mode' \in {"idle", "entry", "drain"},
               UNCHANGED <<position, visited>>
        PROVE  LoopInv'
    BY <1>1, <1>2, Calm
  <1>3. ASSUME NEW v, Insert(v) PROVE LoopInv'
    BY <1>2, <1>3 DEF Insert, call
  <1>4. CASE VacantEntry
    BY <1>2, <1>4 DEF VacantEntry
  <1>5. ASSUME NEW v, EntryInsert(v) PROVE LoopInv'
    BY <1>1, <1>5, Calm DEF EntryInsert
  <1>6. CASE ReserveKey
    BY <1>2, <1>6 DEF ReserveKey, call
  <1>7. ASSUME NEW n, Reserve(n) \/ PairsRefuse(n) PROVE LoopInv'
    BY <1>2, <1>7 DEF Reserve, PairsRefuse, call
  <1>8. ASSUME NEW k, KeyStep(k) PROVE LoopInv'
    BY <1>2, <1>8 DEF KeyStep, Remove, Retire, Detach, Attach, Release, Write, call
  <1>9. ASSUME NEW m \in {"clear", "retain", "drain"}, Begin(m) PROVE LoopInv'
    <2>1. /\ mode = "idle" /\ mode' = m /\ position' = 0 /\ visited' = {}
          /\ UNCHANGED <<slots, slots_len, pairs>>
      BY <1>1, <1>9 DEF Begin
    <2>2. slots_len \in Nat /\ Len(pairs) \in Nat
      BY SamePairs, P!Types DEF PairsInv
    <2>3. QED
      BY <2>1, <2>2 DEF LoopInv, RetainSeesEachOnce, Positions
  <1>10. CASE ClearSlot
    <2>1. /\ mode = "clear" /\ mode' = "clear" /\ position < slots_len
          /\ position' = position + 1 /\ visited' = visited
      BY <1>10 DEF ClearSlot
    <2>2. /\ ~Odd(slots'[position].gen) /\ slots_len' = slots_len
          /\ \A j \in Positions : j # position => slots'[j] = slots[j]
      BY <1>1, <1>10, ClearSlotMaps
    <2>3. /\ slots_len \in Nat /\ visited = {}
          /\ \A j \in Positions : j < position => ~Odd(slots[j].gen)
      BY <2>1, SlotFacts DEF LoopInv, HoldsValue
    <2>4. \A j \in Positions : j < position' => ~Odd(slots'[j].gen)
      BY <1>1, <2>1, <2>2, <2>3 DEF Positions
    <2>5. QED
      BY <1>1, <2>1, <2>2, <2>3, <2>4 DEF LoopInv, RetainSeesEachOnce, HoldsValue, Positions
  <1>11. CASE ClearPairs
    BY <1>1, <1>11, Calm DEF ClearPairs
  <1>12. ASSUME NEW v \in Values, RetainKeep(v) PROVE LoopInv'
    <2> DEFINE k == At(position).key
    <2>1. /\ mode = "retain" /\ mode' = "retain" /\ position \in 0 .. Len(pairs) - 1
          /\ UNCHANGED <<slots, slots_len>>
          /\ pairs' = [pairs EXCEPT ![position + 1] = Pair(k, v)]
          /\ position' = position + 1 /\ visited' = visited \union {k}
      BY <1>1, <1>12, SamePairs, P!Types DEF RetainKeep, PairsInv
    <2>2. k \in Keys /\ contains_key(k) /\ slots[k.idx].item = position
      BY <2>1, PairKey
    <2>3. /\ Len(pairs') = Len(pairs)
          /\ \A q \in 0 .. Len(pairs) - 1 : pairs'[q + 1].key = At(q).key
      <3> HIDE DEF k
      <3>1. QED
        BY <2>1, <2>2, WriteEffect
    <2>4. QED
      BY <2>1, <2>3, SeenOnce
  <1>13. CASE RetainDrop
    <2>1. /\ mode = "retain" /\ mode' = "retain" /\ position \in 0 .. Len(pairs) - 1
          /\ position' = position /\ visited' = visited \union {At(position).key}
      BY <1>1, <1>13, SamePairs, P!Types DEF RetainDrop, PairsInv
    <2>2. /\ Len(pairs') = Len(pairs) - 1
          /\ \A q \in 0 .. Len(pairs) - 2 :
               pairs'[q + 1] = IF q = position THEN At(Len(pairs) - 1) ELSE At(q)
      BY <1>1, <1>13, RetainDropMaps
    <2>3. QED
      BY <2>1, <2>2, SeenOnce
  <1>14. CASE DrainNext
    BY <1>1, <1>14, Calm DEF DrainNext, call
  <1>15. CASE Finish \/ Abandon
    BY <1>15, Calm DEF Finish, Abandon
  <1>16. CASE Reset
    BY <1>2, <1>16 DEF Reset, call
  <1>17. CASE UNCHANGED vars
    BY <1>17 DEF vars, LoopInv, RetainSeesEachOnce, HoldsValue, Positions, At
  <1>18. QED
    BY <1>3, <1>4, <1>5, <1>6, <1>7, <1>8, <1>9, <1>10, <1>11, <1>12, <1>13,
       <1>14, <1>15, <1>16, <1>17 DEF Next, LoopStep

-----------------------------------------------------------------------------
(* The room *)

RoomInv ==
  /\ capacity \in slots_len .. StorageMax
  /\ pairs_capacity \in Len(pairs) .. PairsMax
  /\ promised \in 0 .. ReserveMax
  /\ mode = "entry" => /\ Len(pairs) < pairs_capacity
                       /\ next_free = NoSlot => slots_len < capacity
  /\ PromiseKept

\* What the storages say after they were asked for room.
LEMMA RoomMade ==
  ASSUME ConfigAssumption, G!IInv, PairsInv, RoomInv, NEW n \in Nat
  PROVE  /\ slots_len \in Nat /\ Len(pairs) \in Nat /\ promised \in 0 .. ReserveMax
         /\ capacity \in slots_len .. StorageMax /\ pairs_capacity \in Len(pairs) .. PairsMax
         /\ ensure_room(n) => /\ capacity' \in capacity .. StorageMax
                              /\ slots_len + n <= capacity'
         /\ pairs_ensure_room(n) => /\ pairs_capacity' \in pairs_capacity .. PairsMax
                                    /\ Len(pairs) + n <= pairs_capacity'
  <1>1. slots_len \in Nat /\ Len(pairs) \in Nat
    BY SamePairs, P!Types DEF PairsInv
  <1>2. StorageMax \in Nat /\ PairsMax \in Nat
    BY DenseAssumption DEF ConfigAssumption
  <1>3. /\ capacity \in slots_len .. StorageMax /\ pairs_capacity \in Len(pairs) .. PairsMax
        /\ promised \in 0 .. ReserveMax
    BY DEF RoomInv
  <1>4. ASSUME ensure_room(n)
        PROVE  capacity' \in capacity .. StorageMax /\ slots_len + n <= capacity'
    BY <1>1, <1>2, <1>3, <1>4 DEF ensure_room
  <1>5. ASSUME pairs_ensure_room(n)
        PROVE  /\ pairs_capacity' \in pairs_capacity .. PairsMax
               /\ Len(pairs) + n <= pairs_capacity'
    BY <1>1, <1>2, <1>3, <1>5 DEF pairs_ensure_room
  <1>6. QED
    BY <1>1, <1>3, <1>4, <1>5

\* next_target makes room for the slot that it picks.
LEMMA RoomPicked ==
  ASSUME ConfigAssumption, G!IInv, PairsInv, RoomInv, next_target
  PROVE  /\ capacity' \in capacity .. StorageMax
         /\ next_free = NoSlot => slots_len + 1 <= capacity'
  <1>1. capacity \in slots_len .. StorageMax /\ slots_len \in Nat
    BY RoomMade
  <1>2. CASE next_free = NoSlot
    <2>1. ensure_room(1)
      BY <1>2 DEF next_target
    <2>2. QED
      BY <2>1, RoomMade
  <1>3. CASE next_free # NoSlot
    BY <1>1, <1>3 DEF next_target, ConfigAssumption
  <1>4. QED
    BY <1>2, <1>3

\* Of a storage with c of at most m places, a are taken and r promised.
LEMMA StillFits ==
  ASSUME NEW a \in Nat, NEW m \in Nat, NEW r \in Nat, NEW c \in a .. m, a + r <= c,
         NEW b \in 0 .. a
  PROVE  c \in b .. m /\ b + r <= c
  OBVIOUS

LEMMA SpentFits ==
  ASSUME NEW a \in Nat, NEW m \in Nat, NEW r \in Nat, NEW c \in a .. m, a + r <= c,
         NEW b \in a .. a + 1, NEW d \in c .. m, b <= d
  PROVE  d \in b .. m /\ b + (IF r = 0 THEN 0 ELSE r - 1) <= d
  OBVIOUS

\* A step that needs no room.
LEMMA RoomStays ==
  ASSUME ConfigAssumption, G!IInv, PairsInv, RoomInv, mode' # "entry",
         UNCHANGED <<capacity, pairs_capacity, promised>>,
         slots_len' \in 0 .. slots_len, Len(pairs') \in 0 .. Len(pairs)
  PROVE  RoomInv'
  <1>1. /\ slots_len \in Nat /\ Len(pairs) \in Nat /\ promised \in 0 .. ReserveMax
        /\ promised \in Nat
        /\ capacity \in slots_len .. StorageMax /\ pairs_capacity \in Len(pairs) .. PairsMax
        /\ slots_len + promised <= capacity /\ Len(pairs) + promised <= pairs_capacity
    BY RoomMade DEF RoomInv, PromiseKept
  <1>2. ReserveMax \in Nat /\ StorageMax \in Nat /\ PairsMax \in Nat
    BY DenseAssumption DEF ConfigAssumption
  <1>3. capacity' \in slots_len' .. StorageMax /\ slots_len' + promised' <= capacity'
    BY <1>1, <1>2, StillFits
  <1>4. pairs_capacity' \in Len(pairs') .. PairsMax /\ Len(pairs') + promised' <= pairs_capacity'
    BY <1>1, <1>2, StillFits
  <1>5. promised' \in 0 .. ReserveMax
    BY <1>1
  <1>6. QED
    BY <1>3, <1>4, <1>5 DEF RoomInv, PromiseKept

\* A call that try_reserve may have made room for: a slot, or a pair, or both.
LEMMA RoomSpent ==
  ASSUME ConfigAssumption, G!IInv, PairsInv, RoomInv, mode' # "entry", Spend,
         slots_len' \in slots_len .. slots_len + 1, Len(pairs') \in Len(pairs) .. Len(pairs) + 1,
         capacity' \in capacity .. StorageMax, slots_len' <= capacity',
         pairs_capacity' \in pairs_capacity .. PairsMax, Len(pairs') <= pairs_capacity'
  PROVE  RoomInv'
  <1>1. /\ slots_len \in Nat /\ Len(pairs) \in Nat /\ promised \in 0 .. ReserveMax
        /\ promised \in Nat
        /\ capacity \in slots_len .. StorageMax /\ pairs_capacity \in Len(pairs) .. PairsMax
        /\ slots_len + promised <= capacity /\ Len(pairs) + promised <= pairs_capacity
    BY RoomMade DEF RoomInv, PromiseKept
  <1>2. /\ ReserveMax \in Nat /\ StorageMax \in Nat /\ PairsMax \in Nat
        /\ promised' = IF promised = 0 THEN 0 ELSE promised - 1
    BY DenseAssumption DEF Spend, ConfigAssumption
  <1>3. promised' \in 0 .. ReserveMax
    BY <1>1, <1>2
  <1>4. capacity' \in slots_len' .. StorageMax /\ slots_len' + promised' <= capacity'
    BY <1>1, <1>2, SpentFits
  <1>5. pairs_capacity' \in Len(pairs') .. PairsMax /\ Len(pairs') + promised' <= pairs_capacity'
    BY <1>1, <1>2, SpentFits
  <1>6. QED
    BY <1>3, <1>4, <1>5 DEF RoomInv, PromiseKept

\* A slot is picked and filled.
LEMMA RoomFilled ==
  ASSUME ConfigAssumption, G!IInv, PairsInv, RoomInv, mode' # "entry", Spend,
         NEW s \in [gen : Nat, item : Nat], Occupy(Target, s),
         Len(pairs') \in Len(pairs) .. Len(pairs) + 1,
         capacity' \in capacity .. StorageMax, next_free = NoSlot => slots_len + 1 <= capacity',
         pairs_capacity' \in pairs_capacity .. PairsMax, Len(pairs') <= pairs_capacity'
  PROVE  RoomInv'
  <1>1. slots_len \in Nat /\ capacity \in slots_len .. StorageMax
    BY RoomMade
  <1>2. slots_len' = IF next_free = NoSlot THEN slots_len + 1 ELSE slots_len
    BY Occupied
  <1>3. slots_len' \in slots_len .. slots_len + 1 /\ slots_len' <= capacity'
    BY <1>1, <1>2
  <1>4. QED
    BY <1>3, RoomSpent

\* fill needs a slot for the target and a pair.
LEMMA RoomOfFill ==
  ASSUME ConfigAssumption, G!IInv, PairsInv, RoomInv, mode # "clear", mode' # "entry",
         NEW v \in Values, fill(Target, v), next_free = NoSlot => slots_len <= MaxIdx,
         capacity' \in capacity .. StorageMax, next_free = NoSlot => slots_len + 1 <= capacity',
         pairs_capacity' \in pairs_capacity .. PairsMax, Len(pairs) + 1 <= pairs_capacity'
  PROVE  RoomInv'
  <1> DEFINE s == Slot(Target.gen, Len(pairs))
  <1>1. Len(pairs) \in Nat /\ s \in [gen : Nat, item : Nat]
    BY RoomMade, SlotFacts DEF Slot, OddGens
  <1>2. Occupy(Target, s) /\ Spend
    BY DEF fill
  <1>3. Len(pairs') = Len(pairs) + 1
    BY FillEffect
  <1> HIDE DEF s
  <1>4. Len(pairs') \in Len(pairs) .. Len(pairs) + 1 /\ Len(pairs') <= pairs_capacity'
    BY <1>1, <1>3
  <1>5. QED
    BY <1>1, <1>2, <1>4, RoomFilled

LEMMA LenNext ==
  ASSUME ConfigAssumption, G!IInv, PairsInv, LoopInv, [Next]_vars
  PROVE  Len(pairs') \in Nat
  BY StepPairs DEF PairsInv, P!PairsOK

LEMMA StepRoom ==
  ASSUME ConfigAssumption, G!IInv, PairsInv, LoopInv, RoomInv, [Next]_vars
  PROVE  RoomInv'
  <1>0. /\ slots_len \in Nat /\ Len(pairs) \in Nat /\ position \in Nat
        /\ capacity \in slots_len .. StorageMax /\ pairs_capacity \in Len(pairs) .. PairsMax
    BY RoomMade DEF LoopInv
  <1>1. ASSUME NEW v \in Values, Insert(v) PROVE RoomInv'
    <2>1. /\ mode = "idle" /\ mode' = "idle" /\ fill(Target, v)
          /\ next_target /\ pairs_ensure_room(1)
      BY <1>1 DEF Insert, call
    <2>2. /\ next_free = NoSlot => slots_len <= MaxIdx
          /\ next_free = NoSlot => slots_len + 1 <= capacity'
          /\ capacity' \in capacity .. StorageMax
      BY <2>1, Picked, RoomPicked
    <2>3. pairs_capacity' \in pairs_capacity .. PairsMax /\ Len(pairs) + 1 <= pairs_capacity'
      BY <2>1, RoomMade
    <2>4. QED
      BY <2>1, <2>2, <2>3, RoomOfFill
  <1>2. CASE VacantEntry
    <2>1. /\ next_target /\ pairs_ensure_room(1)
          /\ UNCHANGED <<slots_len, next_free, pairs, promised>>
      BY <1>2 DEF VacantEntry
    <2>2. /\ next_free = NoSlot => slots_len + 1 <= capacity'
          /\ capacity' \in capacity .. StorageMax
      BY <2>1, RoomPicked
    <2>3. pairs_capacity' \in pairs_capacity .. PairsMax /\ Len(pairs) + 1 <= pairs_capacity'
      BY <2>1, RoomMade
    <2>4. /\ slots_len + promised <= capacity /\ Len(pairs) + promised <= pairs_capacity
          /\ promised \in 0 .. ReserveMax /\ ReserveMax \in Nat
      BY DenseAssumption DEF RoomInv, PromiseKept
    <2>5. QED
      BY <1>0, <2>1, <2>2, <2>3, <2>4 DEF RoomInv, PromiseKept
  <1>3. ASSUME NEW v \in Values, EntryInsert(v) PROVE RoomInv'
    <2>1. /\ mode = "entry" /\ mode' = "idle" /\ fill(target, v)
          /\ UNCHANGED <<capacity, pairs_capacity>>
      BY <1>3 DEF EntryInsert, room
    <2>2. target = Target /\ (next_free = NoSlot => slots_len <= MaxIdx)
      BY <2>1, SlotFacts
    <2>3. Len(pairs) < pairs_capacity /\ (next_free = NoSlot => slots_len < capacity)
      BY <2>1 DEF RoomInv
    <2>4. /\ capacity' \in capacity .. StorageMax /\ pairs_capacity' \in pairs_capacity .. PairsMax
          /\ Len(pairs) + 1 <= pairs_capacity'
          /\ next_free = NoSlot => slots_len + 1 <= capacity'
      BY <1>0, <2>1, <2>3
    <2>5. fill(Target, v)
      BY <2>1, <2>2
    <2>6. QED
      BY <2>1, <2>2, <2>4, <2>5, RoomOfFill
  <1>4. CASE ReserveKey
    <2> DEFINE s == Slot(detached_generation(Target.gen), Target.idx)
    <2>1. /\ mode' = "idle" /\ next_target /\ Occupy(Target, s) /\ Spend
          /\ UNCHANGED <<pairs, pairs_capacity>>
      BY <1>4 DEF ReserveKey, call
    <2>2. s \in [gen : Nat, item : Nat]
      BY SlotFacts, VacantSlots
    <2>3. /\ next_free = NoSlot => slots_len + 1 <= capacity'
          /\ capacity' \in capacity .. StorageMax
      BY <2>1, RoomPicked
    <2>4. /\ Len(pairs') \in Len(pairs) .. Len(pairs) + 1
          /\ pairs_capacity' \in pairs_capacity .. PairsMax /\ Len(pairs') <= pairs_capacity'
      BY <1>0, <2>1
    <2> HIDE DEF s
    <2>5. QED
      BY <2>1, <2>2, <2>3, <2>4, RoomFilled
  <1>5. ASSUME NEW n \in 1 .. ReserveMax, Reserve(n) PROVE RoomInv'
    <2>1. /\ mode' = "idle" /\ ensure_room(n) /\ pairs_ensure_room(n)
          /\ promised' = (IF n > promised THEN n ELSE promised)
          /\ UNCHANGED <<slots_len, pairs>>
      BY <1>5 DEF Reserve, call
    <2>2. /\ slots_len + n <= capacity' /\ capacity' \in capacity .. StorageMax
          /\ Len(pairs) + n <= pairs_capacity' /\ pairs_capacity' \in pairs_capacity .. PairsMax
      BY <2>1, RoomMade
    <2>3. /\ slots_len + promised <= capacity /\ Len(pairs) + promised <= pairs_capacity
          /\ promised \in 0 .. ReserveMax /\ ReserveMax \in Nat
      BY DenseAssumption DEF RoomInv, PromiseKept
    <2>4. QED
      BY <1>0, <2>1, <2>2, <2>3 DEF RoomInv, PromiseKept
  <1>6. ASSUME NEW n \in 1 .. ReserveMax, PairsRefuse(n) PROVE RoomInv'
    <2>1. /\ mode' = "idle" /\ ensure_room(n)
          /\ UNCHANGED <<slots_len, pairs, pairs_capacity, promised>>
      BY <1>6 DEF PairsRefuse, call
    <2>2. capacity' \in capacity .. StorageMax
      BY <2>1, RoomMade
    <2>3. /\ slots_len + promised <= capacity /\ Len(pairs) + promised <= pairs_capacity
          /\ promised \in 0 .. ReserveMax /\ ReserveMax \in Nat
      BY DenseAssumption DEF RoomInv, PromiseKept
    <2>4. QED
      BY <1>0, <2>1, <2>2, <2>3 DEF RoomInv, PromiseKept
  <1>7. ASSUME NEW k \in Keys, KeyStep(k) PROVE RoomInv'
    <2>1. ASSUME NEW v \in Values, Attach(k, v) PROVE RoomInv'
      <3>1. /\ mode' = "idle" /\ pairs_ensure_room(1) /\ Spend
            /\ UNCHANGED <<slots_len, capacity>>
        BY <2>1 DEF Attach, call
      <3>2. pairs_capacity' \in pairs_capacity .. PairsMax /\ Len(pairs) + 1 <= pairs_capacity'
        BY <3>1, RoomMade
      <3>3. Len(pairs') = Len(pairs) + 1
        BY <2>1, AttachEffect
      <3>4. /\ slots_len' \in slots_len .. slots_len + 1 /\ slots_len' <= capacity'
            /\ capacity' \in capacity .. StorageMax
            /\ Len(pairs') \in Len(pairs) .. Len(pairs) + 1 /\ Len(pairs') <= pairs_capacity'
        BY <1>0, <3>1, <3>2, <3>3
      <3>5. QED
        BY <3>1, <3>2, <3>4, RoomSpent
    <2>2. CASE Remove(k) \/ Retire(k) \/ Detach(k)
      <3>1. Len(pairs') = Len(pairs) - 1
        BY <2>2, RemoveMaps, RetireMaps, DetachMaps
      <3>2. slots_len' = slots_len /\ UNCHANGED <<capacity, pairs_capacity, promised, mode>>
        BY <2>2 DEF Remove, Retire, Detach, swap_remove, room, call
      <3>3. mode' # "entry" /\ slots_len' \in 0 .. slots_len
        BY <1>0, <2>2, <3>2 DEF Remove, Retire, Detach
      <3>4. Len(pairs') \in 0 .. Len(pairs)
        BY <1>0, <3>1, LenNext
      <3>5. QED
        BY <3>2, <3>3, <3>4, RoomStays
    <2>3. CASE Release(k)
      <3>1. /\ mode' # "entry" /\ UNCHANGED <<slots_len, pairs, capacity, pairs_capacity, promised>>
        BY <2>3 DEF Release, Free, room, call
      <3>2. QED
        BY <1>0, <3>1, RoomStays
    <2>4. ASSUME NEW v \in Values, Write(k, v) PROVE RoomInv'
      <3>1. /\ mode' # "entry" /\ UNCHANGED <<slots_len, capacity, pairs_capacity, promised>>
        BY <2>4 DEF Write, room, call
      <3>2. Len(pairs') = Len(pairs)
        BY <2>4, WriteEffect DEF Write
      <3>3. QED
        BY <1>0, <3>1, <3>2, RoomStays
    <2>5. QED
      BY <1>7, <2>1, <2>2, <2>3, <2>4 DEF KeyStep
  <1>8. ASSUME NEW m \in {"clear", "retain", "drain"}, Begin(m) PROVE RoomInv'
    BY <1>0, <1>8, RoomStays DEF Begin, room
  <1>9. CASE LoopStep
    <2>1. /\ mode' # "entry" /\ slots_len' = slots_len
          /\ UNCHANGED <<capacity, pairs_capacity, promised>>
      BY <1>9 DEF LoopStep, ClearSlot, ClearPairs, RetainKeep, RetainDrop, DrainNext, Finish,
                  Free, swap_remove, room, call
    <2>2. Len(pairs') \in 0 .. Len(pairs)
      <3>1. CASE ClearSlot \/ ClearPairs \/ Finish
        BY <1>0, <3>1 DEF ClearSlot, ClearPairs, Finish
      <3>2. ASSUME NEW v \in Values, RetainKeep(v) PROVE Len(pairs') \in 0 .. Len(pairs)
        BY <1>0, <3>2 DEF RetainKeep, PairsInv, P!PairsOK
      <3>3. CASE RetainDrop \/ DrainNext
        <4>1. Len(pairs') = Len(pairs) - 1
          BY <1>0, <3>3, RetainDropMaps, DrainNextMaps
        <4>2. QED
          BY <1>0, <4>1, LenNext
      <3>4. QED
        BY <1>9, <3>1, <3>2, <3>3 DEF LoopStep
    <2>3. QED
      BY <1>0, <2>1, <2>2, RoomStays
  <1>10. CASE Abandon
    BY <1>0, <1>10, RoomStays DEF Abandon, room
  <1>11. CASE Reset
    BY <1>0, <1>11, RoomStays DEF Reset, room, call
  <1>12. CASE UNCHANGED vars
    BY <1>12 DEF vars, RoomInv, PromiseKept
  <1>13. QED
    BY <1>1, <1>2, <1>3, <1>4, <1>5, <1>6, <1>7, <1>8, <1>9, <1>10, <1>11, <1>12 DEF Next

-----------------------------------------------------------------------------
(* Where a map starts *)

\* Everything that is known of a state.
DenseInv == G!IInv /\ PairsInv /\ LoopInv /\ RoomInv

LEMMA InitMaps ==
  ASSUME ConfigAssumption, Init
  PROVE  G!Init
  <1>1. Positions = {} /\ {i \in Positions : HoldsValue(i)} = {}
    BY DEF Init, Positions
  <1>2. Inlined = [i \in {} |-> Slot(0, NoSlot)]
    BY <1>1, InlinedNow
  <1>3. Cardinality({i \in Positions : HoldsValue(i)}) = 0
    BY <1>1, FS_EmptySet
  <1>4. Inlined = [i \in {} |-> G!Slot(0, NoSlot)]
    BY <1>2 DEF G!Slot, Slot
  <1>5. QED
    BY <1>3, <1>4, SameNames DEF Init, G!Init, ConfigAssumption

\* A new map.
LEMMA InitInv ==
  ASSUME ConfigAssumption, Init
  PROVE  DenseInv
  <1>1. G!IInv
    BY InitMaps, SameConfig, G!InitInv
  <1>2. slots_len = 0 /\ pairs = <<>> /\ Positions = {}
    BY DEF Init, Positions
  <1>3. P!PairsOK
    <2>1. slots \in [0 .. slots_len - 1 -> [gen : Nat, item : Nat]]
      BY <1>2 DEF Init
    <2>2. Keys \subseteq P!OddKeys
      BY SameNames DEF Keys, OddGens, P!OddKeys, ConfigAssumption
    <2>3. QED
      BY <1>2, <2>1, <2>2 DEF P!PairsOK, P!SlotsOK
  <1>4. SlotsPointAtPairs /\ PairsPointAtSlots
    BY <1>2 DEF SlotsPointAtPairs, PairsPointAtSlots
  <1>5. PairsInv
    BY <1>2, <1>3, <1>4 DEF PairsInv, SlotsMatchPairs
  <1>6. LoopInv
    BY <1>2 DEF Init, LoopInv, RetainSeesEachOnce
  <1>7. RoomInv
    BY <1>2, DenseAssumption DEF Init, RoomInv, PromiseKept, ConfigAssumption
  <1>8. QED
    BY <1>1, <1>5, <1>6, <1>7 DEF DenseInv

\* Raw parts that follow the rules are the raw parts of a GenMap.
LEMMA PartsMaps ==
  ASSUME ConfigAssumption, PartsInit, P!PairsOK
  PROVE  G!PartsInit
  <1>1. slots_len \in 0 .. MaxIdx + 1
    BY PartsAssumption DEF PartsInit, ConfigAssumption
  <1>2. ASSUME NEW i \in Positions PROVE Inlined[i] \in G!AnySlot
    <2>1. slots[i] \in [gen : 0 .. GenMax, item : 0 .. NoSlot]
      BY DEF PartsInit
    <2>2. CASE HoldsValue(i)
      <3>1. At(slots[i].item).value \in Values
        <4>1. slots[i].item \in 0 .. Len(pairs) - 1
          <5>1. i \in 0 .. slots_len - 1 /\ P!Holds(i) /\ P!SlotsPointAtPairs
            BY <2>2, SamePairs DEF Positions, PartsInit
          <5>2. QED
            BY <5>1, P!OnePairEach
        <4>2. P!At(slots[i].item).value \in Values
          BY <4>1, P!Types
        <4>3. QED
          BY <4>2, SamePairs
      <3>2. Inlined[i] = Slot(slots[i].gen, At(slots[i].item).value)
        BY <2>2, InlinedSlot
      <3>3. Inlined[i] \in [gen : {slots[i].gen}, item : Values]
        BY <3>1, <3>2 DEF Slot
      <3>4. G!Odd(slots[i].gen) /\ slots[i].gen \in 0 .. GenMax
        BY <2>1, <2>2, SameNames DEF HoldsValue
      <3>5. QED
        BY <3>3, <3>4 DEF G!AnySlot
    <2>3. CASE ~HoldsValue(i)
      <3>1. /\ Inlined[i] \in [gen : {slots[i].gen}, item : 0 .. NoSlot]
            /\ ~G!Odd(slots[i].gen) /\ slots[i].gen \in 0 .. GenMax
        BY <2>1, <2>3, InlinedSlot, SameNames DEF HoldsValue
      <3>2. QED
        BY <3>1 DEF G!AnySlot
    <2>4. QED
      BY <2>2, <2>3
  <1>3. Inlined \in [G!Positions -> G!AnySlot]
    BY <1>2, InlinedNow, SameNames
  <1>4. G!KeysFit
    BY InlinedSlot, SameNames DEF PartsInit, KeysFit, G!KeysFit
  <1>5. ASSUME NEW k \in 0 .. slots_len, NEW f \in [1 .. k -> Positions], FreeList(f, k)
        PROVE  G!FreeList(f, k)
    <2>1. \A a \in 1 .. k : /\ f[a] \in Positions /\ ~HoldsValue(f[a])
                            /\ slots[f[a]].gen < MaxGen
                            /\ slots[f[a]].item = IF a = 1 THEN NoSlot ELSE f[a - 1]
      BY <1>5 DEF FreeList
    <2>2. \A a \in 1 .. k : /\ ~G!HoldsValue(f[a]) /\ Inlined[f[a]] = slots[f[a]]
      BY <2>1, InlinedSlot
    <2>3. QED
      BY <1>5, <2>1, <2>2 DEF FreeList, G!FreeList
  <1>6. \E k \in 0 .. slots_len :
          \E f \in [1 .. k -> G!Positions] :
            /\ G!FreeList(f, k)
            /\ retired = {i \in G!Positions : /\ ~G!HoldsValue(i) /\ Inlined[i].item # i
                                              /\ \A a \in 1 .. k : f[a] # i}
    <2>1. PICK k \in 0 .. slots_len : \E f \in [1 .. k -> Positions] :
            /\ FreeList(f, k)
            /\ retired = {i \in Positions : /\ ~HoldsValue(i) /\ slots[i].item # i
                                            /\ \A a \in 1 .. k : f[a] # i}
      BY DEF PartsInit
    <2>2. PICK f \in [1 .. k -> Positions] :
            /\ FreeList(f, k)
            /\ retired = {i \in Positions : /\ ~HoldsValue(i) /\ slots[i].item # i
                                            /\ \A a \in 1 .. k : f[a] # i}
      BY <2>1
    <2>3. \A i \in Positions : /\ G!HoldsValue(i) <=> HoldsValue(i)
                               /\ ~HoldsValue(i) => Inlined[i].item = slots[i].item
      BY InlinedSlot
    <2>4. retired = {i \in Positions : /\ ~G!HoldsValue(i) /\ Inlined[i].item # i
                                       /\ \A a \in 1 .. k : f[a] # i}
      BY <2>2, <2>3
    <2>5. G!FreeList(f, k)
      BY <1>5, <2>2
    <2>6. G!Positions = Positions
      BY SameNames
    <2>7. QED
      BY <2>4, <2>5, <2>6
  <1>7. Cardinality({i \in Positions : HoldsValue(i)})
          = G!Cardinality({i \in G!Positions : G!HoldsValue(i)})
    <2>1. {i \in Positions : HoldsValue(i)} = {i \in G!Positions : G!HoldsValue(i)}
      BY InlinedSlot, SameNames
    <2>2. QED
      BY <2>1, SameCount
  <1>8. MaxIdx + 1 \in slots_len .. MaxIdx + 1 /\ MaxIdx + 1 \in Nat
    BY <1>1 DEF ConfigAssumption
  <1>9. QED
    BY <1>1, <1>3, <1>4, <1>6, <1>7, <1>8, SameNames DEF PartsInit, G!PartsInit

\* The values of raw parts are a sequence of pairs, no more than there are slots.
LEMMA PartsPairs ==
  ASSUME ConfigAssumption, PartsInit
  PROVE  P!PairsOK /\ Len(pairs) \in 0 .. slots_len
  <1>1. slots_len \in Nat /\ slots_len <= MaxIdx + 1
    BY PartsAssumption DEF PartsInit, ConfigAssumption
  <1>2. slots \in [0 .. slots_len - 1 -> [gen : Nat, item : Nat]]
    <2>1. GenMax \in Nat /\ NoSlot \in Nat
      BY DEF ConfigAssumption
    <2>2. \A i \in 0 .. slots_len - 1 : slots[i] \in [gen : Nat, item : Nat]
      BY <2>1 DEF PartsInit, Positions
    <2>3. QED
      BY <2>2 DEF PartsInit, Positions
  <1>3. HeldKeys \subseteq Keys
    <2>1. ASSUME NEW i \in Positions, HoldsValue(i) PROVE Key(i, slots[i].gen) \in Keys
      <3>1. slots[i].gen \in 0 .. GenMax /\ slots[i].gen <= MaxGen /\ i \in 0 .. MaxIdx
        BY <1>1, <2>1 DEF PartsInit, KeysFit, Positions, ConfigAssumption
      <3>2. QED
        BY <2>1, <3>1 DEF Key, Keys, OddGens, HoldsValue, ConfigAssumption
    <2>2. QED
      BY <2>1 DEF HeldKeys
  <1>4. Keys \subseteq P!OddKeys
    BY SameNames DEF Keys, OddGens, P!OddKeys, ConfigAssumption
  <1>5. IsFiniteSet(HeldKeys) /\ Cardinality(HeldKeys) \in Nat
    <2> DEFINE S == {j \in Positions : HoldsValue(j)}
               f == [j \in S |-> Key(j, slots[j].gen)]
    <2>1. IsFiniteSet(S)
      <3>1. IsFiniteSet(0 .. slots_len - 1)
        BY <1>1, FS_Interval
      <3>2. S \subseteq 0 .. slots_len - 1
        BY DEF Positions
      <3>3. QED
        BY <3>1, <3>2, FS_Subset
    <2>2. f \in Surjection(S, HeldKeys)
      <3>1. f \in [S -> HeldKeys] /\ \A k \in HeldKeys : \E j \in S : f[j] = k
        BY DEF HeldKeys
      <3>2. QED
        BY <3>1 DEF Surjection
    <2> HIDE DEF S, f
    <2>3. QED
      BY <2>1, <2>2, FS_Surjection, FS_CardinalityType
  <1>6. pairs \in Seq(P!AnyPair)
    <2>1. pairs \in [1 .. Cardinality(HeldKeys) -> [key : HeldKeys, value : Values]]
      BY DEF PartsInit
    <2>2. pairs \in [1 .. Cardinality(HeldKeys) -> P!AnyPair]
      BY <1>3, <2>1 DEF P!AnyPair
    <2>3. QED
      BY <1>5, <2>2, P!FunctionIsSeq
  <1>7. P!PairsOK
    BY <1>1, <1>2, <1>4, <1>6 DEF P!PairsOK, P!SlotsOK
  <1>8. Len(pairs) <= slots_len
    BY <1>7, SamePairs, P!PairsFit DEF PartsInit
  <1>9. QED
    BY <1>6, <1>7, <1>8

LEMMA PartsInv ==
  ASSUME ConfigAssumption, PartsInit
  PROVE  DenseInv
  <1>1. P!PairsOK /\ Len(pairs) \in 0 .. slots_len
    BY PartsPairs
  <1>2. G!IInv
    <2>1. G!PartsInit
      BY <1>1, PartsMaps
    <2>2. QED
      BY <2>1, SameConfig, G!PartsInv
  <1>3. PairsInv
    BY <1>1 DEF PairsInv, SlotsMatchPairs, PartsInit
  <1>4. LoopInv
    BY DEF PartsInit, LoopInv, RetainSeesEachOnce
  <1>5. RoomInv
    <2>1. slots_len \in Nat
      BY <1>1 DEF P!PairsOK, P!SlotsOK
    <2>2. QED
      BY <1>1, <2>1, DenseAssumption DEF PartsInit, RoomInv, PromiseKept, ConfigAssumption
  <1>6. QED
    BY <1>2, <1>3, <1>4, <1>5 DEF DenseInv

\* ... and where every step leads.
LEMMA StepInv ==
  ASSUME ConfigAssumption, DenseInv, [Next]_vars
  PROVE  DenseInv'
  <1>1. G!IInv /\ PairsInv /\ LoopInv /\ RoomInv
    BY DEF DenseInv
  <1>2. G!IInv'
    <2>1. [G!Next]_(G!vars)
      BY <1>1, StepMaps DEF Sound
    <2>2. QED
      BY <1>1, <2>1, SameConfig, G!StepInv
  <1>3. PairsInv' /\ LoopInv' /\ RoomInv'
    BY <1>1, StepPairs, StepLoop, StepRoom
  <1>4. QED
    BY <1>2, <1>3 DEF DenseInv

LEMMA Invariance == Spec => []DenseInv
  <1>1. Init => DenseInv
    BY ConfigAssumption, InitInv
  <1>2. DenseInv /\ [Next]_vars => DenseInv'
    BY ConfigAssumption, StepInv
  <1>3. QED
    BY <1>1, <1>2, PTL DEF Spec

LEMMA PartsInvariance == PartsSpec => []DenseInv
  <1>1. PartsInit => DenseInv
    BY ConfigAssumption, PartsInv
  <1>2. DenseInv /\ [Next]_vars => DenseInv'
    BY ConfigAssumption, StepInv
  <1>3. QED
    BY <1>1, <1>2, PTL DEF PartsSpec

-----------------------------------------------------------------------------
(* What is known of every state *)

\* The free list is one list, whatever the odd slots hold.
LEMMA SameList ==
  ASSUME ConfigAssumption, G!IInv
  PROVE  FreeListComplete
  <1>1. PICK k \in 0 .. slots_len : \E f \in [1 .. k -> Positions] : G!FreeList(f, k) /\ G!Lists(f, k)
    BY SameNames DEF G!IInv, G!DataOK, G!FreeListComplete
  <1>2. PICK f \in [1 .. k -> Positions] : G!FreeList(f, k) /\ G!Lists(f, k)
    BY <1>1
  <1>3. \A i \in Positions : /\ G!HoldsValue(i) <=> HoldsValue(i)
                             /\ ~HoldsValue(i) => Inlined[i] = slots[i]
    BY InlinedSlot
  <1>4. FreeList(f, k)
    <2>1. \A a \in 1 .. k : f[a] \in Positions /\ ~HoldsValue(f[a]) /\ Inlined[f[a]] = slots[f[a]]
      BY <1>2, <1>3 DEF G!FreeList
    <2>2. QED
      BY <1>2, <2>1 DEF FreeList, G!FreeList
  <1>5. Lists(f, k)
    BY <1>2, <1>3, SameNames DEF Lists, G!Lists
  <1>6. QED
    BY <1>4, <1>5 DEF FreeListComplete

LEMMA TargetRecord ==
  ASSUME NEW i \in 0 .. NoSlot, NEW g \in OddGens, NEW b \in BOOLEAN
  PROVE  [idx |-> i, gen |-> g, from_free_list |-> b]
           \in [idx : 0 .. NoSlot, gen : OddGens, from_free_list : BOOLEAN]
  BY Zenon

LEMMA InvTypes ==
  ASSUME ConfigAssumption, DenseInv
  PROVE  TypeOK
  <1>1. G!IInv /\ PairsInv /\ LoopInv /\ RoomInv /\ P!PairsOK
    BY DEF DenseInv, PairsInv
  <1>2. slots_len \in 0 .. MaxIdx + 1 /\ MaxIdx + 1 <= NoSlot /\ NoSlot \in Nat
    BY <1>1, SlotFacts DEF ConfigAssumption
  <1>3. Len(pairs) \in 0 .. slots_len
    BY <1>1, SamePairs, P!Types DEF PairsInv
  <1>4. slots \in [Positions -> [gen : 0 .. GenMax, item : 0 .. NoSlot]]
    <2>1. slots \in [Positions -> [gen : Nat, item : Nat]]
      BY <1>1 DEF P!PairsOK, P!SlotsOK, Positions
    <2>2. ASSUME NEW i \in Positions PROVE slots[i].gen \in 0 .. GenMax /\ slots[i].item \in 0 .. NoSlot
      <3>1. CASE HoldsValue(i)
        <4>1. i \in 0 .. slots_len - 1 /\ P!Holds(i) /\ P!SlotsPointAtPairs
          BY <1>1, <3>1, SamePairs DEF Positions, PairsInv, SlotsMatchPairs
        <4>2. slots[i].item \in 0 .. Len(pairs) - 1
          BY <1>1, <4>1, P!OnePairEach
        <4>3. QED
          BY <1>1, <1>2, <1>3, <4>2, SlotFacts
      <3>2. CASE ~HoldsValue(i)
        BY <1>1, <3>2, SlotFacts
      <3>3. QED
        BY <3>1, <3>2
    <2>3. \A i \in Positions : slots[i] \in [gen : 0 .. GenMax, item : 0 .. NoSlot]
      BY <2>1, <2>2
    <2>4. QED
      BY <2>1, <2>3
  <1>5. target \in [idx : 0 .. NoSlot, gen : OddGens, from_free_list : BOOLEAN]
    <2>1. CASE mode = "entry"
      <3>1. /\ target = Target /\ Target.gen \in OddGens
            /\ Key(Target.idx, Target.gen) \in Keys
        BY <1>1, <2>1, SlotFacts
      <3>2. Target.idx \in 0 .. NoSlot
        BY <1>2, <3>1 DEF Key, Keys, ConfigAssumption
      <3>3. Target = [idx |-> Target.idx, gen |-> Target.gen,
                      from_free_list |-> Target.from_free_list]
        BY DEF Target
      <3>4. Target.from_free_list \in BOOLEAN
        BY DEF Target
      <3>5. QED
        BY <3>1, <3>2, <3>3, <3>4, TargetRecord
    <2>2. CASE mode # "entry"
      <3>1. 1 \in OddGens /\ FALSE \in BOOLEAN /\ NoSlot \in 0 .. NoSlot
        BY <1>2, SameConfig, SameNames, G!ZeroIsEven
      <3>2. target = [idx |-> NoSlot, gen |-> 1, from_free_list |-> FALSE]
        BY <1>1, <2>2, SlotFacts DEF NoTarget
      <3>3. QED
        BY <3>1, <3>2, TargetRecord
    <2>3. QED
      BY <2>1, <2>2
  <1>6. position \in 0 .. MaxIdx + 1
    BY <1>1, <1>2, <1>3 DEF LoopInv
  <1>7. pairs \in Seq([key : Keys, value : Values])
    BY <1>1 DEF P!PairsOK, P!AnyPair
  <1>8. QED
    BY <1>1, <1>2, <1>4, <1>5, <1>6, <1>7, SlotFacts DEF TypeOK, LoopInv, RoomInv

-----------------------------------------------------------------------------
(* The theorems about states *)

\* Every variable has its type: among others, a slot never stores more than the
\* index type can, nor a generation more than the generation type can.
THEOREM TypeCorrect == Spec => []TypeOK
  <1>1. DenseInv => TypeOK
    BY ConfigAssumption, InvTypes
  <1>2. QED
    BY <1>1, Invariance, PTL

\* The slots and the pairs know of each other, after every step of every
\* method, also one that a panic or a forgotten DenseDrain cuts short: a key
\* that has a value finds it, and the pair that moves into the place of
\* another is found there.
THEOREM PairsFound == Spec => []SlotsMatchPairs
  <1>1. DenseInv => SlotsMatchPairs
    BY DEF DenseInv, PairsInv
  <1>2. QED
    BY <1>1, Invariance, PTL

\* The free list reaches each free slot, reaches nothing else and ends, although
\* the slots of a dense map hold positions that change as values move.
THEOREM FreeListSound == Spec => []FreeListComplete
  <1>1. DenseInv => FreeListComplete
    BY ConfigAssumption, SameList DEF DenseInv
  <1>2. QED
    BY <1>1, Invariance, PTL

\* What try_reserve promised holds until the calls that it promised are over.
THEOREM ReservePromise == Spec => []PromiseKept
  <1>1. DenseInv => PromiseKept
    BY DEF DenseInv, RoomInv
  <1>2. QED
    BY <1>1, Invariance, PTL

\* retain calls f once on every value, although values move to positions that
\* it has passed or not passed yet.
THEOREM RetainExact == Spec => []RetainSeesEachOnce
  <1>1. DenseInv => RetainSeesEachOnce
    BY DEF DenseInv, LoopInv
  <1>2. QED
    BY <1>1, Invariance, PTL

\* Whatever raw parts a map was made of, its parts follow the rules again after
\* every step, and no slot was lost from the free list.
THEOREM PartsKeepRules == PartsSpec => []PartsRules
  <1>1. DenseInv => PartsRules
    BY ConfigAssumption, SlotFacts, SameList DEF DenseInv, PairsInv, PartsRules
  <1>2. QED
    BY <1>1, PartsInvariance, PTL

-----------------------------------------------------------------------------
(* The map as a KeyedMap *)

contents == [k \in {j \in Keys : contains_key(j)} |-> get(k)]
reserved == {k \in Keys : detached_slot(k)}

\* The values by key are the same, in the slots or among the pairs.
SameView == G!contents = contents /\ G!reserved = reserved

LEMMA SameContents == SameView
  <1>1. ASSUME NEW k \in Keys
        PROVE  /\ G!contains_key(k) <=> contains_key(k)
               /\ G!detached_slot(k) <=> detached_slot(k)
               /\ contains_key(k) => G!get(k) = get(k)
    <2>1. /\ G!contains_key(k) <=> contains_key(k)
          /\ G!detached_slot(k) <=> detached_slot(k)
          /\ contains_key(k) => k.idx \in Positions /\ HoldsValue(k.idx)
      BY ConfigAssumption, SameKeys
    <2>2. ASSUME contains_key(k) PROVE G!get(k) = get(k)
      <3>1. Inlined[k.idx] = Slot(slots[k.idx].gen, At(slots[k.idx].item).value)
        BY <2>1, <2>2, InlinedSlot
      <3>2. QED
        BY <3>1 DEF Slot, G!get, get, stored_position
    <2>3. QED
      BY <2>1, <2>2
  <1>2. {j \in G!Keys : G!contains_key(j)} = {j \in Keys : contains_key(j)}
    BY <1>1, SameNames
  <1>3. G!contents = contents
    BY <1>1, <1>2 DEF G!contents, contents
  <1>4. G!reserved = reserved
    BY <1>1, SameNames DEF G!reserved, reserved
  <1>5. QED
    BY <1>3, <1>4 DEF SameView

LEMMA SameContentsNext == SameView /\ SameView'
  BY SameContents, PTL

\* The steps of KeyedMap are the same.
LEMMA SameSteps ==
  /\ \A k, v : G!Abs!Insert(k, v) <=> Abs!Insert(k, v)
  /\ \A k, v : G!Abs!Write(k, v) <=> Abs!Write(k, v)
  /\ \A k, v : G!Abs!Attach(k, v) <=> Abs!Attach(k, v)
  /\ \A k : G!Abs!Reserve(k) <=> Abs!Reserve(k)
  /\ \A k : G!Abs!Remove(k) <=> Abs!Remove(k)
  /\ \A k : G!Abs!Retire(k) <=> Abs!Retire(k)
  /\ \A k : G!Abs!Detach(k) <=> Abs!Detach(k)
  /\ \A k : G!Abs!Release(k) <=> Abs!Release(k)
  /\ G!Abs!Reset <=> Abs!Reset
  /\ G!Abs!Init <=> Abs!Init
  /\ UNCHANGED G!Abs!vars <=> UNCHANGED Abs!vars
  <1> USE SameContentsNext DEF SameView, G!contents, contents, G!reserved, reserved,
          G!Abs!Fresh, Abs!Fresh, G!Abs!IndexFree, Abs!IndexFree, G!Abs!With, Abs!With,
          G!Abs!Without, Abs!Without, G!Abs!GivenUp, Abs!GivenUp
  <1>1. \A k, v : G!Abs!Insert(k, v) <=> Abs!Insert(k, v)
    BY DEF G!Abs!Insert, Abs!Insert
  <1>2. \A k, v : G!Abs!Write(k, v) <=> Abs!Write(k, v)
    BY DEF G!Abs!Write, Abs!Write
  <1>3. \A k, v : G!Abs!Attach(k, v) <=> Abs!Attach(k, v)
    BY DEF G!Abs!Attach, Abs!Attach
  <1>4. \A k : G!Abs!Reserve(k) <=> Abs!Reserve(k)
    BY DEF G!Abs!Reserve, Abs!Reserve
  <1>5. \A k : G!Abs!Remove(k) <=> Abs!Remove(k)
    BY DEF G!Abs!Remove, Abs!Remove
  <1>6. \A k : G!Abs!Retire(k) <=> Abs!Retire(k)
    BY DEF G!Abs!Retire, Abs!Retire
  <1>7. \A k : G!Abs!Detach(k) <=> Abs!Detach(k)
    BY DEF G!Abs!Detach, Abs!Detach
  <1>8. \A k : G!Abs!Release(k) <=> Abs!Release(k)
    BY DEF G!Abs!Release, Abs!Release
  <1>9. G!Abs!Reset <=> Abs!Reset
    BY DEF G!Abs!Reset, Abs!Reset
  <1>10. G!Abs!Init <=> Abs!Init
    BY DEF G!Abs!Init, Abs!Init
  <1>11. UNCHANGED G!Abs!vars <=> UNCHANGED Abs!vars
    BY DEF G!Abs!vars, Abs!vars
  <1>12. QED
    BY <1>1, <1>2, <1>3, <1>4, <1>5, <1>6, <1>7, <1>8, <1>9, <1>10, <1>11

LEMMA SameNext ==
  ASSUME [G!Abs!Next]_(G!Abs!vars)
  PROVE  [Abs!Next]_(Abs!vars)
  <1>1. CASE G!Abs!Next
    <2>1. G!Abs!Keys = Abs!Keys
      BY DEF G!Abs!Keys, Abs!Keys
    <2>2. Abs!Next
      BY <1>1, <2>1, SameSteps DEF G!Abs!Next, Abs!Next
    <2>3. QED
      BY <2>2
  <1>2. CASE UNCHANGED G!Abs!vars
    BY <1>2, SameSteps
  <1>3. QED
    BY <1>1, <1>2

\* A method that takes a key does what KeyedMap says of that key.
LEMMA KeyStepSound ==
  ASSUME ConfigAssumption, DenseInv, NEW k \in Keys
  PROVE  KeyStepRefines(k)
  <1>1. G!IInv /\ PairsInv
    BY DEF DenseInv
  <1>2. G!KeyStepRefines(k)
    <2>1. G!ConfigAssumption /\ k \in G!Keys
      BY SameConfig, SameNames
    <2>2. QED
      BY <1>1, <2>1, G!KeyStepSound
  <1>3. /\ Remove(k) => Abs!Remove(k)
        /\ Retire(k) => Abs!Retire(k)
        /\ Detach(k) => Abs!Detach(k)
        /\ Release(k) => Abs!Release(k)
    BY <1>1, <1>2, RemoveMaps, RetireMaps, DetachMaps, ReleaseMaps, SameSteps
    DEF G!KeyStepRefines
  <1>4. ASSUME NEW v \in Values
        PROVE  /\ Attach(k, v) => Abs!Attach(k, v)
               /\ Write(k, v) => Abs!Write(k, v)
    <2>1. /\ G!Attach(k, v) => G!Abs!Attach(k, v)
          /\ G!Write(k, v) => G!Abs!Write(k, v)
      BY <1>2 DEF G!KeyStepRefines
    <2>2. /\ Attach(k, v) => G!Attach(k, v)
          /\ Write(k, v) => G!Write(k, v)
      BY <1>1, AttachMaps, WriteMaps DEF Write, call
    <2>3. QED
      BY <2>1, <2>2, SameSteps
  <1>5. QED
    BY <1>3, <1>4 DEF KeyStepRefines

\* What a step does to the contents is one step of KeyedMap, or nothing.
LEMMA StepSound ==
  ASSUME ConfigAssumption, DenseInv, G!KeyBound, [Next]_vars
  PROVE  /\ [Abs!Next]_(Abs!vars) /\ [\A k \in Keys : KeyStepRefines(k)]_vars
         /\ G!KeyBound'
  <1>1. /\ G!ConfigAssumption /\ G!IInv /\ G!KeyBound
        /\ [G!Next]_(G!vars)
    BY SameConfig, StepMaps DEF DenseInv, Sound
  <1>2. [G!Abs!Next]_(G!Abs!vars) /\ G!KeyBound'
    BY <1>1, G!StepSound, G!StepBound
  <1>3. QED
    BY <1>2, SameNext, KeyStepSound

\* A dense map that was made of any raw parts does what KeyedMap promises: each
\* step of a method does to the values by key what KeyedMap says, although it
\* moves other values around, and hands out a fresh key if it hands one out.
THEOREM PartsRefine == PartsSpec => StepsOfKeyedMap
  <1>1. PartsInit => DenseInv /\ G!KeyBound
    BY ConfigAssumption, PartsInv DEF PartsInit, G!KeyBound
  <1>2. DenseInv /\ G!KeyBound /\ [Next]_vars =>
          /\ [Abs!Next]_(Abs!vars) /\ [\A k \in Keys : KeyStepRefines(k)]_vars
          /\ DenseInv' /\ G!KeyBound'
    BY ConfigAssumption, StepInv, StepSound
  <1>3. QED
    BY <1>1, <1>2, PTL DEF PartsSpec, StepsOfKeyedMap

\* And so does a new dense map, which is the empty map of KeyedMap.
THEOREM Refines == Spec => ImplementsKeyedMap
  <1>1. Init => DenseInv /\ G!KeyBound /\ Abs!Init
    <2>1. ASSUME Init PROVE Abs!Init
      BY <2>1, ConfigAssumption, InitMaps, G!InitRefines, SameSteps
    <2>2. QED
      BY <2>1, ConfigAssumption, InitInv DEF Init, G!KeyBound
  <1>2. DenseInv /\ G!KeyBound /\ [Next]_vars =>
          /\ [Abs!Next]_(Abs!vars) /\ [\A k \in Keys : KeyStepRefines(k)]_vars
          /\ DenseInv' /\ G!KeyBound'
    BY ConfigAssumption, StepInv, StepSound
  <1>3. QED
    BY <1>1, <1>2, PTL DEF Spec, ImplementsKeyedMap, StepsOfKeyedMap

=============================================================================
