--------------------------- MODULE SecondaryProofs ---------------------------
(***************************************************************************)
(* Theorems about SecondaryMap, for every key type, with keys from anyone  *)
(* and with those of a primary map.  The argument for the map alone: every *)
(* step sets one slot, and leaves the others alone (Sets).  The argument   *)
(* for the two maps: what the secondary map stores was handed out by the   *)
(* primary one, and a live key is the newest of its index (NewestLive).    *)
(***************************************************************************)
EXTENDS SecondaryWithPrimary, FiniteSetTheorems, TLAPS

\* The positions that hold a value.
Held == {i \in Positions : HoldsValue(i)}

\* What the caller sees: the values by index, with their generations.
Attached == [i \in {j \in Positions : HoldsValue(j)} |-> get_at(i)]

\* ... with a value stored under k, or without the one of index i.
Stored(k, v) ==
  [i \in DOMAIN Attached \union {k.idx} |->
     IF i = k.idx THEN Sparse!SparseSlot(k.gen, v) ELSE Attached[i]]
Without(i) == [j \in DOMAIN Attached \ {i} |-> Attached[j]]

\* A slot in the state that the methods leave it in.
GoodSlot(s) ==
  /\ s \in [gen : {0} \union OddGens, item : Values \union {0}]
  /\ s.item \in IF Odd(s.gen) THEN Values ELSE {0}

SlotsOK ==
  /\ slots_len \in 0 .. MaxIdx + 1
  /\ slots \in [Positions -> [gen : {0} \union OddGens, item : Values \union {0}]]
  /\ \A i \in Positions : GoodSlot(slots[i])

-----------------------------------------------------------------------------
(* Setting one slot *)

\* The slot i becomes s; the others stay, and new ones are empty.
Sets(i, s) ==
  /\ slots_len' \in 0 .. MaxIdx + 1 /\ slots_len' >= slots_len
  /\ i \in Positions' /\ Positions \subseteq Positions'
  /\ slots' = [j \in Positions' |->
                 IF j = i THEN s ELSE IF j \in Positions THEN slots[j] ELSE EmptySlot]

LEMMA KeyParts ==
  ASSUME SecondaryAssumption, NEW k \in Keys
  PROVE  /\ k = Key(k.idx, k.gen) /\ k.idx \in 0 .. MaxIdx /\ k.idx \in Nat
         /\ k.gen \in OddGens /\ k.gen \in Nat /\ Odd(k.gen)
         /\ ~Odd(0) /\ GoodSlot(EmptySlot)
         /\ \A v \in Values : GoodSlot(Slot(k.gen, v))
  BY DEF SecondaryAssumption, Keys, OddGens, Odd, Key, EmptySlot, Slot, GoodSlot

LEMMA Empty ==
  /\ ~Odd(0) /\ EmptySlot.gen = 0 /\ EmptySlot.item = 0 /\ GoodSlot(EmptySlot)
  BY DEF Odd, EmptySlot, Slot, GoodSlot

\* n slots are the first of m slots, which has room for i.
LEMMA Within ==
  ASSUME NEW n \in Nat, NEW i \in Nat, NEW m, m = IF i < n THEN n ELSE i + 1,
         NEW max \in Nat, i <= max, n <= max + 1
  PROVE  /\ m \in 0 .. max + 1 /\ m >= n /\ i \in 0 .. m - 1
         /\ 0 .. n - 1 \subseteq 0 .. m - 1
         /\ \A j \in 0 .. m - 1 : j \in 0 .. n - 1 <=> j < n
  OBVIOUS

LEMMA PutSets ==
  ASSUME SecondaryAssumption, SlotsOK, NEW i \in 0 .. MaxIdx, NEW s, put(i, s)
  PROVE  Sets(i, s)
  <1>1. /\ slots_len \in Nat /\ i \in Nat /\ MaxIdx \in Nat
        /\ i <= MaxIdx /\ slots_len <= MaxIdx + 1
    BY DEF SecondaryAssumption, SlotsOK
  <1>2. /\ slots_len' = IF i < slots_len THEN slots_len ELSE i + 1
        /\ slots' = [j \in 0 .. slots_len' - 1 |->
                       IF j = i THEN s ELSE IF j < slots_len THEN slots[j] ELSE EmptySlot]
    BY DEF put
  <1>3. /\ slots_len' \in 0 .. MaxIdx + 1 /\ slots_len' >= slots_len
        /\ i \in 0 .. slots_len' - 1 /\ 0 .. slots_len - 1 \subseteq 0 .. slots_len' - 1
        /\ \A j \in 0 .. slots_len' - 1 : j \in 0 .. slots_len - 1 <=> j < slots_len
    BY <1>1, <1>2, Within
  <1>4. slots' = [j \in 0 .. slots_len' - 1 |->
                    IF j = i THEN s
                    ELSE IF j \in 0 .. slots_len - 1 THEN slots[j] ELSE EmptySlot]
    BY <1>2, <1>3
  <1>5. QED
    BY <1>3, <1>4 DEF Sets, Positions

LEMMA RewriteSets ==
  ASSUME SlotsOK, NEW i \in Positions, NEW s,
         slots' = [slots EXCEPT ![i] = s], slots_len' = slots_len
  PROVE  Sets(i, s)
  <1>1. slots_len \in 0 .. MaxIdx + 1 /\ slots_len' >= slots_len /\ Positions' = Positions
    BY DEF SlotsOK, Positions
  <1>2. DOMAIN slots = Positions
    BY DEF SlotsOK
  <1>3. slots' = [j \in Positions |->
                    IF j = i THEN s ELSE IF j \in Positions THEN slots[j] ELSE EmptySlot]
    BY <1>2
  <1>4. QED
    BY <1>1, <1>3 DEF Sets

LEMMA SetsSlotsOK ==
  ASSUME SlotsOK, NEW i, NEW s, GoodSlot(s), Sets(i, s)
  PROVE  SlotsOK'
  <1>1. \A j \in Positions' : GoodSlot(slots'[j])
    BY Empty DEF Sets, SlotsOK
  <1>2. slots' \in [Positions' -> [gen : {0} \union OddGens, item : Values \union {0}]]
    BY <1>1 DEF Sets, GoodSlot
  <1>3. slots_len' \in 0 .. MaxIdx + 1
    BY DEF Sets
  <1>4. QED
    BY <1>1, <1>2, <1>3 DEF SlotsOK, GoodSlot

LEMMA SetsHeld ==
  ASSUME NEW i, NEW s, Sets(i, s)
  PROVE  /\ Odd(s.gen) => Held' = Held \union {i}
         /\ ~Odd(s.gen) => Held' = Held \ {i}
         /\ \A j \in Positions' : j # i =>
              /\ HoldsValue(j)' <=> j \in Positions /\ HoldsValue(j)
              /\ j \in Positions => get_at(j)' = get_at(j)
         /\ HoldsValue(i)' <=> Odd(s.gen)
         /\ get_at(i)' = [generation |-> s.gen, value |-> s.item]
  <1>1. /\ i \in Positions' /\ Positions \subseteq Positions' /\ slots'[i] = s
        /\ \A j \in Positions' : j # i =>
             slots'[j] = IF j \in Positions THEN slots[j] ELSE EmptySlot
    BY DEF Sets
  <1>2. \A j \in Positions' : j # i =>
          /\ HoldsValue(j)' <=> j \in Positions /\ HoldsValue(j)
          /\ j \in Positions => get_at(j)' = get_at(j)
    BY <1>1, Empty DEF HoldsValue, get_at
  <1>3. /\ HoldsValue(i)' <=> Odd(s.gen)
        /\ get_at(i)' = [generation |-> s.gen, value |-> s.item]
    BY <1>1 DEF HoldsValue, get_at
  <1>4. QED
    BY <1>1, <1>2, <1>3 DEF Held

LEMMA SetsStores ==
  ASSUME NEW k, NEW v, Odd(k.gen), Sets(k.idx, Slot(k.gen, v))
  PROVE  Attached' = Stored(k, v)
  <1> DEFINE i == k.idx
             g == k.gen
             s == Slot(g, v)
  <1>1. Odd(s.gen) /\ s.item = v /\ s.gen = g /\ Sets(i, s)
    BY DEF Slot
  <1> HIDE DEF i, g, s
  <1>2. /\ Held' = Held \union {i}
        /\ \A j \in Held' : j # i => j \in Held /\ get_at(j)' = get_at(j)
        /\ get_at(i)' = [generation |-> g, value |-> v]
    BY <1>1, SetsHeld DEF Held
  <1>3. Attached' = [j \in Held' |-> get_at(j)']
    BY DEF Attached, Held
  <1>4. DOMAIN Attached = Held /\ \A j \in Held : Attached[j] = get_at(j)
    BY DEF Attached, Held
  <1>5. Stored(k, v) = [j \in Held \union {i} |->
                          IF j = i THEN [generation |-> g, value |-> v] ELSE get_at(j)]
    BY <1>4 DEF Stored, Sparse!SparseSlot, i, g
  <1>6. QED
    BY <1>2, <1>3, <1>5

LEMMA SetsRemoves ==
  ASSUME NEW i, Sets(i, EmptySlot)
  PROVE  Attached' = Without(i)
  <1>1. /\ Held' = Held \ {i}
        /\ \A j \in Held' : j \in Held /\ get_at(j)' = get_at(j)
    BY Empty, SetsHeld DEF Held
  <1>2. Attached' = [j \in Held' |-> get_at(j)']
    BY DEF Attached, Held
  <1>3. DOMAIN Attached = Held /\ \A j \in Held : Attached[j] = get_at(j)
    BY DEF Attached, Held
  <1>4. QED
    BY <1>1, <1>2, <1>3 DEF Without

-----------------------------------------------------------------------------
(* The count *)

\* A set of positions below n has at most n members.
LEMMA PositionsBounded ==
  ASSUME NEW n \in Nat, NEW S \in SUBSET (0 .. n - 1)
  PROVE  IsFiniteSet(S) /\ Cardinality(S) \in 0 .. n
  <1>1. IsFiniteSet(0 .. n - 1) /\ Cardinality(0 .. n - 1) = n
    BY FS_Interval
  <1>2. IsFiniteSet(S) /\ Cardinality(S) <= n
    BY <1>1, FS_Subset
  <1>3. Cardinality(S) \in Nat
    BY <1>2, FS_CardinalityType
  <1>4. QED
    BY <1>2, <1>3

\* No more slots hold a value than the count can count.
LEMMA HeldBounded ==
  ASSUME SecondaryAssumption, LenAssumption, SlotsOK
  PROVE  IsFiniteSet(Held) /\ Cardinality(Held) \in 0 .. NoSlot
  <1>1. slots_len \in Nat /\ slots_len <= NoSlot /\ Held \in SUBSET (0 .. slots_len - 1)
    BY DEF SecondaryAssumption, LenAssumption, SlotsOK, Held, Positions
  <1>2. QED
    BY <1>1, PositionsBounded DEF LenAssumption

LEMMA GainOne ==
  ASSUME SecondaryAssumption, LenAssumption, SlotsOK, SlotsOK', LenExact, increment_len,
         NEW i, i \notin Held, Held' = Held \union {i}
  PROVE  LenExact'
  <1>1. /\ len = Cardinality(Held)
        /\ LenExact' <=> len' = Cardinality(Held')
    BY DEF LenExact, Held
  <1>2. IsFiniteSet(Held) /\ Cardinality(Held) \in 0 .. NoSlot /\ NoSlot \in Nat
    BY HeldBounded DEF LenAssumption
  <1>3. Cardinality(Held \union {i}) = Cardinality(Held) + 1
    BY <1>2, FS_AddElement
  <1>4. Cardinality(Held') \in 0 .. NoSlot
    <2>1. slots_len' \in Nat /\ slots_len' <= NoSlot /\ Held' \in SUBSET (0 .. slots_len' - 1)
      BY DEF SecondaryAssumption, LenAssumption, SlotsOK, Held, Positions
    <2>2. QED
      BY <1>2, <2>1, PositionsBounded
  <1>5. QED
    BY <1>1, <1>2, <1>3, <1>4 DEF increment_len

LEMMA LoseOne ==
  ASSUME SecondaryAssumption, LenAssumption, SlotsOK, LenExact, decrement_len,
         NEW i \in Held, Held' = Held \ {i}
  PROVE  LenExact'
  <1>1. /\ len = Cardinality(Held)
        /\ LenExact' <=> len' = Cardinality(Held')
    BY DEF LenExact, Held
  <1>2. IsFiniteSet(Held) /\ Cardinality(Held) \in 0 .. NoSlot /\ NoSlot \in Nat
    BY HeldBounded DEF LenAssumption
  <1>3. Cardinality(Held \ {i}) = Cardinality(Held) - 1 /\ Cardinality(Held \ {i}) \in Nat
    BY <1>2, FS_RemoveElement, FS_CardinalityType
  <1>4. QED
    BY <1>1, <1>2, <1>3 DEF decrement_len

LEMMA SameCount ==
  ASSUME LenExact, len' = len, Held' = Held
  PROVE  LenExact'
  BY DEF LenExact, Held


-----------------------------------------------------------------------------
(* The steps *)

Inserts(k, v) ==
  /\ Accepts(k) /\ asked' = k /\ Sets(k.idx, Slot(k.gen, v))
  /\ IF k.idx \in Held THEN UNCHANGED len ELSE increment_len
Removes(k) == contains_key(k) /\ asked' = k /\ Sets(k.idx, EmptySlot) /\ decrement_len
Writes(k, v) ==
  contains_key(k) /\ asked' = k /\ Sets(k.idx, Slot(k.gen, v)) /\ UNCHANGED len
Quiet == UNCHANGED <<slots, slots_len, len, asked>>

RoomInv ==
  /\ capacity \in slots_len .. StorageMax
  /\ mode \in {"idle", "clear", "retain", "drain"}
  /\ position \in 0 .. MaxIdx + 1

MapInv ==
  /\ SlotsOK /\ RoomInv /\ LenExact
  /\ len \in 0 .. NoSlot /\ asked \in Keys \union {NoKey}

LEMMA MapTypes ==
  ASSUME SecondaryAssumption, MapInv
  PROVE  /\ slots_len \in Nat /\ capacity \in slots_len .. StorageMax
         /\ slots_len <= MaxIdx + 1 /\ MaxIdx \in Nat
         /\ \A i \in Positions : i \in 0 .. MaxIdx
         /\ SlotsOK
  BY DEF SecondaryAssumption, MapInv, SlotsOK, RoomInv, Positions

\* The key under which slot i holds its value.
LEMMA SlotKey ==
  ASSUME SecondaryAssumption, MapInv, NEW i \in Positions, HoldsValue(i)
  PROVE  /\ Key(i, slots[i].gen) \in Keys /\ contains_key(Key(i, slots[i].gen))
         /\ Key(i, slots[i].gen).idx = i /\ Key(i, slots[i].gen).gen = slots[i].gen
  <1>1. slots[i].gen \in {0} \union OddGens /\ Odd(slots[i].gen) /\ i \in 0 .. MaxIdx
    BY MapTypes DEF SlotsOK, GoodSlot, HoldsValue
  <1>2. slots[i].gen \in OddGens
    BY <1>1, Empty
  <1>3. QED
    BY <1>1, <1>2 DEF Keys, Key, contains_key

LEMMA Known ==
  ASSUME SecondaryAssumption, NEW k \in Keys, contains_key(k)
  PROVE  k.idx \in Positions /\ HoldsValue(k.idx) /\ k.idx \in Held /\ k.gen = slots[k.idx].gen
  BY KeyParts DEF contains_key, HoldsValue, Held

LEMMA SlotsRoom ==
  ASSUME SecondaryAssumption, MapInv, NEW n \in Nat, ensure_room(n)
  PROVE  capacity' \in slots_len + n .. StorageMax /\ capacity' \in slots_len .. StorageMax
  BY MapTypes DEF ensure_room, SecondaryAssumption

LEMMA InsertKind ==
  ASSUME SecondaryAssumption, MapInv, NEW k \in Keys, NEW v \in Values, Insert(k, v)
  PROVE  Inserts(k, v) /\ RoomInv'
  <1>1. /\ Accepts(k) /\ asked' = k /\ put(k.idx, Slot(k.gen, v)) /\ UNCHANGED <<mode, position>>
        /\ IF k.idx \in Held THEN UNCHANGED len ELSE increment_len
    BY DEF Insert, Held
  <1>2. Sets(k.idx, Slot(k.gen, v))
    BY <1>1, MapTypes, KeyParts, PutSets
  <1>3. capacity' \in slots_len' .. StorageMax
    <2> DEFINE i == k.idx
    <2>1. i \in Nat /\ slots_len \in Nat /\ capacity \in slots_len .. StorageMax
      BY MapTypes, KeyParts
    <2>2. /\ IF i < slots_len THEN UNCHANGED capacity ELSE ensure_room(i - slots_len + 1)
          /\ slots_len' = IF i < slots_len THEN slots_len ELSE i + 1
      BY <1>1 DEF put
    <2> HIDE DEF i
    <2>3. CASE i < slots_len
      BY <2>1, <2>2, <2>3
    <2>4. CASE ~(i < slots_len)
      <3>1. ensure_room(i - slots_len + 1) /\ i - slots_len + 1 \in Nat
        BY <2>1, <2>2, <2>4
      <3>2. capacity' \in slots_len + (i - slots_len + 1) .. StorageMax
        BY <3>1, SlotsRoom
      <3>3. QED
        BY <2>1, <2>2, <2>4, <3>2
    <2>5. QED
      BY <2>3, <2>4
  <1>4. QED
    BY <1>1, <1>2, <1>3 DEF Inserts, RoomInv, MapInv

\* A value is taken out, or written, where the slot is in place.
LEMMA InPlace ==
  ASSUME SecondaryAssumption, MapInv, NEW k \in Keys, contains_key(k), asked' = k,
         slots_len' = slots_len, capacity' = capacity, mode' = mode,
         position' = position \/ position' = k.idx + 1
  PROVE  /\ slots' = [slots EXCEPT ![k.idx] = EmptySlot] /\ decrement_len => Removes(k)
         /\ \A v : slots' = [slots EXCEPT ![k.idx] = Slot(k.gen, v)] /\ len' = len
              => Writes(k, v)
         /\ RoomInv'
  <1>1. k.idx \in Positions /\ SlotsOK
    BY Known, MapTypes
  <1>2. position' \in 0 .. MaxIdx + 1
    BY KeyParts, MapTypes DEF MapInv, RoomInv
  <1>3. RoomInv'
    BY <1>2 DEF MapInv, RoomInv
  <1>4. ASSUME slots' = [slots EXCEPT ![k.idx] = EmptySlot] PROVE Sets(k.idx, EmptySlot)
    BY <1>1, <1>4, RewriteSets
  <1>5. ASSUME NEW v, slots' = [slots EXCEPT ![k.idx] = Slot(k.gen, v)]
        PROVE  Sets(k.idx, Slot(k.gen, v))
    BY <1>1, <1>5, RewriteSets
  <1>6. QED
    BY <1>3, <1>4, <1>5 DEF Removes, Writes

LEMMA KeyKinds ==
  ASSUME SecondaryAssumption, MapInv, NEW k \in Keys, KeyStep(k)
  PROVE  RoomInv' /\ (Removes(k) \/ \E v \in Values : Inserts(k, v) \/ Writes(k, v))
  <1>1. ASSUME NEW v \in Values, Insert(k, v) PROVE RoomInv' /\ Inserts(k, v)
    BY <1>1, InsertKind
  <1>2. CASE Remove(k)
    BY <1>2, InPlace DEF Remove, take
  <1>3. ASSUME NEW v \in Values, Write(k, v) PROVE RoomInv' /\ Writes(k, v)
    BY <1>3, InPlace DEF Write
  <1>4. QED
    BY <1>1, <1>2, <1>3 DEF KeyStep

LEMMA OtherKinds ==
  ASSUME SecondaryAssumption, MapInv, OtherStep
  PROVE  /\ RoomInv'
         /\ Quiet \/ \E k \in Keys : Removes(k) \/ \E v \in Values : Writes(k, v)
  <1>1. ASSUME NEW n \in 1 .. StorageMax, Reserve(n) PROVE RoomInv' /\ Quiet
    <2>1. capacity' \in slots_len .. StorageMax
      BY <1>1, SlotsRoom DEF Reserve, SecondaryAssumption
    <2>2. QED
      BY <1>1, <2>1 DEF Reserve, Quiet, RoomInv, MapInv
  <1>2. ASSUME NEW m \in {"clear", "retain", "drain"}, Begin(m) PROVE RoomInv' /\ Quiet
    BY <1>2, MapTypes DEF Begin, Quiet, RoomInv, MapInv
  <1>3. CASE TakeNext
    <2>1. PICK i \in Positions : Reaches(i) /\ take(i) /\ asked' = Key(i, slots[i].gen)
                                 /\ position' = i + 1
      BY <1>3 DEF TakeNext
    <2>2. HoldsValue(i) /\ mode' = mode
      BY <1>3, <2>1 DEF TakeNext, Reaches
    <2> DEFINE k == Key(i, slots[i].gen)
    <2>3. k \in Keys /\ contains_key(k) /\ k.idx = i
      BY <2>2, SlotKey
    <2>4. /\ asked' = k /\ slots_len' = slots_len /\ capacity' = capacity
          /\ slots' = [slots EXCEPT ![k.idx] = EmptySlot] /\ decrement_len
      BY <2>1, <2>3 DEF take
    <2> HIDE DEF k
    <2>5. Removes(k) /\ RoomInv'
      BY <2>1, <2>2, <2>3, <2>4, InPlace
    <2>6. QED
      BY <2>3, <2>5
  <1>4. ASSUME NEW v \in Values, RetainKeep(v)
        PROVE  RoomInv' /\ \E k \in Keys : Writes(k, v)
    <2>1. PICK i \in Positions : /\ Reaches(i) /\ slots' = [slots EXCEPT ![i] = Slot(slots[i].gen, v)]
                                 /\ asked' = Key(i, slots[i].gen) /\ position' = i + 1
      BY <1>4 DEF RetainKeep
    <2>2. HoldsValue(i) /\ mode' = mode /\ UNCHANGED <<slots_len, capacity, len>>
      BY <1>4, <2>1 DEF RetainKeep, Reaches
    <2> DEFINE k == Key(i, slots[i].gen)
    <2>3. k \in Keys /\ contains_key(k) /\ k.idx = i /\ k.gen = slots[i].gen
      BY <2>2, SlotKey
    <2>4. asked' = k /\ slots' = [slots EXCEPT ![k.idx] = Slot(k.gen, v)]
      BY <2>1, <2>3
    <2> HIDE DEF k
    <2>5. Writes(k, v) /\ RoomInv'
      BY <2>1, <2>2, <2>3, <2>4, InPlace
    <2>6. QED
      BY <2>3, <2>5
  <1>5. CASE Finish
    BY <1>5, MapTypes DEF Finish, Quiet, RoomInv, MapInv
  <1>6. QED
    BY <1>1, <1>2, <1>3, <1>4, <1>5 DEF OtherStep

\* A step keeps the invariant, and is one of a SparseSecondaryMap or a stutter.
Sound == MapInv' /\ (Sparse!Next \/ UNCHANGED Sparse!vars)

LEMMA SparseSteps ==
  ASSUME SecondaryAssumption, NEW k \in Keys
  PROVE  /\ Sparse!Keys = Keys
         /\ contains_key(k) /\ Attached' = Without(k.idx) /\ asked' = k => Sparse!Remove(k)
         /\ \A v : /\ Accepts(k) /\ Attached' = Stored(k, v) /\ asked' = k => Sparse!Insert(k, v)
                   /\ contains_key(k) /\ Attached' = Stored(k, v) /\ asked' = k
                        => Sparse!Write(k, v)
  <1>1. Sparse!Keys = Keys
    BY DEF Sparse!Keys, Keys, OddGens, Odd
  <1>2. /\ k.idx \in DOMAIN Attached <=> k.idx \in Positions /\ HoldsValue(k.idx)
        /\ k.idx \in DOMAIN Attached => Attached[k.idx].generation = slots[k.idx].gen
    BY DEF Attached, get_at
  <1>3. contains_key(k) => Sparse!contains_key(k)
    <2>1. Sparse!contains_key(k)
            <=> k.idx \in DOMAIN Attached /\ Attached[k.idx].generation = k.gen
      BY DEF Sparse!contains_key, Attached
    <2>2. QED
      BY <1>2, <2>1, Known
  <1>4. ASSUME NEW v, Attached' = Stored(k, v), asked' = k PROVE Sparse!Store(k, v)
    BY <1>4 DEF Sparse!Store, Attached, Stored
  <1>5. ASSUME NEW v, Accepts(k), Attached' = Stored(k, v), asked' = k
        PROVE  Sparse!Insert(k, v)
    <2>1. k.idx \in DOMAIN Attached =>
            LET current == Attached[k.idx].generation
            IN  current = k.gen \/ <<current, k.gen>> \in Strategy
      BY <1>2, <1>5 DEF Accepts
    <2>2. Sparse!Store(k, v)
      BY <1>4, <1>5
    <2>3. QED
      BY <2>1, <2>2 DEF Sparse!Insert, Attached
  <1>6. ASSUME contains_key(k), Attached' = Without(k.idx), asked' = k PROVE Sparse!Remove(k)
    <2>1. Sparse!contains_key(k)
      BY <1>3, <1>6
    <2>2. QED
      BY <1>6, <2>1 DEF Sparse!Remove, Attached, Without
  <1>7. QED
    BY <1>1, <1>3, <1>4, <1>5, <1>6 DEF Sparse!Write

\* A step that sets the slot of k.
LEMMA KindSound ==
  ASSUME SecondaryAssumption, LenAssumption, MapInv, RoomInv', NEW k \in Keys,
         Removes(k) \/ \E v \in Values : Inserts(k, v) \/ Writes(k, v)
  PROVE  Sound
  <1>1. /\ SlotsOK /\ LenExact /\ Odd(k.gen) /\ ~Odd(EmptySlot.gen)
        /\ \A v : Odd(Slot(k.gen, v).gen)
    BY KeyParts, Empty DEF MapInv, Slot
  <1>2. SlotsOK' /\ LenExact' => MapInv'
    <2>1. asked' \in Keys
      BY DEF Removes, Inserts, Writes
    <2>2. SlotsOK' /\ LenExact' => len' \in 0 .. NoSlot
      <3>1. Cardinality(Held') \in 0 .. NoSlot \/ ~SlotsOK'
        <4>1. ASSUME SlotsOK'
              PROVE  /\ slots_len' \in Nat /\ slots_len' <= NoSlot
                     /\ Held' \in SUBSET (0 .. slots_len' - 1) /\ NoSlot \in Nat
          BY <4>1 DEF SecondaryAssumption, LenAssumption, SlotsOK, Held, Positions
        <4>2. ASSUME SlotsOK' PROVE Cardinality(Held') \in 0 .. slots_len'
          BY <4>1, <4>2, PositionsBounded
        <4>3. QED
          BY <4>1, <4>2
      <3>2. QED
        BY <3>1 DEF LenExact, Held
    <2>3. QED
      BY <2>1, <2>2 DEF MapInv
  <1>3. CASE Removes(k)
    <2>1. k.idx \in Held /\ contains_key(k) /\ Sets(k.idx, EmptySlot) /\ asked' = k /\ decrement_len
      BY <1>3, Known DEF Removes
    <2>2. SlotsOK' /\ Held' = Held \ {k.idx} /\ Attached' = Without(k.idx)
      BY <1>1, <2>1, Empty, SetsSlotsOK, SetsHeld, SetsRemoves
    <2>3. LenExact'
      BY <1>1, <2>1, <2>2, LoseOne
    <2>4. Sparse!Remove(k)
      BY <2>1, <2>2, SparseSteps
    <2>5. QED
      BY <1>2, <2>2, <2>3, <2>4, SparseSteps DEF Sound, Sparse!Next
  <1>4. ASSUME NEW v \in Values, Sets(k.idx, Slot(k.gen, v))
        PROVE  SlotsOK' /\ Held' = Held \union {k.idx} /\ Attached' = Stored(k, v)
    <2>1. GoodSlot(Slot(k.gen, v))
      BY KeyParts
    <2>2. SlotsOK'
      BY <1>1, <1>4, <2>1, SetsSlotsOK
    <2>3. Held' = Held \union {k.idx}
      BY <1>1, <1>4, SetsHeld
    <2>4. Attached' = Stored(k, v)
      BY <1>1, <1>4, SetsStores
    <2>5. QED
      BY <2>2, <2>3, <2>4
  <1>5. ASSUME NEW v \in Values, Inserts(k, v) PROVE Sound
    <2>1. SlotsOK' /\ Held' = Held \union {k.idx} /\ Attached' = Stored(k, v)
      BY <1>4, <1>5 DEF Inserts
    <2>2. LenExact'
      <3>1. CASE k.idx \in Held
        BY <1>1, <1>5, <2>1, <3>1, SameCount DEF Inserts
      <3>2. CASE k.idx \notin Held
        BY <1>1, <1>5, <2>1, <3>2, GainOne DEF Inserts
      <3>3. QED
        BY <3>1, <3>2
    <2>3. Sparse!Insert(k, v)
      BY <1>5, <2>1, SparseSteps DEF Inserts
    <2>4. QED
      BY <1>2, <2>1, <2>2, <2>3, SparseSteps DEF Sound, Sparse!Next
  <1>6. ASSUME NEW v \in Values, Writes(k, v) PROVE Sound
    <2>1. SlotsOK' /\ Held' = Held \union {k.idx} /\ Attached' = Stored(k, v)
      BY <1>4, <1>6 DEF Writes
    <2>2. k.idx \in Held
      BY <1>6, Known DEF Writes
    <2>3. LenExact'
      BY <1>1, <1>6, <2>1, <2>2, SameCount DEF Writes
    <2>4. Sparse!Write(k, v)
      BY <1>6, <2>1, SparseSteps DEF Writes
    <2>5. QED
      BY <1>2, <2>1, <2>3, <2>4, SparseSteps DEF Sound, Sparse!Next
  <1>7. QED
    BY <1>3, <1>5, <1>6

LEMMA QuietSound ==
  ASSUME MapInv, RoomInv', Quiet
  PROVE  Sound
  <1>1. SlotsOK' /\ Held' = Held /\ Attached' = Attached
    BY DEF Quiet, MapInv, SlotsOK, Held, HoldsValue, Positions, Attached, get_at
  <1>2. LenExact'
    BY <1>1, SameCount DEF Quiet, MapInv
  <1>3. QED
    BY <1>1, <1>2 DEF Sound, Sparse!vars, Quiet, MapInv, Attached

LEMMA StepSound ==
  ASSUME SecondaryAssumption, LenAssumption, MapInv, [Next]_vars
  PROVE  Sound
  <1>1. ASSUME NEW k \in Keys, KeyStep(k) PROVE Sound
    BY <1>1, KeyKinds, KindSound
  <1>2. CASE OtherStep
    BY <1>2, OtherKinds, KindSound, QuietSound
  <1>3. CASE UNCHANGED vars
    BY <1>3, QuietSound DEF vars, Quiet, RoomInv, MapInv
  <1>4. QED
    BY <1>1, <1>2, <1>3 DEF Next

LEMMA InitSound ==
  ASSUME SecondaryAssumption, LenAssumption, Init
  PROVE  MapInv /\ Sparse!Init
  <1>1. /\ slots = [i \in {} |-> EmptySlot] /\ slots_len = 0 /\ asked = NoKey /\ len = 0
        /\ Positions = {}
    BY DEF Init, Positions
  <1>2. Held = {} /\ LenExact
    BY <1>1, FS_EmptySet DEF Held, LenExact
  <1>3. SlotsOK /\ RoomInv
    BY <1>1 DEF SlotsOK, RoomInv, Init, SecondaryAssumption
  <1>4. Attached = [i \in {} |-> 0]
    BY <1>1 DEF Attached
  <1>5. NoKey = Sparse!NoKey
    BY DEF NoKey, Sparse!NoKey, Key
  <1>6. QED
    BY <1>1, <1>2, <1>3, <1>4, <1>5 DEF MapInv, Sparse!Init, Attached, LenAssumption

LEMMA Invariance == Spec => []MapInv
  <1>1. SecondaryAssumption /\ LenAssumption
    BY SecondaryAssumption, LenAssumption
  <1>2. Init => MapInv
    BY <1>1, InitSound
  <1>3. MapInv /\ [Next]_vars => MapInv'
    BY <1>1, StepSound DEF Sound
  <1>4. QED
    BY <1>2, <1>3, PTL DEF Spec

\* The types of the map's state: no slot is left with a generation but without
\* a value, so that an empty slot accepts every key.
THEOREM TypeCorrect == Spec => []TypeOK
  <1>1. MapInv => TypeOK
    BY DEF MapInv, SlotsOK, RoomInv, TypeOK, GoodSlot, HoldsValue
  <1>2. QED
    BY <1>1, Invariance, PTL

\* len is the number of values, at every point where a panic of the caller's
\* code can leave the map, and never wraps.
THEOREM CountExact == Spec => []LenExact
  <1>1. MapInv => LenExact
    BY DEF MapInv
  <1>2. QED
    BY <1>1, Invariance, PTL

\* The secondary map implements the sparse one, whoever the keys are from.
THEOREM Refines == Spec => ImplementsSparse
  <1>1. SecondaryAssumption /\ LenAssumption
    BY SecondaryAssumption, LenAssumption
  <1>2. Init => Sparse!Init
    BY <1>1, InitSound
  <1>3. MapInv /\ [Next]_vars => [Sparse!Next]_(Sparse!vars)
    BY <1>1, StepSound DEF Sound
  <1>4. QED
    BY <1>2, <1>3, Invariance, PTL DEF Spec, ImplementsSparse, Sparse!Spec


-----------------------------------------------------------------------------
(* With the primary map *)

\* A live key was handed out, and none of its index was handed out after it.
NewestLive ==
  /\ used \subseteq Keys /\ Live \subseteq used
  /\ \A k \in Live, j \in used : j.idx = k.idx => j.gen <= k.gen

\* The secondary map stores values for keys that were handed out.
StoredUsed == \A i \in Positions : HoldsValue(i) => Key(i, slots[i].gen) \in used

SysInv == MapInv /\ NewestLive /\ StoredUsed

\* A key is handed out.
LEMMA HandsOut ==
  ASSUME SecondaryAssumption, NewestLive, NEW k \in Keys, Primary!Fresh(k),
         Live' = Live \union {k}, used' = used \union {k}
  PROVE  NewestLive'
  <1>1. /\ \A j \in used : j.idx = k.idx => j.gen < k.gen
        /\ \A j \in Live : j.idx # k.idx
    BY DEF Primary!Fresh, Primary!IndexFree, Live
  <1>2. \A j \in used' : j \in Keys /\ j.gen \in Nat
    BY KeyParts DEF NewestLive
  <1>3. ASSUME NEW l \in Live', NEW j \in used', j.idx = l.idx PROVE j.gen <= l.gen
    <2>1. CASE l = k
      BY <1>1, <1>2, <1>3, <2>1
    <2>2. CASE l # k
      <3>1. l \in Live /\ j # k /\ j \in used
        BY <1>1, <1>3, <2>2
      <3>2. QED
        BY <1>3, <3>1 DEF NewestLive
    <2>3. QED
      BY <2>1, <2>2
  <1>4. QED
    BY <1>2, <1>3 DEF NewestLive

\* No key is handed out, and no key comes to life.
LEMMA NoNewKey ==
  ASSUME NewestLive, Live' \subseteq Live, used' = used
  PROVE  NewestLive'
  BY DEF NewestLive

LEMMA PrimaryKeepsNewest ==
  ASSUME SecondaryAssumption, NewestLive, Primary!Next, used \subseteq used'
  PROVE  NewestLive'
  <1>1. Primary!Keys = Keys
    BY DEF Primary!Keys, Keys, OddGens, Odd
  <1>2. ASSUME NEW k \in Keys, NEW v, Primary!Insert(k, v) PROVE NewestLive'
    BY <1>2, HandsOut DEF Primary!Insert, Primary!With, Live
  <1>3. ASSUME NEW k \in Keys, Primary!Reserve(k) PROVE NewestLive'
    BY <1>3, HandsOut DEF Primary!Reserve, Live
  <1>4. ASSUME NEW k \in Keys, NEW v, Primary!Write(k, v) \/ Primary!Attach(k, v)
        PROVE  NewestLive'
    BY <1>4, NoNewKey DEF Primary!Write, Primary!Attach, Primary!With, Live
  <1>5. ASSUME NEW k \in Keys,
               Primary!Remove(k) \/ Primary!Retire(k) \/ Primary!Detach(k) \/ Primary!Release(k)
        PROVE  NewestLive'
    BY <1>5, NoNewKey
    DEF Primary!Remove, Primary!Retire, Primary!Detach, Primary!Release, Primary!Without, Live
  <1>6. CASE Primary!Reset
    BY <1>6 DEF Primary!Reset, NewestLive, Live
  <1>7. QED
    BY <1>1, <1>2, <1>3, <1>4, <1>5, <1>6 DEF Primary!Next

\* What the secondary map stores after it set one slot.
LEMMA StoresUsed ==
  ASSUME SecondaryAssumption, StoredUsed, used \subseteq used', NEW k \in Keys,
         \/ Removes(k)
         \/ k \in used /\ \E v \in Values : Inserts(k, v)
         \/ \E v \in Values : Writes(k, v)
  PROVE  StoredUsed'
  <1>1. \A s : Sets(k.idx, s) =>
          \A j \in Positions' : slots'[j] = IF j = k.idx THEN s
                                            ELSE IF j \in Positions THEN slots[j] ELSE EmptySlot
    BY DEF Sets
  <1>2. ASSUME Removes(k) PROVE StoredUsed'
    BY <1>1, <1>2, Empty DEF Removes, StoredUsed, HoldsValue
  <1>3. ASSUME k \in used, NEW v \in Values, Sets(k.idx, Slot(k.gen, v)) PROVE StoredUsed'
    <2>1. k = Key(k.idx, k.gen) /\ Slot(k.gen, v).gen = k.gen
      BY KeyParts DEF Slot
    <2>2. QED
      BY <1>1, <1>3, <2>1, Empty DEF StoredUsed, HoldsValue
  <1>4. contains_key(k) => k \in used
    BY Known, KeyParts DEF StoredUsed
  <1>5. QED
    BY <1>2, <1>3, <1>4 DEF Inserts, Writes

\* A step of the secondary map alone, with a key that was handed out.
LEMMA SecondaryKinds ==
  ASSUME SecondaryAssumption, SysInv, SecondaryStep
  PROVE  /\ [Next]_vars /\ UNCHANGED primary_vars
         /\ \/ Quiet
            \/ \E k \in Keys : \/ Removes(k)
                               \/ k \in used /\ \E v \in Values : Inserts(k, v)
                               \/ \E v \in Values : Writes(k, v)
  <1>1. used \subseteq Keys
    BY DEF SysInv, NewestLive
  <1>2. ASSUME NEW k \in used, KeyStep(k)
        PROVE  /\ Next
               /\ \/ Removes(k)
                  \/ k \in used /\ \E v \in Values : Inserts(k, v)
                  \/ \E v \in Values : Writes(k, v)
    BY <1>1, <1>2, KeyKinds DEF SysInv, Next
  <1>3. ASSUME OtherStep
        PROVE  /\ Next
               /\ Quiet \/ \E k \in Keys : Removes(k) \/ \E v \in Values : Writes(k, v)
    BY <1>3, OtherKinds DEF SysInv, Next
  <1>4. QED
    BY <1>1, <1>2, <1>3 DEF SecondaryStep

LEMMA SysStep ==
  ASSUME SecondaryAssumption, LenAssumption, SysInv, [SysNext]_<<vars, primary_vars>>
  PROVE  SysInv' /\ [Next]_vars
  <1>1. CASE PrimaryStep
    <2>1. NewestLive' /\ used \subseteq used' /\ UNCHANGED vars
      BY <1>1, PrimaryKeepsNewest DEF PrimaryStep, SysInv
    <2>2. MapInv'
      BY <2>1, StepSound DEF SysInv, Sound
    <2>3. StoredUsed'
      BY <2>1 DEF SysInv, StoredUsed, vars, Positions, HoldsValue
    <2>4. QED
      BY <2>1, <2>2, <2>3 DEF SysInv
  <1>2. CASE SecondaryStep
    <2>1. [Next]_vars /\ UNCHANGED primary_vars
      BY <1>2, SecondaryKinds
    <2>2. MapInv'
      BY <2>1, StepSound DEF SysInv, Sound
    <2>3. NewestLive' /\ used' = used
      BY <2>1 DEF SysInv, NewestLive, primary_vars, Live
    <2>4. StoredUsed'
      <3>1. CASE Quiet
        BY <2>3, <3>1 DEF Quiet, SysInv, StoredUsed, Positions, HoldsValue
      <3>2. CASE ~Quiet
        BY <1>2, <2>3, <3>2, SecondaryKinds, StoresUsed DEF SysInv
      <3>3. QED
        BY <3>1, <3>2
    <2>5. QED
      BY <2>1, <2>2, <2>3, <2>4 DEF SysInv
  <1>3. CASE UNCHANGED <<vars, primary_vars>>
    <2>1. MapInv'
      BY <1>3, StepSound DEF SysInv, Sound
    <2>2. NewestLive' /\ StoredUsed'
      BY <1>3
      DEF SysInv, NewestLive, primary_vars, Live, StoredUsed, vars, Positions, HoldsValue
    <2>3. QED
      BY <1>3, <2>1, <2>2 DEF SysInv
  <1>4. QED
    BY <1>1, <1>2, <1>3 DEF SysNext

LEMMA SysInvariance == SysSpec => []SysInv
  <1>1. SecondaryAssumption /\ LenAssumption
    BY SecondaryAssumption, LenAssumption
  <1>2. SysInit => SysInv
    <2>1. SysInit => MapInv /\ NewestLive
      BY <1>1, InitSound DEF SysInit, Primary!Init, NewestLive, Live
    <2>2. SysInit => StoredUsed
      BY DEF SysInit, Init, StoredUsed, Positions
    <2>3. QED
      BY <2>1, <2>2 DEF SysInv
  <1>3. SysInv /\ [SysNext]_<<vars, primary_vars>> => SysInv'
    BY <1>1, SysStep
  <1>4. QED
    BY <1>2, <1>3, PTL DEF SysSpec

\* Beside a primary map whose keys it gets, the secondary map is the map that
\* the theorems above are about.
THEOREM RunsAlone == SysSpec => Spec
  <1>1. SecondaryAssumption /\ LenAssumption
    BY SecondaryAssumption, LenAssumption
  <1>2. SysInv /\ [SysNext]_<<vars, primary_vars>> => [Next]_vars
    BY <1>1, SysStep
  <1>3. SysInit => Init
    BY DEF SysInit
  <1>4. QED
    BY <1>2, <1>3, SysInvariance, PTL DEF SysSpec, Spec

\* NewerWins never refuses a live key: what its slot holds is older.
THEOREM LiveAccepted ==
  ASSUME NewerWins \subseteq Strategy
  PROVE  SysSpec => []LiveKeyNeverRefused
  <1>1. SecondaryAssumption
    BY SecondaryAssumption
  <1>2. SysInv => LiveKeyNeverRefused
    <2>1. SUFFICES ASSUME SysInv, NEW k \in Live, k.idx \in Positions, HoldsValue(k.idx)
                   PROVE  k.gen = slots[k.idx].gen \/ <<slots[k.idx].gen, k.gen>> \in Strategy
      BY DEF LiveKeyNeverRefused, Accepts
    <2> DEFINE g == slots[k.idx].gen
    <2>2. k \in Keys /\ k.gen \in OddGens /\ k.gen \in Nat
      BY <1>1, <2>1, KeyParts DEF SysInv, NewestLive
    <2>3. Key(k.idx, g) \in used /\ Key(k.idx, g) \in Keys
      BY <2>1 DEF SysInv, StoredUsed, NewestLive
    <2>4. g <= k.gen /\ g \in OddGens /\ g \in Nat
      BY <1>1, <2>1, <2>3, KeyParts DEF SysInv, NewestLive, Key
    <2> HIDE DEF g
    <2>5. g # k.gen => <<g, k.gen>> \in NewerWins
      BY <2>2, <2>4 DEF NewerWins
    <2>6. QED
      BY <2>5 DEF g
  <1>3. QED
    BY <1>2, SysInvariance, PTL

\* With NewerWins, a stale key never takes over, changes or removes what is
\* attached to a live one.
THEOREM LiveKept ==
  ASSUME Strategy \subseteq NewerWins
  PROVE  SysSpec => LiveDataKept
  <1>1. SecondaryAssumption
    BY SecondaryAssumption
  <1>2. ASSUME SysInv, [SysNext]_<<vars, primary_vars>>, NEW k \in Live, contains_key(k)
        PROVE  slots'[k.idx] = slots[k.idx] \/ asked' = k
    <2>1. /\ k \in Keys /\ k \in used /\ k.idx \in Positions /\ HoldsValue(k.idx)
          /\ k.gen = slots[k.idx].gen /\ k = Key(k.idx, k.gen)
      BY <1>1, <1>2, KeyParts, Known DEF SysInv, NewestLive
    <2>2. CASE UNCHANGED slots
      BY <2>2
    <2>3. ASSUME NEW j \in Keys,
                 \/ Removes(j)
                 \/ j \in used /\ \E v \in Values : Inserts(j, v)
                 \/ \E v \in Values : Writes(j, v)
          PROVE  slots'[k.idx] = slots[k.idx] \/ asked' = k
      <3>1. asked' = j /\ \E s : Sets(j.idx, s)
        BY <2>3 DEF Removes, Inserts, Writes
      <3>2. CASE j.idx # k.idx
        BY <2>1, <3>1, <3>2 DEF Sets
      <3>3. CASE j.idx = k.idx
        <4>1. contains_key(j) => j = k
          BY <1>1, <2>1, <3>3, Known, KeyParts
        <4>2. ASSUME j \in used, Accepts(j) PROVE j = k
          <5>1. j.gen = k.gen \/ <<k.gen, j.gen>> \in NewerWins
            BY <2>1, <3>3, <4>2 DEF Accepts
          <5>2. j.gen <= k.gen /\ j.gen \in Nat /\ k.gen \in Nat
            BY <1>1, <1>2, <2>1, <3>3, <4>2, KeyParts DEF SysInv, NewestLive
          <5>3. j.gen = k.gen
            BY <5>1, <5>2 DEF NewerWins
          <5>4. QED
            BY <1>1, <2>1, <3>3, <5>3, KeyParts
        <4>3. QED
          BY <2>3, <3>1, <4>1, <4>2 DEF Removes, Inserts, Writes
      <3>4. QED
        BY <3>2, <3>3
    <2>4. QED
      <3>1. CASE PrimaryStep \/ UNCHANGED <<vars, primary_vars>>
        BY <2>2, <3>1 DEF PrimaryStep, vars
      <3>2. CASE SecondaryStep
        BY <1>1, <1>2, <2>2, <2>3, <3>2, SecondaryKinds DEF Quiet
      <3>3. QED
        BY <1>2, <3>1, <3>2 DEF SysNext
  <1>3. SysInv /\ [SysNext]_<<vars, primary_vars>> =>
          [\A k \in Live : contains_key(k) =>
             slots'[k.idx] = slots[k.idx] \/ asked' = k]_<<vars, primary_vars>>
    BY <1>2
  <1>4. QED
    BY <1>3, SysInvariance, PTL DEF SysSpec, LiveDataKept

=============================================================================
