--------------------------- MODULE OwnershipProofs ---------------------------
(***************************************************************************)
(* Theorems about the two places where the crate owns values by hand:      *)
(* UnionSlot, for any number of slots and any generation type, and         *)
(* SingleVec, for items of any size and any capacity.  Both keep their     *)
(* values as Items does, and both arguments are of one form: a value is in *)
(* one place or gone, and every step moves, adds or takes away a value of  *)
(* which that was known.                                                   *)
(*                                                                         *)
(* In the slot, the field that was written last is the one that the parity *)
(* of the generation names (Written), so every read finds the value.  In   *)
(* the SingleVec, the positions of items are those between two bounds      *)
(* (OwnedRange), all of them written, in a block of the capacity's size.   *)
(***************************************************************************)
EXTENDS UnionSlot, SingleVec, FiniteSetTheorems, SequenceTheorems, TLAPS

-----------------------------------------------------------------------------
(* What is gone *)

\* A bag: nothing is in it zero times.
IsBag(b) == b \in [DOMAIN b -> Nat \ {0}]

\* Items that were not gone before leave.
LEMMA Added ==
  ASSUME NEW S, S \intersect DOMAIN gone = {}, IsBag(gone), gone' = gone (+) SetToBag(S)
  PROVE  /\ DOMAIN gone' = DOMAIN gone \union S /\ IsBag(gone')
         /\ \A n : TimesGone(n)' = IF n \in S THEN 1 ELSE TimesGone(n)
  <1>1. DOMAIN gone' = DOMAIN gone \union S /\ gone' = [n \in DOMAIN gone' |-> gone'[n]]
    BY DEF SetToBag, (+)
  <1>2. ASSUME NEW n \in DOMAIN gone PROVE gone'[n] = gone[n] /\ gone[n] \in Nat \ {0}
    BY DEF SetToBag, (+), IsBag
  <1>3. ASSUME NEW n \in S PROVE gone'[n] = 1
    BY DEF SetToBag, (+)
  <1>4. IsBag(gone')
    <2>1. \A n \in DOMAIN gone' : gone'[n] \in Nat \ {0}
      BY <1>1, <1>2, <1>3
    <2>2. QED
      BY <1>1, <2>1 DEF IsBag
  <1>5. ASSUME NEW n PROVE TimesGone(n)' = IF n \in S THEN 1 ELSE TimesGone(n)
    BY <1>1, <1>2, <1>3 DEF TimesGone, BagIn, BagToSet
  <1>6. QED
    BY <1>1, <1>4, <1>5

-----------------------------------------------------------------------------
(* The slot *)

Fields == {"odd", "even"}

\* A slot that exists, of which the field in use is the one that was written.
Written(x) ==
  /\ x \in [generation : Generations, value : [field : Fields, item : 1 .. made]]
  /\ x.value.field = FieldOf(x.generation)

\* The value in a slot, and the slots that have a value.
ItemOf(s) == slots[s].value.item
Holders(n) == {s \in Names : Exists(s) /\ ItemOf(s) = n}

\* The value n is in one slot, or was moved out or dropped once.
Somewhere(n) ==
  \/ Holders(n) = {} /\ TimesGone(n) = 1
  \/ TimesGone(n) = 0 /\ \E s \in Names : Holders(n) = {s}

SlotsOK ==
  /\ made \in Nat
  /\ DOMAIN slots = Names
  /\ \A s \in Names : slots[s] = NoSlot \/ Written(slots[s])
GoneOK ==
  /\ IsBag(gone)
  /\ DOMAIN gone \subseteq 1 .. made

SlotInv == SlotsOK /\ GoneOK /\ \A n \in 1 .. made : Somewhere(n)

-----------------------------------------------------------------------------
(* What is read and what is gone *)

LEMMA NoGeneration == ~(NoSlot.generation \in Generations)
  BY GenerationsAssumption DEF NoSlot, Generations

\* A read finds the value.
LEMMA Reads ==
  ASSUME SlotsOK, NEW s \in Names
  PROVE  /\ ~Exists(s) <=> slots[s] = NoSlot
         /\ Exists(s) => /\ Written(slots[s]) /\ ItemOf(s) \in 1 .. made
                         /\ Read(s, FieldOf(slots[s].generation)) = ItemOf(s)
  <1>1. slots[s] = NoSlot \/ Written(slots[s])
    BY DEF SlotsOK
  <1>2. CASE slots[s] = NoSlot
    BY <1>2, NoGeneration DEF Exists
  <1>3. CASE Written(slots[s])
    <2>1. slots[s].generation \in Generations /\ ItemOf(s) \in 1 .. made
      BY <1>3 DEF Written, ItemOf
    <2>2. slots[s] # NoSlot
      BY <2>1, NoGeneration
    <2>3. QED
      BY <1>3, <2>1, <2>2 DEF Exists, Read, ItemOf, Written
  <1>4. QED
    BY <1>1, <1>2, <1>3

\* The value of s leaves.
LEMMA LeaveEffect ==
  ASSUME SlotInv, NEW s \in Names, Exists(s), MoveOut(s)
  PROVE  /\ DOMAIN gone' = DOMAIN gone \union {ItemOf(s)} /\ IsBag(gone')
         /\ \A n : TimesGone(n)' = IF n = ItemOf(s) THEN 1 ELSE TimesGone(n)
         /\ TimesGone(ItemOf(s)) = 0 /\ Holders(ItemOf(s)) = {s}
  <1> DEFINE q == ItemOf(s)
  <1>1. /\ q \in 1 .. made /\ gone' = gone (+) SetToBag({q}) /\ s \in Holders(q)
        /\ IsBag(gone) /\ Somewhere(q)
    BY Reads DEF SlotInv, GoneOK, MoveOut, Holders
  <1> HIDE DEF q
  <1>2. TimesGone(q) = 0 /\ Holders(q) = {s}
    BY <1>1 DEF Somewhere
  <1>3. {q} \intersect DOMAIN gone = {}
    BY <1>1, <1>2 DEF TimesGone, IsBag, BagIn, BagToSet
  <1>4. /\ DOMAIN gone' = DOMAIN gone \union {q} /\ IsBag(gone')
        /\ \A n : TimesGone(n)' = IF n \in {q} THEN 1 ELSE TimesGone(n)
    BY <1>1, <1>3, Added
  <1>5. QED
    BY <1>2, <1>4 DEF q

-----------------------------------------------------------------------------
(* The steps *)

\* Slot s gets a new value, and its old one, if any, leaves.
Gets(s, g) ==
  /\ slots' = [slots EXCEPT ![s] = Slot(g, FieldOf(g), made + 1)]
  /\ made' = made + 1
  /\ IF Exists(s) THEN MoveOut(s) ELSE UNCHANGED gone

\* The value of s leaves, and s is gone.
Loses(s) ==
  /\ Exists(s) /\ MoveOut(s)
  /\ slots' = [slots EXCEPT ![s] = NoSlot]
  /\ UNCHANGED made

\* Slot s keeps its value under a generation of the same parity.
Renews(s, g) ==
  /\ Exists(s) /\ Odd(g) = Odd(slots[s].generation)
  /\ slots' = [slots EXCEPT ![s] = Slot(g, FieldOf(g), ItemOf(s))]
  /\ UNCHANGED <<made, gone>>

LEMMA GetsKeeps ==
  ASSUME SlotInv, NEW s \in Names, NEW g \in Generations, Gets(s, g)
  PROVE  SlotInv'
  <1>1. made \in Nat /\ made' = made + 1 /\ SlotsOK /\ GoneOK /\ DOMAIN slots' = Names
    BY DEF SlotInv, SlotsOK, Gets
  <1>2. /\ slots'[s] = Slot(g, FieldOf(g), made + 1)
        /\ \A t \in Names : t # s => slots'[t] = slots[t]
    BY <1>1 DEF Gets, SlotsOK
  <1>3. 1 .. made' = 1 .. made \union {made + 1} /\ made + 1 \notin 1 .. made
    BY <1>1
  <1>4. /\ Exists(s)' /\ ItemOf(s)' = made + 1
        /\ slots'[s] \in [generation : Generations, value : [field : Fields, item : 1 .. made']]
        /\ slots'[s].value.field = FieldOf(slots'[s].generation)
    BY <1>2, <1>3 DEF Exists, ItemOf, Slot, Fields, FieldOf
  <1>5. \A t \in Names : t # s => /\ slots'[t] = NoSlot \/ Written(slots[t])
                                  /\ Exists(t)' <=> Exists(t)
                                  /\ ItemOf(t)' = ItemOf(t)
    BY <1>1, <1>2 DEF SlotsOK, Exists, ItemOf
  <1>6. SlotsOK'
    <2>1. \A t \in Names : slots'[t] = NoSlot \/ Written(slots[t])' \/ t = s
      BY <1>2, <1>3, <1>5 DEF Written
    <2>2. Written(slots[s])'
      BY <1>4 DEF Written
    <2>3. QED
      BY <1>1, <2>1, <2>2 DEF SlotsOK
  <1>7. /\ \A n \in 1 .. made : Holders(n)' = Holders(n) \ {s}
        /\ \A n \in {made + 1} : Holders(n)' = {s}
    <2>1. \A t \in Names : Exists(t) => ItemOf(t) \in 1 .. made
      BY <1>1, Reads
    <2>2. \A n : Holders(n)' = (Holders(n) \ {s}) \union IF n = made + 1 THEN {s} ELSE {}
      BY <1>4, <1>5 DEF Holders
    <2>3. Holders(made + 1) = {} /\ \A n \in 1 .. made : n # made + 1
      BY <1>3, <2>1 DEF Holders
    <2>4. QED
      BY <2>2, <2>3
  <1>8. CASE Exists(s)
    <2>1. MoveOut(s)
      BY <1>8 DEF Gets
    <2>2. /\ DOMAIN gone' = DOMAIN gone \union {ItemOf(s)}
          /\ IsBag(gone')
          /\ \A n : TimesGone(n)' = IF n = ItemOf(s) THEN 1 ELSE TimesGone(n)
          /\ TimesGone(ItemOf(s)) = 0 /\ Holders(ItemOf(s)) = {s}
          /\ ItemOf(s) \in 1 .. made
      BY <1>1, <1>8, <2>1, LeaveEffect, Reads
    <2>3. GoneOK'
      BY <1>1, <1>3, <2>2 DEF GoneOK
    <2>4. ASSUME NEW n \in {made + 1} PROVE Somewhere(n)'
      <3>1. n \notin DOMAIN gone /\ n # ItemOf(s)
        BY <1>1, <1>3, <2>2 DEF GoneOK
      <3>2. TimesGone(n)' = 0
        BY <2>2, <3>1 DEF TimesGone, BagIn, BagToSet
      <3>3. QED
        BY <1>7, <3>2 DEF Somewhere
    <2>5. ASSUME NEW n \in 1 .. made PROVE Somewhere(n)'
      <3>1. Somewhere(n)
        BY DEF SlotInv
      <3>2. CASE n = ItemOf(s)
        BY <1>7, <2>2, <3>2 DEF Somewhere
      <3>3. CASE n # ItemOf(s)
        <4>1. s \notin Holders(n) /\ TimesGone(n)' = TimesGone(n)
          BY <2>2, <3>1, <3>3 DEF Holders, Somewhere
        <4>2. Holders(n)' = Holders(n)
          BY <1>7, <4>1
        <4>3. QED
          BY <3>1, <4>1, <4>2 DEF Somewhere
      <3>4. QED
        BY <3>2, <3>3
    <2>6. \A n \in 1 .. made' : Somewhere(n)'
      BY <1>3, <2>4, <2>5
    <2>7. QED
      BY <1>6, <2>3, <2>6 DEF SlotInv
  <1>9. CASE ~Exists(s)
    <2>1. gone' = gone
      BY <1>9 DEF Gets
    <2>2. GoneOK'
      BY <1>1, <1>3, <2>1 DEF GoneOK
    <2>3. \A n : TimesGone(n)' = TimesGone(n)
      BY <2>1 DEF TimesGone
    <2>4. ASSUME NEW n \in {made + 1} PROVE Somewhere(n)'
      <3>1. TimesGone(n)' = 0
        BY <1>1, <1>3, <2>1 DEF GoneOK, TimesGone, BagIn, BagToSet
      <3>2. QED
        BY <1>7, <3>1 DEF Somewhere
    <2>5. ASSUME NEW n \in 1 .. made PROVE Somewhere(n)'
      <3>1. Holders(n)' = Holders(n)
        BY <1>7, <1>9 DEF Holders
      <3>2. QED
        BY <2>3, <3>1 DEF Somewhere, SlotInv
    <2>6. \A n \in 1 .. made' : Somewhere(n)'
      BY <1>3, <2>4, <2>5
    <2>7. QED
      BY <1>6, <2>2, <2>6 DEF SlotInv
  <1>10. QED
    BY <1>8, <1>9

LEMMA LosesKeeps ==
  ASSUME SlotInv, NEW s \in Names, Loses(s)
  PROVE  SlotInv'
  <1>1. SlotsOK /\ GoneOK /\ DOMAIN slots' = Names /\ made' = made /\ Exists(s) /\ MoveOut(s)
    BY DEF SlotInv, SlotsOK, Loses
  <1>2. slots'[s] = NoSlot /\ \A t \in Names : t # s => slots'[t] = slots[t]
    BY <1>1 DEF Loses, SlotsOK
  <1>3. /\ DOMAIN gone' = DOMAIN gone \union {ItemOf(s)}
        /\ IsBag(gone')
        /\ \A n : TimesGone(n)' = IF n = ItemOf(s) THEN 1 ELSE TimesGone(n)
        /\ TimesGone(ItemOf(s)) = 0 /\ Holders(ItemOf(s)) = {s}
        /\ ItemOf(s) \in 1 .. made
    BY <1>1, LeaveEffect, Reads
  <1>4. SlotsOK' /\ GoneOK'
    BY <1>1, <1>2, <1>3 DEF SlotsOK, GoneOK, Written
  <1>5. \A n : Holders(n)' = Holders(n) \ {s}
    <2>1. ~Exists(s)'
      BY <1>2, NoGeneration DEF Exists
    <2>2. \A t \in Names : t # s => (Exists(t)' <=> Exists(t)) /\ ItemOf(t)' = ItemOf(t)
      BY <1>2 DEF Exists, ItemOf
    <2>3. QED
      BY <2>1, <2>2 DEF Holders
  <1>6. ASSUME NEW n \in 1 .. made PROVE Somewhere(n)'
    <2>1. Somewhere(n)
      BY DEF SlotInv
    <2>2. CASE n = ItemOf(s)
      BY <1>3, <1>5, <2>2 DEF Somewhere
    <2>3. CASE n # ItemOf(s)
      <3>1. s \notin Holders(n) /\ TimesGone(n)' = TimesGone(n)
        BY <1>3, <2>1, <2>3 DEF Holders, Somewhere
      <3>2. Holders(n)' = Holders(n)
        BY <1>5, <3>1
      <3>3. QED
        BY <2>1, <3>1, <3>2 DEF Somewhere
    <2>4. QED
      BY <2>2, <2>3
  <1>7. QED
    BY <1>1, <1>4, <1>6 DEF SlotInv

LEMMA RenewsKeeps ==
  ASSUME SlotInv, NEW s \in Names, NEW g \in Generations, Renews(s, g)
  PROVE  SlotInv'
  <1>1. /\ SlotsOK /\ GoneOK /\ DOMAIN slots' = Names /\ UNCHANGED <<made, gone>>
        /\ Exists(s) /\ ItemOf(s) \in 1 .. made
    BY Reads DEF SlotInv, SlotsOK, Renews
  <1>2. /\ slots'[s] = Slot(g, FieldOf(g), ItemOf(s))
        /\ \A t \in Names : t # s => slots'[t] = slots[t]
    BY <1>1 DEF Renews, SlotsOK
  <1>3. Written(slots[s])' /\ Exists(s)' /\ ItemOf(s)' = ItemOf(s)
    BY <1>1, <1>2 DEF Exists, ItemOf, Slot, Written, Fields, FieldOf
  <1>4. SlotsOK' /\ GoneOK'
    BY <1>1, <1>2, <1>3 DEF SlotsOK, GoneOK, Written
  <1>5. \A n : Holders(n)' = Holders(n) /\ TimesGone(n)' = TimesGone(n)
    BY <1>1, <1>2, <1>3 DEF Holders, Exists, ItemOf, TimesGone
  <1>6. QED
    BY <1>1, <1>4, <1>5 DEF SlotInv, Somewhere

-----------------------------------------------------------------------------
(* Every action is one of the three *)

\* What the actions come to, given the fields that were written.
Kinds ==
  \/ \E s \in Names, g \in Generations : Gets(s, g) \/ Renews(s, g)
  \/ \E s \in Names : Loses(s)

LEMMA ReplaceGets ==
  ASSUME SlotInv, NEW s \in Names, NEW g \in Generations,
         New(s, g) \/ Replace(s, g) \/ ReplaceUnchecked(s, g)
  PROVE  Gets(s, g)
  <1>1. CASE New(s, g)
    BY <1>1 DEF New, Gets
  <1>2. CASE Replace(s, g)
    BY <1>2 DEF Replace, Gets
  <1>3. CASE ReplaceUnchecked(s, g)
    <2>1. Exists(s) /\ Written(slots[s])
      BY <1>3, Reads DEF SlotInv, ReplaceUnchecked
    <2>2. DOMAIN slots = Names
      BY DEF SlotInv, SlotsOK
    <2> DEFINE v == [field |-> FieldOf(g), item |-> made + 1]
               x == [slots[s] EXCEPT !.generation = g]
    <2>3. slots' = [slots EXCEPT ![s] = [x EXCEPT !.value = v]]
      BY <1>3, <2>2 DEF ReplaceUnchecked
    <2>4. x = [generation |-> g, value |-> slots[s].value]
      BY <2>1 DEF Written
    <2> HIDE DEF x
    <2>5. [x EXCEPT !.value = v] = Slot(g, FieldOf(g), made + 1)
      BY <2>4 DEF Slot
    <2>6. QED
      BY <1>3, <2>1, <2>3, <2>5 DEF ReplaceUnchecked, Gets
  <1>4. QED
    BY <1>1, <1>2, <1>3

LEMMA WriteRenews ==
  ASSUME SlotInv, NEW s \in Names, NEW g \in Generations, WriteGeneration(s, g)
  PROVE  Renews(s, g)
  <1>1. Exists(s) /\ Written(slots[s]) /\ Odd(g) = Odd(slots[s].generation)
    BY Reads DEF SlotInv, WriteGeneration
  <1>2. [slots[s] EXCEPT !.generation = g] = Slot(g, FieldOf(g), ItemOf(s))
    BY <1>1 DEF Written, Slot, ItemOf, FieldOf
  <1>3. QED
    BY <1>1, <1>2 DEF WriteGeneration, Renews

LEMMA WriteValueGets ==
  ASSUME SlotInv, NEW s \in Names, WriteValue(s)
  PROVE  /\ Exists(s) /\ slots[s].generation \in Generations
         /\ Gets(s, slots[s].generation)
  <1>1. Exists(s) /\ Written(slots[s]) /\ slots[s].generation \in Generations
    BY Reads DEF SlotInv, WriteValue, Exists
  <1>2. slots' = [slots EXCEPT ![s] = [slots[s] EXCEPT !.value = [@ EXCEPT !.item = made + 1]]]
    BY DEF WriteValue
  <1>3. [slots[s] EXCEPT !.value = [@ EXCEPT !.item = made + 1]]
          = Slot(slots[s].generation, FieldOf(slots[s].generation), made + 1)
    BY <1>1 DEF Written, Slot
  <1>4. QED
    BY <1>1, <1>2, <1>3 DEF WriteValue, Gets

LEMMA CloneGets ==
  ASSUME NEW s \in Names, NEW t \in Names, Clone(s, t)
  PROVE  /\ Exists(s) /\ ~Exists(t) /\ slots[s].generation \in Generations
         /\ Gets(t, slots[s].generation)
  BY DEF Clone, Gets, Exists

LEMMA LeavesLoses ==
  ASSUME NEW s \in Names, IntoParity(s) \/ DropSlot(s)
  PROVE  Loses(s)
  BY DEF IntoParity, DropSlot, Loses

LEMMA NextKinds ==
  ASSUME SlotInv, SlotNext
  PROVE  Kinds
  <1>1. ASSUME NEW s \in Names, NEW g \in Generations,
               New(s, g) \/ Replace(s, g) \/ ReplaceUnchecked(s, g) \/ WriteGeneration(s, g)
        PROVE  Kinds
    BY <1>1, ReplaceGets, WriteRenews DEF Kinds
  <1>2. ASSUME NEW s \in Names, WriteValue(s) \/ IntoParity(s) \/ DropSlot(s)
        PROVE  Kinds
    BY <1>2, WriteValueGets, LeavesLoses DEF Kinds
  <1>3. ASSUME NEW s \in Names, NEW t \in Names, Clone(s, t)
        PROVE  Kinds
    BY <1>3, CloneGets DEF Kinds
  <1>4. QED
    BY <1>1, <1>2, <1>3 DEF SlotNext

LEMMA InitSlotInv == SlotInit => SlotInv
  <1> SUFFICES ASSUME SlotInit PROVE SlotInv
    OBVIOUS
  <1>1. made = 0 /\ DOMAIN gone = {} /\ gone = [n \in {} |-> 0] /\ 1 .. made = {}
    BY DEF SlotInit, EmptyBag, SetToBag
  <1>2. GoneOK
    BY <1>1 DEF GoneOK, IsBag
  <1>3. SlotsOK
    BY <1>1 DEF SlotsOK, SlotInit
  <1>4. QED
    BY <1>1, <1>2, <1>3 DEF SlotInv

LEMMA StepSlotInv == SlotInv /\ [SlotNext]_slot_vars => SlotInv'
  <1> SUFFICES ASSUME SlotInv, [SlotNext]_slot_vars PROVE SlotInv'
    OBVIOUS
  <1>1. CASE SlotNext
    BY <1>1, NextKinds, GetsKeeps, LosesKeeps, RenewsKeeps DEF Kinds
  <1>2. CASE UNCHANGED slot_vars
    BY <1>2 DEF slot_vars, SlotInv, SlotsOK, GoneOK, Somewhere, Holders, Exists, ItemOf,
                TimesGone, Written
  <1>3. QED
    BY <1>1, <1>2

LEMMA SlotInvariance == SlotSpec => []SlotInv
  BY InitSlotInv, StepSlotInv, PTL DEF SlotSpec

-----------------------------------------------------------------------------
(* Owned once *)

LEMMA InvEachInOneSlot == SlotInv => EachInOneSlot
  <1> SUFFICES ASSUME SlotInv PROVE EachInOneSlot
    OBVIOUS
  <1>1. BagToSet(gone) \subseteq 1 .. made
    BY DEF SlotInv, GoneOK, BagToSet
  <1>2. ASSUME NEW n \in 1 .. made
        PROVE  Cardinality({s \in Names :
                   Exists(s) /\ Read(s, FieldOf(slots[s].generation)) = n})
                 + TimesGone(n) = 1
    <2>1. {s \in Names : Exists(s) /\ Read(s, FieldOf(slots[s].generation)) = n} = Holders(n)
      BY Reads DEF SlotInv, Holders
    <2>2. Somewhere(n)
      BY DEF SlotInv
    <2>3. CASE Holders(n) = {} /\ TimesGone(n) = 1
      BY <2>1, <2>3, FS_EmptySet
    <2>4. CASE TimesGone(n) = 0 /\ \E s \in Names : Holders(n) = {s}
      <3>1. PICK s \in Names : Holders(n) = {s}
        BY <2>4
      <3>2. Cardinality({s}) = 1
        BY FS_Singleton
      <3>3. QED
        BY <2>1, <2>4, <3>1, <3>2
    <2>5. QED
      BY <2>2, <2>3, <2>4 DEF Somewhere
  <1>3. QED
    BY <1>1, <1>2 DEF EachInOneSlot

\* No value is read through the field it was not written to, none is lost and
\* none is dropped twice, whatever is written over a slot and its generation.
THEOREM SlotsOwnedOnce == SlotSpec => []EachInOneSlot
  BY SlotInvariance, InvEachInOneSlot, PTL

-----------------------------------------------------------------------------
(* The union implements the enum *)

\* The slots as the instance Enum sees them.
EnumSlots ==
  [s \in Names |->
    IF ~Exists(s) THEN [variant |-> "none"]
    ELSE LET g == slots[s].generation
         IN  [variant |-> IF Odd(g) THEN "Occupied" ELSE "Vacant", generation |-> g,
              value |-> Read(s, FieldOf(g))]]

\* What a slot of the enum looks like, for a generation and a value.
Variant(g, n) ==
  [variant |-> IF Odd(g) THEN "Occupied" ELSE "Vacant", generation |-> g, value |-> n]

LEMMA Image ==
  ASSUME SlotsOK, NEW s \in Names
  PROVE  EnumSlots[s] = IF Exists(s) THEN Variant(slots[s].generation, ItemOf(s))
                        ELSE [variant |-> "none"]
  BY Reads DEF EnumSlots, Variant

\* One slot changes, and its image with it.
LEMMA ImageChanges ==
  ASSUME SlotsOK, SlotsOK', NEW s \in Names,
         \A t \in Names : t # s => slots'[t] = slots[t],
         NEW e, EnumSlots'[s] = e
  PROVE  EnumSlots' = [EnumSlots EXCEPT ![s] = e]
  <1>1. ASSUME NEW t \in Names, t # s PROVE EnumSlots'[t] = EnumSlots[t]
    BY <1>1 DEF EnumSlots, Exists, Read
  <1>2. DOMAIN EnumSlots = Names /\ DOMAIN EnumSlots' = Names
    BY DEF EnumSlots
  <1>3. EnumSlots = [t \in Names |-> EnumSlots[t]] /\ EnumSlots' = [t \in Names |-> EnumSlots'[t]]
    BY DEF EnumSlots
  <1>4. QED
    BY <1>1, <1>2, <1>3

\* The bags of the enum are these bags.
LEMMA SameBags ==
  \A b, n : Enum!(+)(b, Enum!SetToBag({n})) = b (+) SetToBag({n})
  BY DEF Enum!(+), Enum!SetToBag, (+), SetToBag

\* What the steps of the enum say of these slots.
LEMMA EnumSteps ==
  ASSUME NEW s \in Names, NEW g \in Generations
  PROVE  /\ Enum!New(s, g) <=>
              /\ EnumSlots[s].variant = "none"
              /\ EnumSlots' = [EnumSlots EXCEPT ![s] = Variant(g, made + 1)]
              /\ made' = made + 1 /\ gone' = gone
         /\ Enum!Replace(s, g) <=>
              /\ EnumSlots[s].variant # "none"
              /\ EnumSlots' = [EnumSlots EXCEPT ![s] = Variant(g, made + 1)]
              /\ made' = made + 1 /\ gone' = gone (+) SetToBag({EnumSlots[s].value})
         /\ Enum!WriteGeneration(s, g) <=>
              /\ EnumSlots[s].variant # "none" /\ Odd(g) = Odd(EnumSlots[s].generation)
              /\ EnumSlots' = [EnumSlots EXCEPT ![s] = Variant(g, EnumSlots[s].value)]
              /\ made' = made /\ gone' = gone
         /\ Enum!IntoParity(s) <=>
              /\ EnumSlots[s].variant # "none"
              /\ EnumSlots' = [EnumSlots EXCEPT ![s] = [variant |-> "none"]]
              /\ gone' = gone (+) SetToBag({EnumSlots[s].value}) /\ made' = made
  <1>1. Enum!New(s, g) <=>
              /\ EnumSlots[s].variant = "none"
              /\ EnumSlots' = [EnumSlots EXCEPT ![s] = Variant(g, made + 1)]
              /\ made' = made + 1 /\ gone' = gone
    BY DEF Enum!New, Enum!Exists, Enum!Slot, Enum!Odd, EnumSlots, Variant, Odd
  <1>2. Enum!Replace(s, g) <=>
              /\ EnumSlots[s].variant # "none"
              /\ EnumSlots' = [EnumSlots EXCEPT ![s] = Variant(g, made + 1)]
              /\ made' = made + 1 /\ gone' = gone (+) SetToBag({EnumSlots[s].value})
    BY SameBags DEF Enum!Replace, Enum!Exists, Enum!Slot, Enum!Odd, Enum!Leave, EnumSlots, Variant, Odd
  <1>3. Enum!WriteGeneration(s, g) <=>
              /\ EnumSlots[s].variant # "none" /\ Odd(g) = Odd(EnumSlots[s].generation)
              /\ EnumSlots' = [EnumSlots EXCEPT ![s] = Variant(g, EnumSlots[s].value)]
              /\ made' = made /\ gone' = gone
    BY DEF Enum!WriteGeneration, Enum!Exists, Enum!Slot, Enum!Odd, EnumSlots, Variant, Odd
  <1>4. Enum!IntoParity(s) <=>
              /\ EnumSlots[s].variant # "none"
              /\ EnumSlots' = [EnumSlots EXCEPT ![s] = [variant |-> "none"]]
              /\ gone' = gone (+) SetToBag({EnumSlots[s].value}) /\ made' = made
    <2>1. Enum!Leave(s) <=> gone' = gone (+) SetToBag({EnumSlots[s].value})
      BY SameBags DEF Enum!Leave, EnumSlots
    <2>2. Enum!Exists(s) <=> EnumSlots[s].variant # "none"
      BY DEF Enum!Exists, EnumSlots
    <2>3. QED
      BY <2>1, <2>2 DEF Enum!IntoParity, Enum!NoSlot, EnumSlots
  <1>5. QED
    BY <1>1, <1>2, <1>3, <1>4

\* Whether the enum has a slot, and the value that it has.
LEMMA ImageParts ==
  ASSUME SlotsOK, NEW s \in Names
  PROVE  /\ Exists(s) <=> EnumSlots[s].variant # "none"
         /\ Exists(s) => /\ EnumSlots[s].value = ItemOf(s)
                         /\ EnumSlots[s].generation = slots[s].generation
                         /\ MoveOut(s) => gone' = gone (+) SetToBag({EnumSlots[s].value})
  <1>1. CASE Exists(s)
    <2>1. EnumSlots[s] = Variant(slots[s].generation, ItemOf(s))
      BY <1>1, Image
    <2>2. Read(s, FieldOf(slots[s].generation)) = ItemOf(s)
      BY <1>1, Reads
    <2>3. QED
      BY <1>1, <2>1, <2>2 DEF Variant, MoveOut
  <1>2. CASE ~Exists(s)
    BY <1>2, Image
  <1>3. QED
    BY <1>1, <1>2

LEMMA GetsImplements ==
  ASSUME SlotInv, SlotInv', NEW s \in Names, NEW g \in Generations, Gets(s, g)
  PROVE  Enum!New(s, g) \/ Enum!Replace(s, g)
  <1>1. SlotsOK /\ SlotsOK' /\ made \in Nat /\ DOMAIN slots = Names
    BY DEF SlotInv, SlotsOK
  <1>2. /\ slots'[s] = Slot(g, FieldOf(g), made + 1)
        /\ \A t \in Names : t # s => slots'[t] = slots[t]
    BY <1>1 DEF Gets
  <1>3. EnumSlots'[s] = Variant(g, made + 1)
    BY <1>2 DEF EnumSlots, Exists, Read, Slot, Variant
  <1>4. EnumSlots' = [EnumSlots EXCEPT ![s] = Variant(g, made + 1)]
    BY <1>1, <1>2, <1>3, ImageChanges
  <1>5. CASE Exists(s)
    <2>1. EnumSlots[s].variant # "none" /\ gone' = gone (+) SetToBag({EnumSlots[s].value})
      BY <1>1, <1>5, ImageParts DEF Gets
    <2>2. Enum!Replace(s, g)
      BY <1>4, <2>1, EnumSteps DEF Gets
    <2>3. QED
      BY <2>2
  <1>6. CASE ~Exists(s)
    <2>1. EnumSlots[s].variant = "none" /\ gone' = gone
      BY <1>1, <1>6, ImageParts DEF Gets
    <2>2. Enum!New(s, g)
      BY <1>4, <2>1, EnumSteps DEF Gets
    <2>3. QED
      BY <2>2
  <1>7. QED
    BY <1>5, <1>6

LEMMA LosesImplements ==
  ASSUME SlotInv, SlotInv', NEW s \in Names, Loses(s)
  PROVE  Enum!IntoParity(s)
  <1>1. SlotsOK /\ SlotsOK' /\ DOMAIN slots = Names
    BY DEF SlotInv, SlotsOK
  <1>2. slots'[s] = NoSlot /\ \A t \in Names : t # s => slots'[t] = slots[t]
    BY <1>1 DEF Loses
  <1>3. EnumSlots'[s] = [variant |-> "none"]
    BY <1>2, NoGeneration DEF EnumSlots, Exists
  <1>4. EnumSlots' = [EnumSlots EXCEPT ![s] = [variant |-> "none"]]
    BY <1>1, <1>2, <1>3, ImageChanges
  <1>5. EnumSlots[s].variant # "none" /\ gone' = gone (+) SetToBag({EnumSlots[s].value})
    BY <1>1, ImageParts DEF Loses
  <1>6. 0 \in Generations
    BY GenerationsAssumption DEF Generations
  <1>7. QED
    BY <1>4, <1>5, <1>6, EnumSteps DEF Loses

LEMMA RenewsImplements ==
  ASSUME SlotInv, SlotInv', NEW s \in Names, NEW g \in Generations, Renews(s, g)
  PROVE  Enum!WriteGeneration(s, g)
  <1>1. SlotsOK /\ SlotsOK' /\ DOMAIN slots = Names
    BY DEF SlotInv, SlotsOK
  <1>2. /\ slots'[s] = Slot(g, FieldOf(g), ItemOf(s))
        /\ \A t \in Names : t # s => slots'[t] = slots[t]
    BY <1>1 DEF Renews
  <1>3. EnumSlots'[s] = Variant(g, ItemOf(s))
    BY <1>2 DEF EnumSlots, Exists, Read, Slot, Variant
  <1>4. EnumSlots' = [EnumSlots EXCEPT ![s] = Variant(g, ItemOf(s))]
    BY <1>1, <1>2, <1>3, ImageChanges
  <1>5. /\ EnumSlots[s].variant # "none" /\ EnumSlots[s].value = ItemOf(s)
        /\ Odd(g) = Odd(EnumSlots[s].generation)
    BY <1>1, ImageParts DEF Renews
  <1>6. QED
    BY <1>4, <1>5, EnumSteps DEF Renews

LEMMA SlotInitImplements == SlotInit => Enum!Init
  BY NoGeneration DEF SlotInit, Enum!Init, Enum!NoSlot, Exists, EmptyBag, Enum!EmptyBag,
     SetToBag, Enum!SetToBag

LEMMA SlotStepImplements == SlotInv /\ [SlotNext]_slot_vars => [Enum!Next]_(Enum!vars)
  <1> SUFFICES ASSUME SlotInv, [SlotNext]_slot_vars PROVE [Enum!Next]_(Enum!vars)
    OBVIOUS
  <1>1. SlotInv'
    BY StepSlotInv
  <1>2. CASE SlotNext
    <2>1. Kinds
      BY <1>2, NextKinds
    <2>2. ASSUME NEW s \in Names, NEW g \in Generations, Gets(s, g) \/ Renews(s, g)
          PROVE  Enum!Next
      <3>1. Enum!New(s, g) \/ Enum!Replace(s, g) \/ Enum!WriteGeneration(s, g)
        BY <1>1, <2>2, GetsImplements, RenewsImplements
      <3>2. QED
        BY <3>1 DEF Enum!Next, Enum!Generations, Generations
    <2>3. ASSUME NEW s \in Names, Loses(s)
          PROVE  Enum!Next
      BY <1>1, <2>3, LosesImplements DEF Enum!Next
    <2>4. QED
      BY <2>1, <2>2, <2>3 DEF Kinds
  <1>3. CASE UNCHANGED slot_vars
    BY <1>3 DEF slot_vars, Enum!vars, Exists, Read
  <1>4. QED
    BY <1>2, <1>3

\* The union, whose tag is the parity of a number, behaves as the enum, whose
\* tag the compiler keeps: each of its methods is a method of the enum.
THEOREM UnionRefines == SlotSpec => ImplementsEnumSlot
  BY SlotInvariance, SlotInitImplements, SlotStepImplements, PTL
     DEF SlotSpec, ImplementsEnumSlot, Enum!Spec

-----------------------------------------------------------------------------
(* The invariant *)

\* The positions of items are from one to before another.
OwnedFrom == IF mode = "iter" THEN start ELSE 0
OwnedTo ==
  CASE mode \in {"vec", "parts", "iter"} -> buffer.len
    [] mode = "fill" -> count
    [] OTHER -> 0

\* The position of an item, if it is not gone.
Places(q) == {p \in Owned : buffer.items[p] = q}
InOnePlace(q) ==
  \/ Places(q) = {} /\ TimesGone(q) = 1
  \/ TimesGone(q) = 0 /\ \E p \in Owned : Places(q) = {p}

ItemsOK ==
  /\ made \in Nat
  /\ IsBag(gone) /\ DOMAIN gone \subseteq 1 .. made
  /\ \A p \in Owned : buffer.items[p] \in 1 .. made
  /\ \A q \in 1 .. made : InOnePlace(q)

\* A buffer of which all positions can be written.
BufferOK(b) ==
  /\ b = [capacity |-> b.capacity, len |-> b.len, items |-> b.items]
  /\ b.capacity \in 0 .. LenMax /\ b.len \in 0 .. b.capacity
  /\ b.items = [p \in 0 .. b.capacity - 1 |-> b.items[p]]
  /\ ~sized => b.capacity = LenMax

Room == IF mode \in {"vec", "parts"} THEN buffer.capacity - buffer.len ELSE 0

\* The fields, in each mode.  While it gets clones, these are the newest items.
FieldsOK ==
  /\ BufferOK(buffer) /\ sized \in BOOLEAN
  /\ mode \in {"vec", "fill", "parts", "iter", "gone"}
  /\ start \in Nat /\ source \in Nat /\ count \in Nat
  /\ mode \in {"vec", "fill", "parts"} => start = 0
  /\ mode = "iter" => start <= buffer.len
  /\ mode # "fill" => count = 0
  /\ mode = "fill" => /\ count <= source /\ source <= buffer.capacity /\ count <= made
                      /\ \A p \in 0 .. count - 1 : buffer.items[p] = made - count + p + 1
  /\ promised \in 0 .. Room

BlocksOK == blocks = IF mode = "gone" THEN EmptyBag ELSE Block(buffer.capacity)

VecInv == FieldsOK /\ ItemsOK /\ BlocksOK

LEMMA OwnedRange ==
  FieldsOK => Owned = OwnedFrom .. OwnedTo - 1
  BY DEF FieldsOK, Owned, OwnedFrom, OwnedTo

-----------------------------------------------------------------------------
(* What a step does to the items *)

\* No item comes or goes.
Stay ==
  /\ made' = made /\ gone' = gone /\ Owned' = Owned
  /\ \A p \in Owned : buffer'.items[p] = buffer.items[p]

\* A new item is at position p.
Comes(p) ==
  /\ made' = made + 1 /\ gone' = gone
  /\ p \notin Owned /\ Owned' = Owned \union {p}
  /\ buffer'.items[p] = made + 1
  /\ \A o \in Owned : buffer'.items[o] = buffer.items[o]

\* The items at the positions from m to before n leave.
Go(m, n) ==
  /\ made' = made /\ Leave(m, n)
  /\ m .. n - 1 \subseteq Owned /\ Owned' = Owned \ (m .. n - 1)
  /\ \A p \in Owned' : buffer'.items[p] = buffer.items[p]

LEMMA StayKeeps ==
  ASSUME ItemsOK, Stay
  PROVE  ItemsOK'
  <1>1. \A q : Places(q)' = Places(q) /\ TimesGone(q)' = TimesGone(q)
    BY DEF Stay, Places, TimesGone
  <1>2. QED
    BY <1>1 DEF Stay, ItemsOK, InOnePlace

LEMMA ComesKeeps ==
  ASSUME ItemsOK, NEW p, Comes(p)
  PROVE  ItemsOK'
  <1>1. made \in Nat /\ 1 .. made' = 1 .. made \union {made + 1} /\ made + 1 \notin 1 .. made
    BY DEF ItemsOK, Comes
  <1>2. \A q : TimesGone(q)' = TimesGone(q)
    BY DEF Comes, TimesGone
  <1>3. \A q \in 1 .. made : Places(q)' = Places(q)
    BY <1>1 DEF Comes, Places
  <1>4. \A q \in {made + 1} : Places(q)' = {p}
    BY <1>1 DEF Comes, Places, ItemsOK
  <1>5. ASSUME NEW q \in 1 .. made PROVE InOnePlace(q)'
    BY <1>2, <1>3 DEF ItemsOK, InOnePlace, Comes
  <1>6. ASSUME NEW q \in {made + 1} PROVE InOnePlace(q)'
    <2>1. TimesGone(q)' = 0
      BY <1>1, <1>2 DEF ItemsOK, TimesGone, BagIn, BagToSet
    <2>2. QED
      BY <1>4, <2>1 DEF InOnePlace, Comes
  <1>7. \A o \in Owned' : buffer'.items[o] \in 1 .. made'
    BY <1>1 DEF Comes, ItemsOK
  <1>8. QED
    BY <1>1, <1>5, <1>6, <1>7 DEF ItemsOK, Comes

LEMMA GoKeeps ==
  ASSUME ItemsOK, NEW m, NEW n, Go(m, n)
  PROVE  ItemsOK'
  <1> DEFINE S == {buffer.items[p] : p \in m .. n - 1}
             At(q) == {p \in m .. n - 1 : buffer.items[p] = q}
  <1>1. ASSUME NEW q \in S
        PROVE  /\ q \in 1 .. made /\ TimesGone(q) = 0 /\ q \notin DOMAIN gone
               /\ Places(q) \subseteq m .. n - 1 /\ Cardinality(At(q)) = 1
    <2>1. PICK p \in m .. n - 1 : buffer.items[p] = q
      OBVIOUS
    <2>2. p \in Places(q) /\ q \in 1 .. made
      BY <2>1 DEF Go, Places, ItemsOK
    <2>3. TimesGone(q) = 0 /\ Places(q) = {p}
      BY <2>2 DEF ItemsOK, InOnePlace
    <2>4. At(q) = {p}
      BY <2>1, <2>3 DEF Go, Places
    <2>5. Cardinality(At(q)) = 1
      BY <2>4, FS_Singleton
    <2>6. q \notin DOMAIN gone
      BY <2>3 DEF ItemsOK, IsBag, TimesGone, BagIn, BagToSet
    <2>7. QED
      BY <2>2, <2>3, <2>5, <2>6
  <1>2. gone' = gone (+) SetToBag(S)
    <2>1. [q \in S |-> Cardinality(At(q))] = [q \in S |-> 1]
      BY <1>1
    <2>2. gone' = gone (+) [q \in S |-> Cardinality(At(q))]
      BY DEF Go, Leave
    <2>3. QED
      BY <2>1, <2>2 DEF SetToBag
  <1>3. S \intersect DOMAIN gone = {} /\ IsBag(gone)
    BY <1>1 DEF ItemsOK
  <1>4. S \subseteq 1 .. made /\ \A p \in m .. n - 1 : buffer.items[p] \in S
    BY <1>1
  <1>5. ASSUME NEW q \in S PROVE Places(q)' = {}
    <2>1. Places(q) \subseteq m .. n - 1
      BY <1>1
    <2>2. QED
      BY <2>1 DEF Go, Places
  <1>6. ASSUME NEW q, q \notin S PROVE Places(q)' = Places(q)
    BY <1>4, <1>6 DEF Go, Places
  <1> HIDE DEF S
  <1>7. /\ DOMAIN gone' = DOMAIN gone \union S /\ IsBag(gone')
        /\ \A q : TimesGone(q)' = IF q \in S THEN 1 ELSE TimesGone(q)
    BY <1>2, <1>3, Added
  <1>8. ASSUME NEW q \in 1 .. made PROVE InOnePlace(q)'
    <2>1. CASE q \in S
      BY <1>5, <1>7, <2>1 DEF InOnePlace
    <2>2. CASE q \notin S
      <3>1. Places(q)' = Places(q) /\ TimesGone(q)' = TimesGone(q) /\ InOnePlace(q)
        BY <1>6, <1>7, <2>2 DEF ItemsOK
      <3>2. ASSUME NEW p \in Owned, Places(q) = {p} PROVE p \in Owned'
        BY <3>1, <3>2 DEF Places
      <3>3. QED
        BY <3>1, <3>2 DEF InOnePlace
    <2>3. QED
      BY <2>1, <2>2
  <1>9. \A p \in Owned' : buffer'.items[p] \in 1 .. made'
    BY DEF Go, ItemsOK
  <1>10. QED
    BY <1>4, <1>7, <1>8, <1>9 DEF ItemsOK, Go

-----------------------------------------------------------------------------
(* Buffers and blocks *)

LEMMA NewBuffer ==
  ASSUME NEW n \in 0 .. LenMax
  PROVE  /\ BufferOK(with_capacity(n)) /\ with_capacity(n).len = 0
         /\ sized => with_capacity(n).capacity = n
         /\ Block(with_capacity(n).capacity) = Block(n)
  <1> DEFINE b == with_capacity(n)
             c == IF sized THEN n ELSE LenMax
  <1>1. c \in 0 .. LenMax
    BY LengthsAssumption
  <1>2. b = [capacity |-> c, len |-> 0, items |-> [p \in 0 .. c - 1 |-> Junk]]
    BY DEF with_capacity
  <1> HIDE DEF b, c
  <1>3. b.items = [p \in 0 .. c - 1 |-> b.items[p]]
    BY <1>2
  <1>4. BufferOK(b)
    BY <1>1, <1>2, <1>3 DEF BufferOK, c
  <1>5. (sized => c = n) /\ Block(c) = Block(n)
    BY DEF c, Block
  <1>6. QED
    BY <1>2, <1>4, <1>5 DEF b

\* Growing keeps the items, and makes the room that was asked for.
LEMMA MakesRoom ==
  ASSUME FieldsOK, NEW n \in Nat, NEW b \in make_room(n)
  PROVE  /\ BufferOK(b) /\ b.len = buffer.len /\ buffer.len + n <= b.capacity
         /\ buffer.capacity <= b.capacity
         /\ \A p \in 0 .. buffer.capacity - 1 : b.items[p] = buffer.items[p]
         /\ buffer.len + n <= buffer.capacity => b = buffer
  <1> DEFINE required == buffer.len + n
             c == grown_capacity(buffer.capacity, required)
             old == buffer.capacity
  <1>1. /\ old \in Nat /\ old <= LenMax /\ buffer.len \in Nat /\ buffer.len <= old
        /\ DOMAIN buffer.items = 0 .. old - 1 /\ LenMax \in Nat /\ BufferOK(buffer)
    BY LengthsAssumption DEF FieldsOK, BufferOK
  <1>2. CASE required <= old
    <2>1. b = buffer
      BY <1>2 DEF make_room
    <2>2. QED
      BY <1>1, <1>2, <2>1
  <1>3. CASE ~(required <= old)
    <2>1. /\ ~(required > LenMax)
          /\ b = [buffer EXCEPT !.capacity = c,
                    !.items = [p \in 0 .. c - 1 |->
                       IF p \in DOMAIN buffer.items THEN buffer.items[p] ELSE Junk]]
      BY <1>3 DEF make_room
    <2>2. c \in Nat /\ required <= c /\ old <= c /\ c <= LenMax
      <3> DEFINE d == Larger(required, 2 * old)
      <3>1. c = Smaller(Larger(d, Smallest), LenMax)
        BY DEF grown_capacity
      <3>2. d \in Nat /\ required <= d /\ old <= d /\ required \in Nat
        BY <1>1 DEF Larger
      <3>3. required <= LenMax /\ Smallest \in Nat
        BY <1>1, <2>1, <3>2, LengthsAssumption
      <3> HIDE DEF d, required, old, c
      <3>4. QED
        BY <1>1, <3>1, <3>2, <3>3 DEF Larger, Smaller
    <2>3. sized
      BY <1>1, <1>3, <2>1 DEF FieldsOK, BufferOK
    <2> HIDE DEF c
    <2>4. /\ b.capacity = c /\ b.len = buffer.len
          /\ b.items = [p \in 0 .. c - 1 |->
                          IF p \in DOMAIN buffer.items THEN buffer.items[p] ELSE Junk]
          /\ b = [capacity |-> b.capacity, len |-> b.len, items |-> b.items]
      BY <1>1, <2>1 DEF BufferOK
    <2>5. b.items = [p \in 0 .. c - 1 |-> b.items[p]]
      BY <2>4
    <2>6. \A p \in 0 .. old - 1 : b.items[p] = buffer.items[p]
      BY <1>1, <2>2, <2>4
    <2>7. BufferOK(b)
      BY <1>1, <2>2, <2>3, <2>4, <2>5 DEF BufferOK
    <2>8. QED
      BY <1>1, <1>3, <2>2, <2>4, <2>6, <2>7
  <1>4. QED
    BY <1>2, <1>3

\* The block of one buffer goes, and that of another comes.
LEMMA BlockGoes ==
  ASSUME NEW c
  PROVE  Block(c) (-) Block(c) = EmptyBag
  <1>1. CASE Block(c) = SetToBag({c})
    <2>1. DOMAIN (Block(c) (-) Block(c)) = {}
      BY <1>1 DEF (-), SetToBag
    <2>2. QED
      BY <1>1, <2>1 DEF (-), SetToBag, EmptyBag
  <1>2. CASE Block(c) = EmptyBag
    BY <1>2 DEF (-), SetToBag, EmptyBag
  <1>3. QED
    BY <1>1, <1>2 DEF Block

LEMMA BlockComes ==
  ASSUME NEW c
  PROVE  EmptyBag (+) Block(c) = Block(c)
  BY DEF (+), SetToBag, EmptyBag, Block

LEMMA BlockReplaced ==
  ASSUME NEW c \in Nat, NEW n \in Nat, c < n
  PROVE  (Block(c) (+) Block(n)) (-) Block(c) = Block(n)
  <1>1. CASE sized /\ c > 0
    <2>1. Block(c) = [e \in {c} |-> 1] /\ Block(n) = [e \in {n} |-> 1]
      BY <1>1 DEF Block, SetToBag
    <2>2. Block(c) (+) Block(n) = [e \in {c, n} |-> 1]
      BY <2>1 DEF (+)
    <2>3. [e \in {c, n} |-> 1] (-) [e \in {c} |-> 1] = [e \in {n} |-> 1]
      BY DEF (-)
    <2>4. QED
      BY <2>1, <2>2, <2>3
  <1>2. CASE ~(sized /\ c > 0)
    <2>1. Block(c) = EmptyBag
      BY <1>2 DEF Block
    <2>2. Block(n) (-) EmptyBag = Block(n)
      <3>1. EmptyBag (-) EmptyBag = EmptyBag
        BY DEF (-), EmptyBag, SetToBag
      <3>2. SetToBag({n}) (-) EmptyBag = SetToBag({n})
        BY DEF (-), EmptyBag, SetToBag
      <3>3. QED
        BY <3>1, <3>2 DEF Block
    <2>3. QED
      BY <2>1, <2>2, BlockComes
  <1>3. QED
    BY <1>1, <1>2

-----------------------------------------------------------------------------
(* The steps *)

\* The fields of the buffer as numbers, and its items as a function.
LEMMA BufferParts ==
  ASSUME FieldsOK
  PROVE  /\ LenMax \in Nat /\ buffer.capacity \in Nat /\ buffer.len \in Nat
         /\ buffer.len <= buffer.capacity /\ buffer.capacity <= LenMax
         /\ DOMAIN buffer.items = 0 .. buffer.capacity - 1
         /\ promised \in Nat /\ Owned = OwnedFrom .. OwnedTo - 1
  <1>1. promised \in Nat
    BY DEF FieldsOK
  <1>2. Owned = OwnedFrom .. OwnedTo - 1
    BY OwnedRange
  <1>3. /\ buffer.capacity \in 0 .. LenMax /\ buffer.len \in 0 .. buffer.capacity
        /\ buffer.items = [p \in 0 .. buffer.capacity - 1 |-> buffer.items[p]]
    BY DEF FieldsOK, BufferOK
  <1>4. QED
    BY <1>1, <1>2, <1>3, LengthsAssumption

\* A buffer of another length has the same items.
LEMMA OtherLength ==
  ASSUME BufferOK(buffer), NEW n \in 0 .. buffer.capacity, buffer' = [buffer EXCEPT !.len = n],
         sized' = sized
  PROVE  /\ buffer'.items = buffer.items /\ buffer'.len = n
         /\ buffer'.capacity = buffer.capacity
         /\ BufferOK(buffer)'
  BY DEF BufferOK

\* Blocks in which nothing was allocated or freed.
LEMMA SameBlocks ==
  ASSUME BlocksOK, blocks' = blocks, sized' = sized, buffer'.capacity = buffer.capacity,
         mode # "gone", mode' # "gone"
  PROVE  BlocksOK'
  BY DEF BlocksOK, Block

LEMMA FreedBlocks ==
  ASSUME BlocksOK, blocks' = blocks (-) Block(buffer.capacity), mode # "gone", mode' = "gone"
  PROVE  BlocksOK'
  BY BlockGoes DEF BlocksOK

\* A block that was exchanged for one of the new capacity.
LEMMA MovedBlocks ==
  ASSUME BlocksOK, mode = "vec", mode' = "vec", sized' = sized,
         NEW b, blocks' = Reallocated(b), b.capacity = buffer'.capacity
  PROVE  BlocksOK'
  <1>1. blocks = Block(buffer.capacity) /\ \A c : Block(c)' = Block(c)
    BY DEF BlocksOK, Block
  <1>2. blocks' = Block(b.capacity)
    BY <1>1, BlockGoes, BlockComes DEF Reallocated
  <1>3. QED
    BY <1>1, <1>2 DEF BlocksOK, Block

LEMMA EnsureRoomInv ==
  ASSUME VecInv, NEW n \in 1 .. LenMax, EnsureRoom(n)
  PROVE  /\ VecInv' /\ Stay
         /\ Room' >= Room /\ promised' >= promised
  <1>1. FieldsOK /\ n \in Nat /\ buffer' \in make_room(n) /\ mode = "vec" /\ mode' = "vec"
        /\ sized' = sized /\ promised' = Larger(promised, n)
        /\ start' = start /\ source' = source /\ count' = count
    BY DEF VecInv, EnsureRoom
  <1>2. /\ BufferOK(buffer') /\ buffer'.len = buffer.len /\ buffer.len + n <= buffer'.capacity
        /\ buffer.capacity <= buffer'.capacity
        /\ \A p \in 0 .. buffer.capacity - 1 : buffer'.items[p] = buffer.items[p]
    BY <1>1, MakesRoom
  <1>3. BufferOK(buffer)'
    BY <1>1, <1>2 DEF BufferOK
  <1>4. Owned = 0 .. buffer.len - 1 /\ Owned' = 0 .. buffer.len - 1
    BY <1>1, <1>2 DEF Owned
  <1>5. Stay
    BY <1>1, <1>2, <1>4, BufferParts DEF Stay, EnsureRoom
  <1>6. ItemsOK'
    BY <1>5, StayKeeps DEF VecInv
  <1>7. Room' >= Room /\ promised' >= promised /\ promised' \in 0 .. Room'
    <2>1. /\ Room = buffer.capacity - buffer.len /\ Room' = buffer'.capacity - buffer.len
          /\ promised <= Room
      BY <1>1, <1>2 DEF Room, FieldsOK
    <2>2. buffer'.capacity \in Nat
      BY <1>2, BufferParts, <1>1 DEF BufferOK
    <2>3. QED
      BY <1>1, <1>2, <2>1, <2>2, BufferParts DEF Larger
  <1>8. FieldsOK'
    BY <1>1, <1>3, <1>7 DEF FieldsOK
  <1>9. BlocksOK'
    BY <1>1, MovedBlocks DEF VecInv, EnsureRoom
  <1>10. QED
    BY <1>5, <1>6, <1>7, <1>8, <1>9 DEF VecInv

LEMMA PushInv ==
  ASSUME VecInv, Push
  PROVE  /\ VecInv' /\ Comes(buffer.len) /\ buffer'.len = buffer.len + 1
         /\ Room = 0 \/ Room' = Room - 1
  <1>1. PICK b \in make_room(1) : buffer' = push_unchecked(b, made + 1) /\ blocks' = Reallocated(b)
    BY DEF Push
  <1>2. FieldsOK /\ mode = "vec" /\ mode' = "vec" /\ sized' = sized /\ made' = made + 1
        /\ promised' = Larger(promised - 1, 0) /\ gone' = gone
        /\ start' = start /\ source' = source /\ count' = count
    BY DEF VecInv, Push
  <1>3. /\ BufferOK(b) /\ b.len = buffer.len /\ buffer.len + 1 <= b.capacity
        /\ buffer.capacity <= b.capacity
        /\ \A p \in 0 .. buffer.capacity - 1 : b.items[p] = buffer.items[p]
        /\ buffer.len + 1 <= buffer.capacity => b = buffer
    BY <1>2, MakesRoom
  <1>4. b.capacity \in Nat /\ b.len \in 0 .. b.capacity - 1 /\ DOMAIN b.items = 0 .. b.capacity - 1
    <2>1. b.items = [p \in 0 .. b.capacity - 1 |-> b.items[p]] /\ b.capacity \in 0 .. LenMax
      BY <1>3 DEF BufferOK
    <2>2. QED
      BY <1>2, <1>3, <2>1, BufferParts
  <1>5. /\ buffer'.capacity = b.capacity /\ buffer'.len = b.len + 1
        /\ buffer'.items = [b.items EXCEPT ![b.len] = made + 1]
        /\ buffer' = [capacity |-> buffer'.capacity, len |-> buffer'.len, items |-> buffer'.items]
    BY <1>1, <1>3 DEF push_unchecked, BufferOK
  <1>6. BufferOK(buffer)'
    <2>1. buffer'.items = [p \in 0 .. buffer'.capacity - 1 |-> buffer'.items[p]]
      BY <1>4, <1>5
    <2>2. QED
      BY <1>2, <1>3, <1>4, <1>5, <2>1 DEF BufferOK
  <1>7. Owned = 0 .. buffer.len - 1 /\ Owned' = 0 .. buffer.len
    BY <1>2, <1>3, <1>5, BufferParts DEF Owned
  <1>8. Comes(buffer.len)
    <2>1. buffer.len \notin Owned /\ Owned' = Owned \union {buffer.len}
      BY <1>2, <1>7, BufferParts
    <2>2. buffer'.items[buffer.len] = made + 1
      BY <1>3, <1>4, <1>5
    <2>3. \A o \in Owned : buffer'.items[o] = buffer.items[o]
      BY <1>2, <1>3, <1>4, <1>5, <1>7, BufferParts
    <2>4. QED
      BY <1>2, <2>1, <2>2, <2>3 DEF Comes
  <1>9. ItemsOK'
    BY <1>8, ComesKeeps DEF VecInv
  <1>10. (Room = 0 \/ Room' = Room - 1) /\ promised' \in 0 .. Room'
    <2>1. /\ Room = buffer.capacity - buffer.len /\ Room' = b.capacity - (buffer.len + 1)
          /\ promised <= Room
      BY <1>2, <1>3, <1>5 DEF Room, FieldsOK
    <2>2. /\ buffer.capacity \in Nat /\ buffer.len \in Nat /\ promised \in Nat
          /\ buffer.len <= buffer.capacity
      BY <1>2, BufferParts
    <2>3. buffer.capacity = buffer.len \/ b.capacity = buffer.capacity
      BY <1>3, <2>2
    <2>4. promised' = IF promised = 0 THEN 0 ELSE promised - 1
      BY <1>2, <2>2 DEF Larger
    <2>5. QED
      BY <1>3, <1>4, <2>1, <2>2, <2>3, <2>4
  <1>11. FieldsOK'
    BY <1>2, <1>6, <1>10 DEF FieldsOK
  <1>12. BlocksOK'
    BY <1>1, <1>2, <1>5, MovedBlocks DEF VecInv
  <1>13. QED
    BY <1>3, <1>5, <1>8, <1>9, <1>10, <1>11, <1>12 DEF VecInv

\* The last item leaves, off the vec or off the iterator.
LEMMA LastInv ==
  ASSUME VecInv, Pop \/ IterNextBack
  PROVE  /\ VecInv' /\ buffer'.items = buffer.items /\ buffer'.len = buffer.len - 1
         /\ buffer'.capacity = buffer.capacity /\ OwnedFrom <= buffer.len - 1
  <1>1. /\ FieldsOK /\ mode \in {"vec", "iter"} /\ mode' = mode /\ sized' = sized
        /\ buffer' = [buffer EXCEPT !.len = buffer.len - 1] /\ made' = made
        /\ promised' = promised /\ blocks' = blocks
        /\ start' = start /\ source' = source /\ count' = count
        /\ Leave(buffer.len - 1, buffer.len)
    BY DEF VecInv, Pop, IterNextBack
  <1>2. OwnedFrom \in Nat /\ OwnedFrom <= buffer.len - 1 /\ OwnedTo = buffer.len
    BY <1>1, BufferParts DEF OwnedFrom, OwnedTo, FieldsOK, Pop, IterNextBack
  <1>3. buffer.len - 1 \in 0 .. buffer.capacity
    BY <1>1, <1>2, BufferParts
  <1>4. /\ buffer'.items = buffer.items /\ buffer'.len = buffer.len - 1
        /\ buffer'.capacity = buffer.capacity /\ BufferOK(buffer)'
    <2> DEFINE n == buffer.len - 1
    <2>1. n \in 0 .. buffer.capacity /\ buffer' = [buffer EXCEPT !.len = n] /\ BufferOK(buffer)
      BY <1>1, <1>3 DEF FieldsOK
    <2> HIDE DEF n
    <2>2. /\ buffer'.items = buffer.items /\ buffer'.len = n
          /\ buffer'.capacity = buffer.capacity /\ BufferOK(buffer)'
      BY <1>1, <2>1, OtherLength
    <2>3. QED
      BY <2>2 DEF n
  <1>5. Room' >= Room
    BY <1>1, <1>4, BufferParts DEF Room
  <1>6. FieldsOK'
    <2>1. promised' \in 0 .. Room'
      <3>1. Room \in Int /\ Room' \in Int
        BY <1>1, <1>4, BufferParts DEF Room
      <3>2. QED
        BY <1>1, <1>5, <3>1 DEF FieldsOK
    <2>2. mode = "iter" => start <= buffer.len - 1
      BY <1>2 DEF OwnedFrom
    <2>3. QED
      BY <1>1, <1>4, <2>1, <2>2 DEF FieldsOK
  <1>7. Go(buffer.len - 1, buffer.len)
    <2>1. Owned = OwnedFrom .. buffer.len - 1 /\ Owned' = OwnedFrom .. buffer.len - 2
      <3>1. Owned' = OwnedFrom' .. OwnedTo' - 1
        BY <1>1 DEF Owned, OwnedFrom, OwnedTo
      <3>2. OwnedFrom' = OwnedFrom /\ OwnedTo' = buffer.len - 1
        BY <1>1, <1>4 DEF OwnedFrom, OwnedTo
      <3>3. QED
        BY <1>1, <1>2, <3>1, <3>2, BufferParts
    <2>2. /\ buffer.len - 1 .. buffer.len - 1 \subseteq Owned
          /\ Owned' = Owned \ (buffer.len - 1 .. buffer.len - 1)
      BY <1>1, <1>2, <2>1, BufferParts
    <2>3. QED
      BY <1>1, <1>4, <2>2 DEF Go
  <1>8. ItemsOK'
    BY <1>7, GoKeeps DEF VecInv
  <1>9. BlocksOK'
    BY <1>1, <1>4, SameBlocks DEF VecInv
  <1>10. QED
    BY <1>2, <1>4, <1>6, <1>8, <1>9 DEF VecInv

\* All the items leave.
LEMMA AllGo ==
  ASSUME FieldsOK, mode \in {"vec", "iter"}, made' = made, Leave(OwnedFrom, buffer.len), Owned' = {}
  PROVE  Go(OwnedFrom, buffer.len)
  <1>1. Owned = OwnedFrom .. buffer.len - 1
    BY OwnedRange DEF OwnedTo
  <1>2. QED
    BY <1>1 DEF Go

LEMMA ClearInv ==
  ASSUME VecInv, Clear
  PROVE  /\ VecInv' /\ buffer'.len = 0 /\ buffer'.capacity = buffer.capacity
  <1>1. /\ FieldsOK /\ mode = "vec" /\ mode' = mode /\ sized' = sized
        /\ buffer' = [buffer EXCEPT !.len = 0] /\ made' = made
        /\ promised' = promised /\ blocks' = blocks
        /\ start' = start /\ source' = source /\ count' = count /\ Leave(0, buffer.len)
    BY DEF VecInv, Clear
  <1>2. buffer'.len = 0 /\ buffer'.capacity = buffer.capacity /\ BufferOK(buffer)'
    <2>1. 0 \in 0 .. buffer.capacity /\ BufferOK(buffer)
      BY <1>1, BufferParts DEF FieldsOK
    <2>2. QED
      BY <1>1, <2>1, OtherLength
  <1>3. FieldsOK'
    <2>1. /\ Room = buffer.capacity - buffer.len /\ Room' = buffer.capacity
          /\ promised \in 0 .. Room
      BY <1>1, <1>2, BufferParts DEF Room, FieldsOK
    <2>2. promised' \in 0 .. Room'
      BY <1>1, <2>1, BufferParts
    <2>3. QED
      BY <1>1, <1>2, <2>2 DEF FieldsOK
  <1>4. ItemsOK'
    <2>1. Owned' = {} /\ OwnedFrom = 0
      BY <1>1, <1>2 DEF Owned, OwnedFrom
    <2>2. QED
      BY <1>1, <2>1, AllGo, GoKeeps DEF VecInv
  <1>5. BlocksOK'
    BY <1>1, <1>2, SameBlocks DEF VecInv
  <1>6. QED
    BY <1>2, <1>3, <1>4, <1>5 DEF VecInv

LEMMA CloneFromInv ==
  ASSUME VecInv, NEW n \in 0 .. LenMax, CloneFrom(n)
  PROVE  VecInv'
  <1>1. /\ FieldsOK /\ mode = "vec" /\ mode' = "fill" /\ sized' = sized /\ made' = made
        /\ promised' = 0 /\ source' = n /\ n \in Nat
        /\ start' = start /\ count' = count /\ start = 0 /\ count = 0 /\ Leave(0, buffer.len)
        /\ BufferOK(buffer) /\ made \in Nat
    BY DEF VecInv, CloneFrom, FieldsOK, ItemsOK
  <1>2. CASE buffer.capacity < n
    <2>1. /\ buffer' = with_capacity(n)
          /\ blocks' = (blocks (+) Block(n)) (-) Block(buffer.capacity)
      BY <1>2 DEF CloneFrom
    <2>2. sized
      BY <1>1, <1>2, BufferParts DEF BufferOK
    <2>3. BufferOK(buffer') /\ buffer'.capacity = n
      BY <2>1, <2>2, NewBuffer
    <2>4. BufferOK(buffer)'
      BY <1>1, <2>3 DEF BufferOK
    <2>5. FieldsOK'
      BY <1>1, <2>3, <2>4 DEF FieldsOK, Room
    <2>6. blocks' = Block(n)
      BY <1>1, <1>2, <2>1, BlockReplaced, BufferParts DEF VecInv, BlocksOK
    <2>7. BlocksOK'
      BY <1>1, <2>3, <2>6 DEF BlocksOK, Block
    <2>8. QED
      BY <1>1, <2>5, <2>7, AllGo, GoKeeps DEF VecInv, Owned, OwnedFrom
  <1>3. CASE ~(buffer.capacity < n)
    <2>1. buffer' = [buffer EXCEPT !.len = 0] /\ blocks' = blocks
      BY <1>3 DEF CloneFrom
    <2>2. 0 \in 0 .. buffer.capacity
      BY <1>1, BufferParts
    <2>3. buffer'.capacity = buffer.capacity /\ BufferOK(buffer)'
      BY <1>1, <2>1, <2>2, OtherLength
    <2>4. n <= buffer.capacity
      BY <1>1, <1>3, BufferParts
    <2>5. FieldsOK'
      BY <1>1, <2>3, <2>4 DEF FieldsOK, Room
    <2>6. BlocksOK'
      BY <1>1, <2>1, <2>3, SameBlocks DEF VecInv
    <2>7. QED
      BY <1>1, <2>5, <2>6, AllGo, GoKeeps DEF VecInv, Owned, OwnedFrom
  <1>4. QED
    BY <1>2, <1>3

LEMMA CloneItemInv ==
  ASSUME VecInv, CloneItem
  PROVE  VecInv'
  <1>1. /\ FieldsOK /\ mode = "fill" /\ mode' = mode /\ sized' = sized /\ made' = made + 1
        /\ count < source /\ count' = count + 1 /\ source' = source /\ start' = start
        /\ gone' = gone /\ blocks' = blocks /\ promised' = promised
        /\ buffer' = [buffer EXCEPT !.items[count] = made + 1] /\ made \in Nat
    BY DEF VecInv, CloneItem, ItemsOK
  <1>2. /\ count \in Nat /\ source \in Nat /\ source <= buffer.capacity /\ count <= made
        /\ \A p \in 0 .. count - 1 : buffer.items[p] = made - count + p + 1
        /\ BufferOK(buffer) /\ start = 0 /\ promised \in 0 .. Room
    BY <1>1 DEF FieldsOK
  <1>3. count \in 0 .. buffer.capacity - 1
    BY <1>1, <1>2, BufferParts
  <1>4. /\ buffer'.capacity = buffer.capacity /\ buffer'.len = buffer.len
        /\ buffer'.items = [buffer.items EXCEPT ![count] = made + 1]
        /\ buffer' = [capacity |-> buffer'.capacity, len |-> buffer'.len, items |-> buffer'.items]
    BY <1>1, <1>2 DEF BufferOK
  <1>5. /\ buffer'.items = [p \in 0 .. buffer.capacity - 1 |-> buffer'.items[p]]
        /\ buffer'.items[count] = made + 1
        /\ \A p \in 0 .. count - 1 : buffer'.items[p] = buffer.items[p]
    BY <1>1, <1>3, <1>4, BufferParts
  <1>6. BufferOK(buffer)'
    BY <1>1, <1>2, <1>4, <1>5 DEF BufferOK
  <1>7. \A p \in 0 .. count' - 1 : buffer'.items[p] = made' - count' + p + 1
    BY <1>1, <1>2, <1>5
  <1>8. FieldsOK'
    <2>1. Room' = Room /\ count' \in Nat /\ count' <= source /\ count' <= made'
      BY <1>1, <1>2 DEF Room
    <2>2. QED
      BY <1>1, <1>2, <1>4, <1>6, <1>7, <2>1 DEF FieldsOK
  <1>9. Comes(count)
    <2>1. Owned = 0 .. count - 1 /\ Owned' = 0 .. count
      BY <1>1, <1>2 DEF Owned
    <2>2. count \notin Owned /\ Owned' = Owned \union {count}
      BY <1>2, <2>1
    <2>3. QED
      BY <1>1, <1>5, <2>1, <2>2 DEF Comes
  <1>10. BlocksOK'
    BY <1>1, <1>4, SameBlocks DEF VecInv
  <1>11. QED
    BY <1>8, <1>9, <1>10, ComesKeeps DEF VecInv

LEMMA FillEndsInv ==
  ASSUME VecInv, FillEnds
  PROVE  /\ VecInv' /\ buffer'.len = count /\ buffer'.items = buffer.items
         /\ buffer'.capacity = buffer.capacity
  <1>1. /\ FieldsOK /\ mode = "fill" /\ mode' = "vec" /\ sized' = sized /\ made' = made
        /\ count' = 0 /\ source' = 0 /\ start' = start /\ gone' = gone /\ blocks' = blocks
        /\ promised' = promised /\ buffer' = [buffer EXCEPT !.len = count]
    BY DEF VecInv, FillEnds
  <1>2. /\ BufferOK(buffer) /\ count \in Nat /\ count <= source /\ source <= buffer.capacity
        /\ source \in Nat /\ start = 0 /\ promised \in 0 .. Room
    BY <1>1 DEF FieldsOK
  <1>3. count \in 0 .. buffer.capacity
    BY <1>1, <1>2, BufferParts
  <1>4. /\ buffer'.len = count /\ buffer'.items = buffer.items
        /\ buffer'.capacity = buffer.capacity /\ BufferOK(buffer)'
    BY <1>1, <1>2, <1>3, OtherLength
  <1>5. promised' = 0 /\ Room' = buffer.capacity - count
    BY <1>1, <1>2, <1>4 DEF Room
  <1>6. FieldsOK'
    <2>1. promised' \in 0 .. Room'
      BY <1>1, <1>3, <1>5, BufferParts
    <2>2. QED
      BY <1>1, <1>2, <1>4, <2>1 DEF FieldsOK
  <1>7. Stay
    BY <1>1, <1>4 DEF Stay, Owned
  <1>8. BlocksOK'
    BY <1>1, <1>4, SameBlocks DEF VecInv
  <1>9. QED
    BY <1>4, <1>6, <1>7, <1>8, StayKeeps DEF VecInv

\* The drops of a vec, its conversion, and the drop of the iterator.
LEMMA DropInv ==
  ASSUME VecInv, Drop \/ IntoVec \/ IterDrop
  PROVE  VecInv'
  <1>1. /\ FieldsOK /\ mode \in {"vec", "iter"} /\ mode' = "gone" /\ sized' = sized
        /\ made' = made /\ buffer' = buffer /\ promised' = 0
        /\ blocks' = blocks (-) Block(buffer.capacity)
        /\ start' = start /\ source' = source /\ count' = count /\ Leave(OwnedFrom, buffer.len)
    BY DEF VecInv, Drop, IntoVec, IterDrop, OwnedFrom, FieldsOK
  <1>2. FieldsOK'
    <2>1. BufferOK(buffer)' /\ promised' \in 0 .. Room'
      BY <1>1 DEF FieldsOK, BufferOK, Room
    <2>2. QED
      BY <1>1, <2>1 DEF FieldsOK
  <1>3. ItemsOK'
    <2>1. Owned' = {}
      BY <1>1 DEF Owned
    <2>2. QED
      BY <1>1, <2>1, AllGo, GoKeeps DEF VecInv
  <1>4. BlocksOK'
    BY <1>1, FreedBlocks DEF VecInv
  <1>5. QED
    BY <1>2, <1>3, <1>4 DEF VecInv

\* The vec changes hands.
LEMMA IntoInv ==
  ASSUME VecInv, IntoRawParts \/ IntoIter \/ \E c \in 0 .. LenMax : FromRawParts(c)
  PROVE  VecInv' /\ buffer' = buffer
  <1>1. /\ FieldsOK /\ mode \in {"vec", "parts"} /\ mode' \in {"vec", "parts", "iter"}
        /\ sized' = sized /\ made' = made /\ gone' = gone /\ blocks' = blocks
        /\ start' = start /\ source' = source /\ count' = count
        /\ promised' = IF mode' = "iter" THEN 0 ELSE promised
    BY DEF VecInv, IntoRawParts, IntoIter, FromRawParts
  <1>2. buffer' = buffer
    <2>1. CASE IntoRawParts \/ IntoIter
      BY <2>1 DEF IntoRawParts, IntoIter
    <2>2. ASSUME NEW c \in 0 .. LenMax, FromRawParts(c) PROVE buffer' = buffer
      <3>1. /\ buffer' = [buffer EXCEPT !.capacity = IF sized THEN c ELSE LenMax]
            /\ sized => c = buffer.capacity
        BY <2>2 DEF FromRawParts
      <3>2. (IF sized THEN c ELSE LenMax) = buffer.capacity
        BY <1>1, <3>1 DEF FieldsOK, BufferOK
      <3>3. [buffer EXCEPT !.capacity = buffer.capacity] = buffer
        BY <1>1 DEF FieldsOK, BufferOK
      <3>4. QED
        BY <3>1, <3>2, <3>3
    <2>3. QED
      BY <2>1, <2>2
  <1>3. start = 0 /\ count = 0 /\ BufferOK(buffer)' /\ Room \in Nat
    BY <1>1, <1>2, BufferParts DEF FieldsOK, BufferOK, Room
  <1>4. FieldsOK'
    <2>1. promised' \in 0 .. Room'
      BY <1>1, <1>2 DEF FieldsOK, Room
    <2>2. start' <= buffer'.len
      BY <1>1, <1>2, <1>3, BufferParts
    <2>3. QED
      BY <1>1, <1>2, <1>3, <2>1, <2>2 DEF FieldsOK
  <1>5. Owned' = Owned
    <2>1. Owned = 0 .. buffer.len - 1 /\ Owned' = 0 .. buffer.len - 1
      BY <1>1, <1>2, <1>3 DEF Owned
    <2>2. QED
      BY <2>1
  <1>6. Stay
    BY <1>1, <1>2, <1>5 DEF Stay
  <1>7. BlocksOK'
    BY <1>1, <1>2, SameBlocks DEF VecInv
  <1>8. QED
    BY <1>2, <1>4, <1>6, <1>7, StayKeeps DEF VecInv

LEMMA IterNextInv ==
  ASSUME VecInv, IterNext
  PROVE  VecInv' /\ start < buffer.len
  <1>1. /\ FieldsOK /\ mode = "iter" /\ mode' = mode /\ sized' = sized /\ made' = made
        /\ buffer' = buffer /\ promised' = promised /\ blocks' = blocks
        /\ start # buffer.len /\ start' = start + 1 /\ source' = source /\ count' = count
        /\ Leave(start, start + 1)
    BY DEF VecInv, IterNext
  <1>2. start \in Nat /\ start < buffer.len
    BY <1>1, BufferParts DEF FieldsOK
  <1>3. FieldsOK'
    <2>1. BufferOK(buffer)' /\ promised' \in 0 .. Room'
      BY <1>1 DEF FieldsOK, BufferOK, Room
    <2>2. start' \in Nat /\ start' <= buffer'.len
      BY <1>1, <1>2, BufferParts
    <2>3. QED
      BY <1>1, <2>1, <2>2 DEF FieldsOK
  <1> DEFINE n == start + 1
  <1>4. Go(start, n)
    <2>1. Owned = start .. buffer.len - 1 /\ Owned' = start + 1 .. buffer.len - 1
      BY <1>1 DEF Owned
    <2>2. start .. n - 1 \subseteq Owned /\ Owned' = Owned \ (start .. n - 1)
      BY <1>1, <1>2, <2>1, BufferParts
    <2>3. Leave(start, n) /\ made' = made /\ buffer' = buffer
      BY <1>1
    <2> HIDE DEF n
    <2>4. QED
      BY <2>2, <2>3 DEF Go
  <1>5. BlocksOK'
    BY <1>1, SameBlocks DEF VecInv
  <1>6. QED
    BY <1>2, <1>3, <1>4, <1>5, GoKeeps DEF VecInv

-----------------------------------------------------------------------------
(* Owned once *)

LEMMA InitVecInv == Init => VecInv
  <1> SUFFICES ASSUME Init PROVE VecInv
    OBVIOUS
  <1>1. PICK c \in 0 .. LenMax : buffer = with_capacity(c) /\ blocks = Block(c)
    BY DEF Init
  <1>2. BufferOK(buffer) /\ buffer.len = 0 /\ Block(buffer.capacity) = Block(c)
    BY <1>1, NewBuffer
  <1>3. FieldsOK
    <2>1. 0 \in 0 .. buffer.capacity /\ buffer.capacity \in Nat
      BY <1>2, LengthsAssumption DEF BufferOK
    <2>2. 0 \in 0 .. Room
      BY <1>2, <2>1 DEF Init, Room
    <2>3. QED
      BY <1>2, <2>2 DEF Init, FieldsOK
  <1>4. ItemsOK
    <2>1. made = 0 /\ DOMAIN gone = {} /\ gone = [n \in {} |-> 0] /\ 1 .. made = {}
      BY DEF Init, EmptyBag, SetToBag
    <2>2. Owned = {}
      BY <1>2 DEF Init, Owned
    <2>3. QED
      BY <2>1, <2>2 DEF ItemsOK, IsBag
  <1>5. BlocksOK
    BY <1>1, <1>2 DEF Init, BlocksOK
  <1>6. QED
    BY <1>3, <1>4, <1>5 DEF VecInv

LEMMA StepVecInv == VecInv /\ [Next]_vars => VecInv'
  <1> SUFFICES ASSUME VecInv, [Next]_vars PROVE VecInv'
    OBVIOUS
  <1>1. CASE Next
    <2>1. ASSUME NEW n \in 1 .. LenMax, EnsureRoom(n) PROVE VecInv'
      BY <2>1, EnsureRoomInv
    <2>2. ASSUME NEW n \in 0 .. LenMax, CloneFrom(n) PROVE VecInv'
      BY <2>2, CloneFromInv
    <2>3. ASSUME NEW c \in 0 .. LenMax, FromRawParts(c) PROVE VecInv'
      BY <2>3, IntoInv
    <2>4. QED
      BY <1>1, <2>1, <2>2, <2>3, PushInv, LastInv, ClearInv, CloneItemInv, FillEndsInv,
         DropInv, IntoInv, IterNextInv DEF Next
  <1>2. CASE UNCHANGED vars
    <2>1. Stay
      BY <1>2 DEF vars, Stay, Owned
    <2>2. FieldsOK' /\ BlocksOK'
      BY <1>2 DEF vars, VecInv, FieldsOK, BufferOK, Room, BlocksOK, Block
    <2>3. QED
      BY <2>1, <2>2, StayKeeps DEF VecInv
  <1>3. QED
    BY <1>1, <1>2

LEMMA VecInvariance == Spec => []VecInv
  BY InitVecInv, StepVecInv, PTL DEF Spec

LEMMA InvOwnedOnce == VecInv => OwnedOnce
  <1> SUFFICES ASSUME VecInv PROVE OwnedOnce
    OBVIOUS
  <1>1. ASSUME NEW q \in 1 .. made
        PROVE  Cardinality({p \in Owned : buffer.items[p] = q}) + TimesGone(q) = 1
    <2>1. InOnePlace(q)
      BY DEF VecInv, ItemsOK
    <2>2. CASE Places(q) = {} /\ TimesGone(q) = 1
      BY <2>2, FS_EmptySet DEF Places
    <2>3. CASE TimesGone(q) = 0 /\ \E p \in Owned : Places(q) = {p}
      <3>1. PICK p \in Owned : Places(q) = {p}
        BY <2>3
      <3>2. Cardinality({p}) = 1
        BY FS_Singleton
      <3>3. QED
        BY <2>3, <3>1, <3>2 DEF Places
    <2>4. QED
      BY <2>1, <2>2, <2>3 DEF InOnePlace
  <1>2. QED
    BY <1>1 DEF VecInv, ItemsOK, BlocksOK, OwnedOnce, BagToSet

\* A SingleVec drops each item once and frees each block once, whatever growing,
\* clone_from, the conversions and panics in between did.
THEOREM ItemsOwnedOnce == Spec => []OwnedOnce
  BY VecInvariance, InvOwnedOnce, PTL

-----------------------------------------------------------------------------
(* The SingleVec implements the storage *)

\* The storage as the instance Abs sees it.
VecContents ==
  CASE mode \in {"vec", "parts"} -> [i \in 1 .. buffer.len |-> buffer.items[i - 1]]
    [] mode = "fill" -> <<>>
    [] mode = "iter" -> [i \in 1 .. buffer.len - start |-> buffer.items[start + i - 1]]
    [] OTHER -> <<>>
VecMade == IF mode = "fill" THEN made - count ELSE made
VecLen ==
  CASE mode \in {"vec", "parts"} -> buffer.len
    [] mode = "iter" -> buffer.len - start
    [] OTHER -> 0

\* A sequence given by its items.
LEMMA SequenceOf ==
  ASSUME NEW n \in Nat, NEW f, f = [i \in 1 .. n |-> f[i]], \A i \in 1 .. n : f[i] \in Nat
  PROVE  f \in Seq(Nat) /\ Len(f) = n
  <1>1. f \in [1 .. n -> Nat]
    BY Zenon
  <1>2. QED
    BY <1>1

\* The contents are the items from the first one owned on.
HasContents ==
  /\ VecLen \in Nat /\ VecContents \in Seq(Nat) /\ Len(VecContents) = VecLen
  /\ \A i \in 1 .. VecLen : VecContents[i] = buffer.items[OwnedFrom + i - 1]

LEMMA ContentsItems == VecInv => HasContents
  <1> SUFFICES ASSUME VecInv PROVE HasContents
    OBVIOUS
  <1>1. FieldsOK /\ made \in Nat /\ \A p \in Owned : buffer.items[p] \in 1 .. made
    BY DEF VecInv, ItemsOK
  <1>2. \A p \in Owned : buffer.items[p] \in Nat
    BY <1>1
  <1>3. CASE mode \in {"vec", "parts"}
    <2>1. /\ VecContents = [i \in 1 .. buffer.len |-> buffer.items[i - 1]] /\ VecLen = buffer.len
          /\ Owned = 0 .. buffer.len - 1 /\ OwnedFrom = 0
      BY <1>3 DEF VecContents, VecLen, Owned, OwnedFrom
    <2>2. \A i \in 1 .. VecLen : VecContents[i] = buffer.items[OwnedFrom + i - 1]
      BY <1>1, <2>1, BufferParts
    <2>3. ASSUME NEW i \in 1 .. VecLen PROVE VecContents[i] \in Nat
      BY <1>1, <1>2, <2>1, BufferParts
    <2>4. VecContents = [i \in 1 .. VecLen |-> VecContents[i]] /\ VecLen \in Nat
      BY <1>1, <2>1, BufferParts
    <2>5. VecContents \in Seq(Nat) /\ Len(VecContents) = VecLen
      BY <2>3, <2>4, SequenceOf
    <2>6. QED
      BY <2>2, <2>4, <2>5 DEF HasContents
  <1>4. CASE mode = "iter"
    <2>1. /\ VecContents = [i \in 1 .. buffer.len - start |-> buffer.items[start + i - 1]]
          /\ VecLen = buffer.len - start
          /\ Owned = start .. buffer.len - 1 /\ OwnedFrom = start
          /\ start \in Nat /\ start <= buffer.len
      BY <1>1, <1>4 DEF VecContents, VecLen, Owned, OwnedFrom, FieldsOK
    <2>2. VecLen \in Nat
      BY <1>1, <2>1, BufferParts
    <2>3. ASSUME NEW i \in 1 .. VecLen
          PROVE  VecContents[i] = buffer.items[OwnedFrom + i - 1] /\ VecContents[i] \in Nat
      <3>1. OwnedFrom + i - 1 \in Owned
        BY <1>1, <2>1, BufferParts
      <3>2. QED
        BY <1>2, <2>1, <3>1
    <2>4. VecContents = [i \in 1 .. VecLen |-> VecContents[i]]
      BY <2>1
    <2>5. VecContents \in Seq(Nat) /\ Len(VecContents) = VecLen
      BY <2>2, <2>3, <2>4, SequenceOf
    <2>6. QED
      BY <2>2, <2>3, <2>5 DEF HasContents
  <1>5. CASE mode \in {"fill", "gone"}
    BY <1>5 DEF VecContents, VecLen, HasContents
  <1>6. QED
    BY <1>1, <1>3, <1>4, <1>5 DEF FieldsOK

LEMMA NextContents == VecInv' => HasContents'
  BY ContentsItems, PTL

\* What the steps of the storage say of this one.
LEMMA AbsSteps ==
  /\ Abs!Push <=>
       /\ VecMade' > VecMade
       /\ VecContents' = Append(VecContents, VecMade + 1)
       /\ IF Room = 0 THEN Room' \in Nat ELSE Room' = Room - 1
       /\ promised' = IF promised = 0 THEN 0 ELSE promised - 1
  /\ Abs!EnsureRoom <=>
       /\ Room' >= Room /\ promised' >= promised
       /\ VecContents' = VecContents /\ VecMade' = VecMade
  /\ Abs!TakeLast <=>
       /\ VecContents # <<>>
       /\ VecContents' = SubSeq(VecContents, 1, Len(VecContents) - 1)
       /\ Room' \in {Room, Room + 1}
       /\ promised' = promised /\ VecMade' = VecMade
  /\ Abs!TakeFirst <=>
       /\ VecContents # <<>> /\ VecContents' = Tail(VecContents)
       /\ Room' = Room /\ promised' = promised /\ VecMade' = VecMade
  /\ Abs!Empty <=>
       /\ VecContents' = <<>>
       /\ (Room' = Room + Len(VecContents) /\ promised' = promised) \/ promised' = 0
       /\ VecMade' = VecMade
  /\ Abs!Clones <=>
       /\ VecContents = <<>>
       /\ VecContents' = [i \in 1 .. Len(VecContents') |-> VecMade + i]
       /\ VecMade' >= VecMade + Len(VecContents') /\ promised' = 0
  /\ Abs!IntoIter <=>
       /\ Room' = 0 /\ promised' = 0 /\ VecContents' = VecContents /\ VecMade' = VecMade
  /\ UNCHANGED Abs!vars <=>
       /\ VecContents' = VecContents /\ Room' = Room /\ promised' = promised
       /\ VecMade' = VecMade
  <1> USE DEF VecContents, Room, VecMade
  <1>1. Abs!Push <=>
       /\ VecMade' > VecMade
       /\ VecContents' = Append(VecContents, VecMade + 1)
       /\ IF Room = 0 THEN Room' \in Nat ELSE Room' = Room - 1
       /\ promised' = IF promised = 0 THEN 0 ELSE promised - 1
    BY Zenon DEF Abs!Push
  <1>2. QED
    BY <1>1 DEF Abs!EnsureRoom, Abs!TakeLast, Abs!TakeFirst, Abs!Empty, Abs!Clones,
              Abs!IntoIter, Abs!vars

\* The items of the contents and their places.
LEMMA ContentsPlaces ==
  ASSUME FieldsOK
  PROVE  /\ OwnedFrom \in Nat /\ Room \in Nat
         /\ mode \notin {"fill", "gone"} => Owned = OwnedFrom .. OwnedFrom + VecLen - 1
         /\ VecLen \in Nat
  <1>1. mode \in {"vec", "parts"} => VecLen = buffer.len /\ OwnedFrom = 0 /\ Owned = 0 .. buffer.len - 1
    BY DEF VecLen, OwnedFrom, Owned
  <1>2. mode = "iter" => /\ VecLen = buffer.len - start /\ OwnedFrom = start
                         /\ Owned = start .. buffer.len - 1 /\ start <= buffer.len
    BY DEF VecLen, OwnedFrom, Owned, FieldsOK
  <1>3. mode \in {"fill", "gone"} => VecLen = 0 /\ OwnedFrom = 0
    BY DEF VecLen, OwnedFrom
  <1>4. Room \in Nat
    BY BufferParts DEF Room
  <1>5. mode \in {"vec", "fill", "parts", "iter", "gone"} /\ start \in Nat
    BY DEF FieldsOK
  <1>6. QED
    BY <1>1, <1>2, <1>3, <1>4, <1>5, BufferParts

LEMMA SameContents ==
  ASSUME HasContents, HasContents', VecLen' = VecLen,
         \A i \in 1 .. VecLen : buffer'.items[OwnedFrom' + i - 1] = buffer.items[OwnedFrom + i - 1]
  PROVE  VecContents' = VecContents
  <1>1. \A i \in 1 .. VecLen : VecContents'[i] = VecContents[i]
    BY DEF HasContents
  <1>2. Len(VecContents') = Len(VecContents) /\ Len(VecContents') = VecLen
    BY DEF HasContents
  <1>3. QED
    BY <1>1, <1>2, SeqEqual DEF HasContents

LEMMA NoContents ==
  ASSUME HasContents
  PROVE  VecContents = <<>> <=> VecLen = 0
  BY DEF HasContents

LEMMA NoNextContents == (HasContents => (VecContents = <<>> <=> VecLen = 0))'
  BY NoContents, PTL

\* The room there is, and that it is what was promised.
PromiseKept == promised \in Nat /\ Room \in Nat /\ promised <= Room

LEMMA KeepsPromise == VecInv => PromiseKept
  <1> SUFFICES ASSUME VecInv PROVE PromiseKept
    OBVIOUS
  <1>1. FieldsOK /\ promised \in 0 .. Room
    BY DEF VecInv, FieldsOK
  <1>2. Room \in Nat
    BY <1>1, BufferParts DEF Room
  <1>3. QED
    BY <1>1, <1>2 DEF PromiseKept

LEMMA NextKeepsPromise == VecInv' => PromiseKept'
  BY KeepsPromise, PTL

LEMMA PushImplements ==
  ASSUME VecInv, VecInv', HasContents, HasContents', Push
  PROVE  Abs!Push
  <1>1. /\ FieldsOK /\ mode = "vec" /\ mode' = "vec" /\ made' = made + 1 /\ made \in Nat
        /\ promised' = Larger(promised - 1, 0) /\ promised \in Nat /\ start' = start
    BY BufferParts DEF VecInv, Push, ItemsOK
  <1>2. Comes(buffer.len) /\ buffer'.len = buffer.len + 1 /\ (Room = 0 \/ Room' = Room - 1)
    BY PushInv
  <1>3. /\ VecMade = made /\ VecMade' = made + 1 /\ VecLen = buffer.len /\ VecLen' = buffer'.len
        /\ OwnedFrom = 0 /\ OwnedFrom' = 0 /\ Owned = 0 .. buffer.len - 1 /\ buffer.len \in Nat
    <2>1. VecMade = made /\ VecMade' = made + 1
      BY <1>1 DEF VecMade
    <2>2. VecLen = buffer.len /\ VecLen' = buffer'.len
      BY <1>1 DEF VecLen
    <2>3. OwnedFrom = 0 /\ OwnedFrom' = 0 /\ Owned = 0 .. buffer.len - 1
      BY <1>1 DEF OwnedFrom, Owned
    <2>4. QED
      BY <1>1, <2>1, <2>2, <2>3, BufferParts
  <1> DEFINE s == VecContents
             t == Append(s, made + 1)
             n == buffer.len
  <1>4. /\ s \in Seq(Nat) /\ made + 1 \in Nat /\ Len(s) = n /\ n \in Nat
        /\ \A i \in 1 .. n : s[i] = buffer.items[0 + i - 1]
    BY <1>1, <1>3 DEF HasContents
  <1>5. /\ t \in Seq(Nat) /\ Len(t) = n + 1 /\ t[n + 1] = made + 1
        /\ \A i \in 1 .. n : t[i] = s[i]
    BY <1>4, AppendProperties
  <1>6. /\ VecContents' \in Seq(Nat) /\ Len(VecContents') = n + 1
        /\ \A i \in 1 .. n + 1 : VecContents'[i] = buffer'.items[0 + i - 1]
    BY <1>2, <1>3 DEF HasContents
  <1>7. /\ buffer'.items[n] = made + 1
        /\ \A o \in 0 .. n - 1 : buffer'.items[o] = buffer.items[o]
    BY <1>2, <1>3 DEF Comes
  <1> HIDE DEF t, s, n
  <1>8. ASSUME NEW i \in 1 .. n + 1 PROVE VecContents'[i] = t[i]
    <2>1. CASE i \in 1 .. n
      <3>1. 0 + i - 1 \in 0 .. n - 1
        BY <1>4, <2>1
      <3>2. QED
        BY <1>4, <1>5, <1>6, <1>7, <2>1, <3>1
    <2>2. CASE i = n + 1
      <3>1. 0 + i - 1 = n
        BY <1>4, <2>2
      <3>2. QED
        BY <1>5, <1>6, <1>7, <2>2, <3>1
    <2>3. QED
      BY <1>4, <2>1, <2>2
  <1>9. VecContents' = t
    BY <1>5, <1>6, <1>8, SeqEqual
  <1>10. VecContents' = Append(VecContents, VecMade + 1)
    BY <1>3, <1>9 DEF t, s
  <1>11. Room' \in Nat
    BY NextKeepsPromise DEF PromiseKept
  <1>12. promised' = IF promised = 0 THEN 0 ELSE promised - 1
    BY <1>1 DEF Larger
  <1>13. VecMade' > VecMade
    BY <1>1, <1>3
  <1>14. QED
    BY <1>2, <1>10, <1>11, <1>12, <1>13, AbsSteps

LEMMA LastImplements ==
  ASSUME VecInv, VecInv', HasContents, HasContents', Pop \/ IterNextBack
  PROVE  Abs!TakeLast
  <1>1. /\ FieldsOK /\ mode \in {"vec", "iter"} /\ mode' = mode /\ made' = made
        /\ promised' = promised /\ start' = start
    BY DEF VecInv, Pop, IterNextBack
  <1>2. /\ buffer'.items = buffer.items /\ buffer'.len = buffer.len - 1
        /\ buffer'.capacity = buffer.capacity /\ OwnedFrom <= buffer.len - 1
    BY LastInv
  <1>3. /\ VecMade = made /\ VecMade' = made /\ VecLen = buffer.len - OwnedFrom
        /\ VecLen' = VecLen - 1 /\ OwnedFrom' = OwnedFrom /\ VecLen > 0
        /\ Room' \in {Room, Room + 1}
    <2>1. /\ VecMade = made /\ VecMade' = made /\ OwnedFrom' = OwnedFrom
          /\ VecLen = IF mode = "vec" THEN buffer.len ELSE buffer.len - start
          /\ VecLen' = IF mode = "vec" THEN buffer'.len ELSE buffer'.len - start
          /\ Room = IF mode = "vec" THEN buffer.capacity - buffer.len ELSE 0
          /\ Room' = IF mode = "vec" THEN buffer'.capacity - buffer'.len ELSE 0
      BY <1>1 DEF VecMade, VecLen, OwnedFrom, Room
    <2>2. OwnedFrom = IF mode = "vec" THEN 0 ELSE start
      BY <1>1 DEF OwnedFrom
    <2>3. start \in Nat /\ buffer.len \in Nat /\ buffer.capacity \in Nat
      BY <1>1, BufferParts DEF FieldsOK
    <2>4. QED
      BY <1>1, <1>2, <2>1, <2>2, <2>3
  <1> DEFINE s == VecContents
             t == SubSeq(s, 1, Len(s) - 1)
  <1>4. s \in Seq(Nat) /\ Len(s) = VecLen /\ VecLen \in Nat /\ s # <<>>
    BY <1>3 DEF HasContents
  <1>5. t \in Seq(Nat) /\ Len(t) = VecLen - 1 /\ \A i \in 1 .. VecLen - 1 : t[i] = s[i]
    <2>1. \A i \in 1 .. Len(s) - 1 : s[i] \in Nat
      BY <1>4
    <2>2. /\ t \in Seq(Nat) /\ Len(t) = IF 1 <= Len(s) - 1 THEN Len(s) - 1 - 1 + 1 ELSE 0
          /\ \A i \in 1 .. Len(s) - 1 - 1 + 1 : t[i] = s[1 + i - 1]
      <3>1. Len(s) - 1 \in Int
        BY <1>4
      <3>2. QED
        BY <2>1, <3>1, SubSeqProperties
    <2>3. QED
      BY <1>3, <1>4, <2>2
  <1> HIDE DEF t
  <1>6. /\ VecContents' \in Seq(Nat) /\ Len(VecContents') = VecLen - 1
        /\ \A i \in 1 .. VecLen - 1 : VecContents'[i] = s[i]
    BY <1>2, <1>3 DEF HasContents
  <1>7. VecContents' = t
    BY <1>5, <1>6, SeqEqual
  <1>8. QED
    BY <1>1, <1>3, <1>4, <1>7, AbsSteps DEF t

LEMMA FirstImplements ==
  ASSUME VecInv, VecInv', HasContents, HasContents', IterNext
  PROVE  Abs!TakeFirst
  <1>1. /\ FieldsOK /\ mode = "iter" /\ mode' = mode /\ made' = made
        /\ promised' = promised /\ start' = start + 1 /\ buffer' = buffer
    BY DEF VecInv, IterNext
  <1>2. start < buffer.len /\ start \in Nat /\ buffer.len \in Nat
    BY <1>1, IterNextInv, BufferParts DEF FieldsOK
  <1>3. /\ VecMade = made /\ VecMade' = made /\ VecLen = buffer.len - start
        /\ VecLen' = buffer.len - (start + 1) /\ OwnedFrom = start /\ OwnedFrom' = start + 1
        /\ Room' = Room
    BY <1>1 DEF VecMade, VecLen, OwnedFrom, Room
  <1> DEFINE s == VecContents
             t == Tail(s)
  <1>4. s \in Seq(Nat) /\ Len(s) = VecLen /\ s # <<>>
    BY <1>2, <1>3 DEF HasContents
  <1>5. t \in Seq(Nat) /\ Len(t) = VecLen - 1 /\ \A i \in 1 .. VecLen - 1 : t[i] = s[i + 1]
    BY <1>4, HeadTailProperties
  <1> HIDE DEF t
  <1>6. VecContents' \in Seq(Nat) /\ Len(VecContents') = VecLen - 1
    BY <1>2, <1>3 DEF HasContents
  <1>7. ASSUME NEW i \in 1 .. VecLen - 1 PROVE VecContents'[i] = s[i + 1]
    <2>1. i + 1 \in 1 .. VecLen /\ i \in 1 .. VecLen'
      BY <1>2, <1>3
    <2>2. VecContents'[i] = buffer.items[start + 1 + i - 1]
      BY <1>1, <1>3, <2>1 DEF HasContents
    <2>3. s[i + 1] = buffer.items[start + (i + 1) - 1]
      BY <1>3, <2>1 DEF HasContents
    <2>4. start + 1 + i - 1 = start + (i + 1) - 1
      BY <1>2, <2>1
    <2>5. QED
      BY <2>2, <2>3, <2>4
  <1>8. VecContents' = t
    BY <1>5, <1>6, <1>7, SeqEqual
  <1>9. QED
    BY <1>1, <1>3, <1>4, <1>8, AbsSteps DEF t

LEMMA EnsureRoomImplements ==
  ASSUME VecInv, HasContents, HasContents', NEW n \in 1 .. LenMax, EnsureRoom(n)
  PROVE  Abs!EnsureRoom
  <1>1. /\ FieldsOK /\ mode = "vec" /\ mode' = "vec" /\ made' = made
        /\ \A p \in Owned : buffer'.items[p] = buffer.items[p]
        /\ Owned = 0 .. buffer.len - 1 /\ Owned' = Owned
        /\ Room' >= Room /\ promised' >= promised
    BY EnsureRoomInv DEF VecInv, EnsureRoom, Stay, Owned
  <1>2. buffer'.len = buffer.len
    BY <1>1, MakesRoom DEF EnsureRoom, VecInv, FieldsOK
  <1>3. /\ VecMade' = VecMade /\ VecLen = buffer.len /\ VecLen' = buffer.len
        /\ OwnedFrom = 0 /\ OwnedFrom' = 0
    BY <1>1, <1>2 DEF VecMade, VecLen, OwnedFrom
  <1>4. ASSUME NEW i \in 1 .. VecLen
        PROVE  buffer'.items[OwnedFrom' + i - 1] = buffer.items[OwnedFrom + i - 1]
    <2>1. OwnedFrom + i - 1 \in Owned
      BY <1>1, <1>3, BufferParts
    <2>2. QED
      BY <1>1, <1>3, <2>1
  <1>5. VecContents' = VecContents
    BY <1>3, <1>4, SameContents
  <1>6. QED
    BY <1>1, <1>3, <1>5, AbsSteps

\* What does not show: a clone that is not counted yet, and the parts.
LEMMA StepsUnseen ==
  ASSUME VecInv, CloneItem \/ IntoRawParts \/ \E c \in 0 .. LenMax : FromRawParts(c)
  PROVE  UNCHANGED Abs!vars
  <1>1. CASE CloneItem
    <2>1. /\ mode = "fill" /\ mode' = "fill" /\ made' = made + 1 /\ count' = count + 1
          /\ promised' = promised /\ made \in Nat /\ count \in Nat
      BY <1>1 DEF CloneItem, VecInv, FieldsOK, ItemsOK
    <2>2. VecContents' = VecContents /\ Room' = Room
      BY <2>1 DEF VecContents, Room
    <2>3. VecMade' = VecMade
      BY <2>1 DEF VecMade
    <2>4. QED
      BY <2>1, <2>2, <2>3, AbsSteps
  <1>2. CASE IntoRawParts \/ \E c \in 0 .. LenMax : FromRawParts(c)
    <2>1. buffer' = buffer
      BY <1>2, IntoInv
    <2>2. /\ mode \in {"vec", "parts"} /\ mode' \in {"vec", "parts"} /\ made' = made
          /\ promised' = promised
      BY <1>2 DEF IntoRawParts, FromRawParts
    <2>3. VecContents' = VecContents /\ Room' = Room /\ VecMade' = VecMade
      BY <2>1, <2>2 DEF VecContents, Room, VecMade
    <2>4. QED
      BY <2>2, <2>3, AbsSteps
  <1>3. QED
    BY <1>1, <1>2

LEMMA IntoIterImplements ==
  ASSUME VecInv, HasContents, HasContents', IntoIter
  PROVE  Abs!IntoIter
  <1>1. /\ mode = "vec" /\ mode' = "iter" /\ buffer' = buffer /\ made' = made
        /\ promised' = 0 /\ start' = start /\ start = 0 /\ FieldsOK
    BY DEF IntoIter, VecInv, FieldsOK
  <1>2. Room' = 0 /\ VecMade' = VecMade /\ VecLen = buffer.len /\ OwnedFrom = 0
    BY <1>1 DEF Room, VecMade, VecLen, OwnedFrom
  <1>3. VecLen' = buffer.len /\ OwnedFrom' = 0
    <2>1. VecLen' = buffer.len - 0 /\ OwnedFrom' = 0
      BY <1>1 DEF VecLen, OwnedFrom
    <2>2. QED
      BY <1>1, <2>1, BufferParts
  <1>4. VecContents' = VecContents
    BY <1>1, <1>2, <1>3, SameContents
  <1>5. QED
    BY <1>1, <1>2, <1>4, AbsSteps

\* The steps that leave no item.
LEMMA EmptyImplements ==
  ASSUME VecInv, HasContents, HasContents',
         Clear \/ (\E n \in 0 .. LenMax : CloneFrom(n)) \/ Drop \/ IntoVec \/ IterDrop
  PROVE  Abs!Empty
  <1>1. FieldsOK /\ made \in Nat
    BY DEF VecInv, ItemsOK
  <1>2. CASE Clear
    <2>1. /\ mode = "vec" /\ mode' = "vec" /\ made' = made /\ promised' = promised
          /\ buffer'.len = 0 /\ buffer'.capacity = buffer.capacity
      BY <1>2, ClearInv DEF Clear
    <2>2. /\ VecMade' = VecMade /\ VecLen' = 0 /\ Room = buffer.capacity - buffer.len
          /\ Room' = buffer.capacity - 0 /\ VecLen = buffer.len
      BY <2>1 DEF VecMade, VecLen, Room
    <2>3. Room' = Room + Len(VecContents) /\ VecContents' = <<>>
      BY <1>1, <2>2, BufferParts, NoNextContents DEF HasContents
    <2>4. QED
      BY <2>1, <2>2, <2>3, AbsSteps
  <1>3. CASE \E n \in 0 .. LenMax : CloneFrom(n)
    <2>1. /\ mode = "vec" /\ mode' = "fill" /\ made' = made /\ promised' = 0
          /\ count' = count /\ count = 0
      BY <1>1, <1>3 DEF CloneFrom, FieldsOK
    <2>2. VecMade = made /\ VecMade' = made - 0
      BY <2>1 DEF VecMade
    <2>3. VecContents' = <<>>
      BY <2>1 DEF VecContents
    <2>4. VecMade' = VecMade
      BY <1>1, <2>2
    <2>5. QED
      BY <2>1, <2>3, <2>4, AbsSteps
  <1>4. CASE Drop \/ IntoVec \/ IterDrop
    <2>1. mode # "fill" /\ mode' = "gone" /\ made' = made /\ promised' = 0
      BY <1>4 DEF Drop, IntoVec, IterDrop
    <2>2. VecMade' = VecMade /\ VecContents' = <<>>
      BY <2>1 DEF VecMade, VecContents
    <2>3. QED
      BY <2>1, <2>2, AbsSteps
  <1>5. QED
    BY <1>2, <1>3, <1>4

LEMMA ClonesImplements ==
  ASSUME VecInv, HasContents, HasContents', FillEnds
  PROVE  Abs!Clones
  <1>1. /\ mode = "fill" /\ mode' = "vec" /\ made' = made /\ promised' = promised
        /\ buffer'.len = count /\ buffer'.items = buffer.items /\ count \in Nat /\ made \in Nat
        /\ count <= made /\ promised \in 0 .. Room
        /\ \A p \in 0 .. count - 1 : buffer.items[p] = made - count + p + 1
    BY FillEndsInv DEF FillEnds, VecInv, FieldsOK, ItemsOK
  <1>2. /\ VecMade = made - count /\ VecMade' = made /\ Room = 0 /\ VecContents = <<>>
        /\ VecContents' = [i \in 1 .. count |-> buffer.items[i - 1]] /\ VecLen' = count
    BY <1>1 DEF VecMade, Room, VecContents, VecLen
  <1>3. Len(VecContents') = count
    BY <1>2 DEF HasContents
  <1>4. ASSUME NEW i \in 1 .. count PROVE buffer.items[i - 1] = VecMade + i
    <2>1. i - 1 \in 0 .. count - 1 /\ made - count + (i - 1) + 1 = made - count + i
      BY <1>1
    <2>2. QED
      BY <1>1, <1>2, <2>1
  <1>5. VecContents' = [i \in 1 .. Len(VecContents') |-> VecMade + i]
    BY <1>2, <1>3, <1>4
  <1>6. VecMade' >= VecMade + Len(VecContents') /\ promised' = 0
    BY <1>1, <1>2, <1>3
  <1>7. QED
    BY <1>2, <1>5, <1>6, AbsSteps

LEMMA VecInitImplements == Init => Abs!Init
  <1> SUFFICES ASSUME Init PROVE Abs!Init
    OBVIOUS
  <1>1. HasContents /\ PromiseKept
    BY InitVecInv, ContentsItems, KeepsPromise
  <1>2. mode = "vec" /\ buffer.len = 0 /\ promised = 0 /\ made = 0
    BY DEF Init, with_capacity
  <1>3. VecLen = 0 /\ VecMade = 0
    BY <1>2 DEF VecLen, VecMade
  <1>4. VecContents = <<>>
    BY <1>1, <1>3, NoContents
  <1>5. Abs!Init <=> VecContents = <<>> /\ Room \in Nat /\ promised = 0 /\ VecMade = 0
    BY DEF Abs!Init, VecContents, Room, VecMade
  <1>6. QED
    BY <1>1, <1>2, <1>3, <1>4, <1>5 DEF PromiseKept

LEMMA VecStepImplements == VecInv /\ VecInv' /\ [Next]_vars => [Abs!Next]_Abs!vars
  <1> SUFFICES ASSUME VecInv, VecInv', [Next]_vars PROVE [Abs!Next]_Abs!vars
    OBVIOUS
  <1>1. HasContents /\ HasContents' /\ PromiseKept'
    BY ContentsItems, NextContents, NextKeepsPromise
  <1>2. promised' <= Room' /\ Room' \in Nat
    BY <1>1 DEF PromiseKept
  <1>3. Abs!Next <=>
          /\ \/ Abs!Push \/ Abs!EnsureRoom \/ Abs!TakeLast \/ Abs!TakeFirst \/ Abs!Empty
             \/ Abs!Clones \/ Abs!IntoIter
          /\ promised' <= Room' /\ Room' \in Nat
    BY DEF Abs!Next, Room
  <1>4. CASE \E n \in 1 .. LenMax : EnsureRoom(n)
    BY <1>1, <1>2, <1>3, <1>4, EnsureRoomImplements
  <1>5. CASE Push
    BY <1>1, <1>2, <1>3, <1>5, PushImplements
  <1>6. CASE Pop \/ IterNextBack
    BY <1>1, <1>2, <1>3, <1>6, LastImplements
  <1>7. CASE IterNext
    BY <1>1, <1>2, <1>3, <1>7, FirstImplements
  <1>8. CASE Clear \/ (\E n \in 0 .. LenMax : CloneFrom(n)) \/ Drop \/ IntoVec \/ IterDrop
    BY <1>1, <1>2, <1>3, <1>8, EmptyImplements
  <1>9. CASE FillEnds
    BY <1>1, <1>2, <1>3, <1>9, ClonesImplements
  <1>10. CASE IntoIter
    BY <1>1, <1>2, <1>3, <1>10, IntoIterImplements
  <1>11. CASE CloneItem \/ IntoRawParts \/ \E c \in 0 .. LenMax : FromRawParts(c)
    BY <1>11, StepsUnseen
  <1>12. CASE UNCHANGED vars
    <2>1. UNCHANGED <<mode, buffer, start, count, made, promised>>
      BY <1>12 DEF vars
    <2>2. VecContents' = VecContents /\ Room' = Room /\ VecMade' = VecMade
      BY <2>1 DEF VecContents, Room, VecMade
    <2>3. QED
      BY <2>1, <2>2, AbsSteps
  <1>13. QED
    BY <1>4, <1>5, <1>6, <1>7, <1>8, <1>9, <1>10, <1>11, <1>12 DEF Next

\* A SingleVec is a sequence of items as the rules of SliceStorage describe
\* it: whatever grew, moved, was cloned, converted or iterated, and wherever
\* a clone panicked, it has the items that were pushed in their order, and
\* the room that ensure_room promised.
THEOREM VecRefines == Spec => ImplementsSliceStorage
  <1>1. Spec => []VecInv
    BY VecInvariance
  <1>2. QED
    BY <1>1, VecInitImplements, VecStepImplements, PTL DEF Spec, ImplementsSliceStorage, Abs!Spec

=============================================================================
