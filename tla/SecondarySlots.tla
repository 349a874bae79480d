--------------------------- MODULE SecondarySlots ---------------------------
(***************************************************************************)
(* The slots that SecondaryMap and DenseSecondaryMap share: one per index  *)
(* of the primary map's keys, with the generation of the key its value was *)
(* stored under, or empty (generation zero).  A new key may take a slot    *)
(* over from an old one, if the replace strategy of the config says so.    *)
(***************************************************************************)
EXTENDS Integers, FiniteSets

CONSTANTS
  MaxIdx,     \* the largest index a key can hold
  MaxGen,     \* the largest generation a key can hold
  Strategy,   \* the replace strategy: the pairs of generations, of a slot and
              \* of a key, for which the key takes the slot over
  StorageMax  \* bound: the most slots the storage ever has room for

VARIABLES
  slots,      \* the storage: a function from 0 .. slots_len - 1 to slots
  slots_len,  \* the storage's own length
  capacity,   \* how many slots the storage has room for
  asked       \* history: the key of the last call that had an effect

Odd(g) == g % 2 = 1
OddGens == {g \in 0 .. MaxGen : Odd(g)}
Keys == [idx : 0 .. MaxIdx, gen : OddGens]
Key(i, g) == [idx |-> i, gen |-> g]
NoKey == Key(0, 0)

ASSUME SecondaryAssumption ==
  /\ MaxIdx \in Nat /\ MaxGen \in Nat /\ MaxGen % 2 = 1
  /\ Strategy \subseteq OddGens \X OddGens
  /\ StorageMax \in Nat

NewerWins == {p \in OddGens \X OddGens : p[1] < p[2]}
ExistingWins == {}

Slot(g, x) == [gen |-> g, item |-> x]
EmptySlot == Slot(0, 0)
Positions == 0 .. slots_len - 1
HoldsValue(i) == Odd(slots[i].gen)

contains_key(k) == k.idx \in Positions /\ slots[k.idx].gen = k.gen

\* Mutant: every key takes a slot over.
Accepts_always(k) == TRUE

\* Mutant: the generations are the wrong way round.
Accepts_older(k) ==
  k.idx \in Positions /\ HoldsValue(k.idx) =>
    k.gen = slots[k.idx].gen \/ <<k.gen, slots[k.idx].gen>> \in Strategy

\* A value may go into the slot of the key: there is none, it is empty, it has
\* the key's generation, or the strategy replaces what it holds.
Accepts(k) ==
  k.idx \in Positions /\ HoldsValue(k.idx) =>
    k.gen = slots[k.idx].gen \/ <<slots[k.idx].gen, k.gen>> \in Strategy

\* ensure_room(n) of the storage.
ensure_room(n) ==
  IF slots_len + n <= capacity
  THEN UNCHANGED capacity
  ELSE \E c \in slots_len + n .. StorageMax : capacity' = c

\* Mutant: room is made for the missing slots, but not for the one at i.
put_short(i, s) ==
  /\ IF i < slots_len THEN UNCHANGED capacity ELSE ensure_room(i - slots_len)
  /\ slots_len' = IF i < slots_len THEN slots_len ELSE i + 1
  /\ slots' = [j \in 0 .. slots_len' - 1 |->
                 IF j = i THEN s ELSE IF j < slots_len THEN slots[j] ELSE EmptySlot]

\* The slot i becomes s.  If it is missing, grow_to makes room for all the
\* slots up to it, adds empty ones before it, and it is pushed.
put(i, s) ==
  /\ IF i < slots_len THEN UNCHANGED capacity ELSE ensure_room(i - slots_len + 1)
  /\ slots_len' = IF i < slots_len THEN slots_len ELSE i + 1
  /\ slots' = [j \in 0 .. slots_len' - 1 |->
                 IF j = i THEN s ELSE IF j < slots_len THEN slots[j] ELSE EmptySlot]

=============================================================================
