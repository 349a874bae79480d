------------------------------- MODULE Slots -------------------------------
(***************************************************************************)
(* The slots that GenMap and DenseGenMap share (src/src/map.rs): an odd    *)
(* generation marks a slot that holds a value, and an even one a slot that *)
(* holds an index, its link: the next slot of the free list, the slot's    *)
(* own index while it is detached, or no_slot.  A key is an index and an   *)
(* odd generation.  What an odd slot holds is up to the map: the value     *)
(* itself, or the position of the value.                                   *)
(***************************************************************************)
EXTENDS Integers, FiniteSets

CONSTANTS
  MaxIdx,     \* max_slot_idx: the largest index a key can hold
  NoSlot,     \* no_slot: the largest value of the index type
  MaxGen,     \* the largest generation a key can hold
  GenMax,     \* the largest value of the generation type
  Wrap,       \* WRAP_ON_OVERFLOW of the config
  StorageMax  \* bound: the most slots the storage ever has room for

ASSUME ConfigAssumption ==
  /\ MaxIdx \in Nat /\ NoSlot \in Nat /\ MaxIdx < NoSlot
  /\ MaxGen \in Nat /\ GenMax \in Nat /\ MaxGen <= GenMax
  /\ MaxGen % 2 = 1 /\ GenMax % 2 = 1
  /\ Wrap \in BOOLEAN
  /\ StorageMax \in Nat

VARIABLES
  slots,      \* the storage: a function from 0 .. slots_len - 1 to slots
  slots_len,  \* the storage's own length
  next_free,  \* the head of the free list, or NoSlot
  capacity,   \* how many slots the storage has room for
  issued,     \* history: the keys handed out since the last reset
  retired     \* history: the slots retired since the last reset

-----------------------------------------------------------------------------
(* Generations, keys and slots *)

Odd(g) == g % 2 = 1
OddGens == {g \in 0 .. MaxGen : Odd(g)}
Keys == [idx : 0 .. MaxIdx, gen : OddGens]
Key(i, g) == [idx |-> i, gen |-> g]

Slot(g, x) == [gen |-> g, item |-> x]
Positions == 0 .. slots_len - 1
HoldsValue(i) == Odd(slots[i].gen)

\* Mutant: the generation is incremented without wrapping.
wrapping_next_unwrapped(g) == g + 1

\* The next generation of the generation type, which wraps past its maximum.
wrapping_next(g) == IF g = GenMax THEN 0 ELSE g + 1

\* The key has a value: its slot exists and has the key's generation.
contains_key(k) == k.idx \in Positions /\ slots[k.idx].gen = k.gen

detached_generation(g) == wrapping_next(g)

\* Mutant: the link of the slot is not compared with its own index.
detached_slot_by_generation(k) ==
  k.idx \in Positions /\ slots[k.idx].gen = detached_generation(k.gen)

\* The slot of the key is detached under it.
detached_slot(k) ==
  /\ k.idx \in Positions
  /\ slots[k.idx] = Slot(detached_generation(k.gen), k.idx)

\* What a slot becomes once the value it held under generation g is gone,
\* and the head of the free list afterwards.
RunsOut(g) == g = MaxGen /\ ~Wrap
\* Mutant: a wrapped slot becomes the head but does not link to the old one.
freed_parts_unlinked(i, g) ==
  [slot |-> Slot(IF g = MaxGen THEN 0 ELSE wrapping_next(g),
                 IF g = MaxGen THEN NoSlot ELSE next_free),
   head |-> IF RunsOut(g) THEN next_free ELSE i]

\* Mutant: the slot goes back to the generation it had before its value.
freed_parts_same_generation(i, g) == [slot |-> Slot(g - 1, next_free), head |-> i]

freed_parts(i, g) ==
  [slot |-> Slot(IF g = MaxGen THEN 0 ELSE wrapping_next(g),
                 IF RunsOut(g) THEN NoSlot ELSE next_free),
   head |-> IF RunsOut(g) THEN next_free ELSE i]

\* The slot i, whose key has generation g, goes on the free list or retires.
Free(i, g) ==
  /\ slots' = [slots EXCEPT ![i] = freed_parts(i, g).slot]
  /\ next_free' = freed_parts(i, g).head
  /\ retired' = IF RunsOut(g) THEN retired \union {i} ELSE retired
  /\ UNCHANGED slots_len

-----------------------------------------------------------------------------
(* The storage *)

\* Mutant: the storage has room for one slot less than it says.
ensure_room_off_by_one(n) ==
  IF slots_len + n <= capacity + 1
  THEN UNCHANGED capacity
  ELSE \E c \in slots_len + n .. StorageMax : capacity' = c

\* ensure_room(n) of the storage: it has the room, or it grows, as far as the
\* allocator or a fixed capacity lets it (if not, the method fails).
ensure_room(n) ==
  IF slots_len + n <= capacity
  THEN UNCHANGED capacity
  ELSE \E c \in slots_len + n .. StorageMax : capacity' = c

\* push_unchecked: the slot goes after the last one.
push(s) ==
  /\ slots' = [i \in 0 .. slots_len |-> IF i = slots_len THEN s ELSE slots[i]]
  /\ slots_len' = slots_len + 1

-----------------------------------------------------------------------------
(* The slot the next key points at *)

NoTarget == [idx |-> NoSlot, gen |-> 1, from_free_list |-> FALSE]

\* What next_target picks: the head of the free list, else a new slot.
Target ==
  IF next_free # NoSlot
  THEN [idx |-> next_free, gen |-> slots[next_free].gen + 1,
        from_free_list |-> TRUE]
  ELSE [idx |-> slots_len, gen |-> 1, from_free_list |-> FALSE]

\* Mutant: no room is made for a new slot.
next_target_without_room == 
  (next_free = NoSlot => slots_len <= MaxIdx) /\ UNCHANGED capacity

\* next_target succeeds: a new slot needs an index that a key can hold, and
\* then room in the storage, in this order.
next_target ==
  IF next_free # NoSlot THEN UNCHANGED capacity
  ELSE slots_len <= MaxIdx /\ ensure_room(1)

\* Mutant: the slot stays the head of the free list.
Occupy_without_pop(t, s) ==
  IF t.from_free_list
  THEN slots' = [slots EXCEPT ![t.idx] = s] /\ UNCHANGED <<slots_len, next_free>>
  ELSE push(s) /\ UNCHANGED next_free

\* The slot of target t, free or new, becomes s.
Occupy(t, s) ==
  IF t.from_free_list
  THEN /\ next_free' = slots[t.idx].item
       /\ slots' = [slots EXCEPT ![t.idx] = s]
       /\ UNCHANGED slots_len
  ELSE push(s) /\ UNCHANGED next_free

\* The key to target t is handed out.
HandOut(t) == issued' = issued \union {Key(t.idx, t.gen)}

-----------------------------------------------------------------------------
(* Properties of the slots *)

\* A slot that holds a value has a generation that a key can hold.
KeysFit == \A i \in Positions : HoldsValue(i) => slots[i].gen <= MaxGen

\* f lists the k slots of the free list, the head last: each one links to the
\* one before it, the first ends the list, none is on it twice, and each has
\* an even generation after which a key can hold the next one.
FreeList(f, k) ==
  /\ next_free = IF k = 0 THEN NoSlot ELSE f[k]
  /\ \A a, b \in 1 .. k : f[a] = f[b] => a = b
  /\ \A a \in 1 .. k :
       /\ slots[f[a]].gen < MaxGen /\ ~HoldsValue(f[a])
       /\ slots[f[a]].item = IF a = 1 THEN NoSlot ELSE f[a - 1]

\* A vacant slot that is neither detached nor retired is on the list, and no
\* retired slot is.
Lists(f, k) ==
  /\ \A i \in Positions :
       ~HoldsValue(i) => \/ \E a \in 1 .. k : f[a] = i
                         \/ slots[i].item = i
                         \/ i \in retired
  /\ \A a \in 1 .. k : f[a] \notin retired

\* The free list is a list as GenMapRawParts demands, and nothing is lost:
\* it holds every vacant slot that is neither detached nor retired.  An
\* insertion refused for want of an index thus means that every index is in
\* use, whatever calls were abandoned before.
FreeListComplete ==
  \E k \in 0 .. slots_len :
    \E f \in [1 .. k -> Positions] : FreeList(f, k) /\ Lists(f, k)

=============================================================================
