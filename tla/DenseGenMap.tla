---------------------------- MODULE DenseGenMap ----------------------------
(***************************************************************************)
(* The dense map of src/src/dense/map.rs.  Its slots are those of GenMap,  *)
(* but an odd slot stores the position of its value among the pairs: the   *)
(* keys and values, next to each other and in a storage of their own.      *)
(* Removing a value moves the last pair into its place.                    *)
(*                                                                         *)
(* As in GenMap, a method that runs the caller's code (a closure, the drop *)
(* of a value, the code between two calls of Drain::next) is a first step, *)
(* a step per value and a last one, and Abandon ends it in between.  clear *)
(* frees the slots before it drops any value, so nothing interrupts it.    *)
(***************************************************************************)
EXTENDS Slots, Sequences

CONSTANTS
  Values,     \* the values a caller may put in the map
  PairsMax,   \* bound: the most pairs the pair storage ever has room for
  ReserveMax  \* bound: the largest argument of try_reserve

ASSUME DenseAssumption == PairsMax \in Nat /\ ReserveMax \in Nat

VARIABLES
  pairs,           \* the pair storage: a sequence of keys with their values
  pairs_capacity,  \* how many pairs it has room for
  mode,            \* the method that is in progress, or "idle"
  target,          \* the Target a DenseVacantEntry or insert_with_key holds
  position,        \* the loop position of clear or retain
  promised,        \* history: the calls try_reserve made room for
  visited          \* history: the keys that retain has called f on

call == <<mode, target, position, visited>>
room == <<capacity, pairs_capacity>>
vars == <<slots, slots_len, next_free, capacity, issued, retired, pairs,
          pairs_capacity, mode, target, position, promised, visited>>

INSTANCE Pairs

-----------------------------------------------------------------------------
(* The helpers of the methods *)

\* The slot i, which holds a value, goes on the free list or retires: its
\* part of free_slot_at that is not the slot itself.
freed(i) ==
  /\ next_free' = freed_parts(i, slots[i].gen).head
  /\ retired' = IF RunsOut(slots[i].gen) THEN retired \union {i} ELSE retired

\* One of the calls that try_reserve made room for is over.
Spend == promised' = IF promised = 0 THEN 0 ELSE promised - 1

\* The value goes to the end of the pairs, its position into the slot of t.
fill(t, v) ==
  /\ pairs' = Append(pairs, Pair(Key(t.idx, t.gen), v))
  /\ Occupy(t, Slot(t.gen, Len(pairs)))
  /\ HandOut(t)
  /\ Spend

-----------------------------------------------------------------------------
(* Methods that insert *)

\* insert, try_insert.  next_target makes room for the slot, then the pair.
Insert(v) ==
  /\ mode = "idle"
  /\ next_target
  /\ pairs_ensure_room(1)
  /\ fill(Target, v)
  /\ UNCHANGED <<call, retired>>

\* vacant_entry, and insert_with_key and try_insert_with_key up to the call of
\* the closure.
VacantEntry ==
  /\ mode = "idle"
  /\ next_target
  /\ pairs_ensure_room(1)
  /\ mode' = "entry"
  /\ target' = Target
  /\ UNCHANGED <<slots, slots_len, next_free, issued, retired, pairs, position,
                 promised, visited>>

\* DenseVacantEntry::insert, or the closure returned a value.
EntryInsert(v) ==
  /\ mode = "entry"
  /\ fill(target, v)
  /\ mode' = "idle"
  /\ target' = NoTarget
  /\ UNCHANGED <<room, retired, position, visited>>

\* An insertion, or try_reserve, fails for want of room for pairs, after the
\* slot storage has grown.
PairsRefuse(n) ==
  /\ mode = "idle"
  /\ ensure_room(n)
  /\ Len(pairs) + n > pairs_capacity
  /\ UNCHANGED <<slots, slots_len, next_free, issued, retired, pairs,
                 pairs_capacity, call, promised>>

\* try_reserve_key, reserve_key: only a slot is needed.
ReserveKey ==
  /\ mode = "idle"
  /\ next_target
  /\ Occupy(Target, Slot(detached_generation(Target.gen), Target.idx))
  /\ HandOut(Target)
  /\ Spend
  /\ UNCHANGED <<retired, pairs, pairs_capacity, call>>

\* Mutant: makes room for the slots alone.
Reserve_slots_only(n) ==
  /\ mode = "idle"
  /\ ensure_room(n)
  /\ promised' = IF n > promised THEN n ELSE promised
  /\ UNCHANGED <<slots, slots_len, next_free, issued, retired, pairs,
                 pairs_capacity, call>>

\* try_reserve, reserve
Reserve(n) ==
  /\ mode = "idle"
  /\ ensure_room(n)
  /\ pairs_ensure_room(n)
  /\ promised' = IF n > promised THEN n ELSE promised
  /\ UNCHANGED <<slots, slots_len, next_free, issued, retired, pairs, call>>

-----------------------------------------------------------------------------
(* Methods that take a key *)

Remove(k) ==
  /\ mode = "idle"
  /\ contains_key(k)
  /\ freed(k.idx)
  /\ swap_remove(k.idx, freed_parts(k.idx, k.gen).slot, slots[k.idx].item)
  /\ UNCHANGED <<room, issued, call, promised>>

Retire(k) ==
  /\ mode = "idle"
  /\ contains_key(k)
  /\ swap_remove(k.idx, Slot(0, NoSlot), slots[k.idx].item)
  /\ retired' = retired \union {k.idx}
  /\ UNCHANGED <<next_free, room, issued, call, promised>>

Detach(k) ==
  /\ mode = "idle"
  /\ contains_key(k)
  /\ swap_remove(k.idx, Slot(detached_generation(k.gen), k.idx), slots[k.idx].item)
  /\ UNCHANGED <<next_free, room, issued, retired, call, promised>>

\* Mutant: no room is made for the pair.
Attach_without_room(k, v) ==
  /\ mode = "idle"
  /\ detached_slot(k)
  /\ slots' = [slots EXCEPT ![k.idx] = Slot(k.gen, Len(pairs))]
  /\ pairs' = Append(pairs, Pair(k, v))
  /\ Spend
  /\ UNCHANGED <<slots_len, next_free, room, issued, retired, call>>

Attach(k, v) ==
  /\ mode = "idle"
  /\ detached_slot(k)
  /\ pairs_ensure_room(1)
  /\ slots' = [slots EXCEPT ![k.idx] = Slot(k.gen, Len(pairs))]
  /\ pairs' = Append(pairs, Pair(k, v))
  /\ Spend
  /\ UNCHANGED <<slots_len, next_free, capacity, issued, retired, call>>

Release(k) ==
  /\ mode = "idle"
  /\ detached_slot(k)
  /\ Free(k.idx, k.gen)
  /\ UNCHANGED <<room, issued, pairs, call, promised>>

\* The caller writes a value through get_mut, as_slices_mut or iter_mut.
Write(k, v) ==
  /\ mode = "idle"
  /\ contains_key(k)
  /\ pairs' = [pairs EXCEPT ![slots[k.idx].item + 1] = Pair(k, v)]
  /\ UNCHANGED <<slots, slots_len, next_free, room, issued, retired, call, promised>>

-----------------------------------------------------------------------------
(* Methods that visit every value *)

\* clear, retain or drain is called.
Begin(m) ==
  /\ mode = "idle"
  /\ mode' = m
  /\ UNCHANGED <<slots, slots_len, next_free, room, issued, retired, pairs,
                 target, position, promised, visited>>

\* Mutant: a slot without a value is not passed.
ClearSlot_stuck ==
  /\ mode = "clear"
  /\ position < slots_len
  /\ HoldsValue(position)
  /\ Free(position, slots[position].gen)
  /\ position' = position + 1
  /\ UNCHANGED <<room, issued, pairs, mode, target, promised, visited>>

\* clear frees the slot at its position if that holds a value ...
ClearSlot ==
  /\ mode = "clear"
  /\ position < slots_len
  /\ IF HoldsValue(position)
     THEN Free(position, slots[position].gen)
     ELSE UNCHANGED <<slots, slots_len, next_free, retired>>
  /\ position' = position + 1
  /\ UNCHANGED <<room, issued, pairs, mode, target, promised, visited>>

\* ... and after the last slot, the pairs go, even if a value's drop panics.
ClearPairs ==
  /\ mode = "clear"
  /\ position = slots_len
  /\ pairs' = <<>>
  /\ mode' = "idle"
  /\ position' = 0
  /\ UNCHANGED <<slots, slots_len, next_free, room, issued, retired, target,
                 promised, visited>>

\* retain calls f on the value at its position, which f leaves or sets to v,
\* and f answers that it stays ...
RetainKeep(v) ==
  /\ mode = "retain"
  /\ position < Len(pairs)
  /\ pairs' = [pairs EXCEPT ![position + 1] = Pair(At(position).key, v)]
  /\ position' = position + 1
  /\ visited' = visited \union {At(position).key}
  /\ UNCHANGED <<slots, slots_len, next_free, room, issued, retired, mode,
                 target, promised>>

\* Mutant: the value that moved to the position is passed over.
RetainDrop_skips ==
  /\ mode = "retain"
  /\ position < Len(pairs)
  /\ LET i == At(position).key.idx
     IN  freed(i) /\ swap_remove(i, freed_parts(i, slots[i].gen).slot, position)
  /\ position' = position + 1
  /\ visited' = visited \union {At(position).key}
  /\ UNCHANGED <<room, issued, mode, target, promised>>

\* ... or that it goes.  The position stays, for the value that moves there.
RetainDrop ==
  /\ mode = "retain"
  /\ position < Len(pairs)
  /\ LET i == At(position).key.idx
     IN  freed(i) /\ swap_remove(i, freed_parts(i, slots[i].gen).slot, position)
  /\ visited' = visited \union {At(position).key}
  /\ UNCHANGED <<room, issued, mode, target, position, promised>>

\* DenseDrain::next takes out the last pair and frees its slot.
DrainNext ==
  /\ mode = "drain"
  /\ pairs # <<>>
  /\ LET i == At(Len(pairs) - 1).key.idx IN Free(i, slots[i].gen)
  /\ pairs' = SubSeq(pairs, 1, Len(pairs) - 1)
  /\ UNCHANGED <<room, issued, call, promised>>

\* retain, or the drop of DenseDrain, has come to the end.
Finish ==
  /\ \/ mode = "retain" /\ position = Len(pairs)
     \/ mode = "drain" /\ pairs = <<>>
  /\ mode' = "idle"
  /\ position' = 0
  /\ visited' = {}
  /\ UNCHANGED <<slots, slots_len, next_free, room, issued, retired, pairs,
                 target, promised>>

\* The caller's code panics, the closure returns an error, the entry is
\* dropped or the DenseDrain is forgotten.
Abandon ==
  /\ mode \in {"entry", "retain", "drain"}
  /\ mode' = "idle"
  /\ target' = NoTarget
  /\ position' = 0
  /\ visited' = {}
  /\ UNCHANGED <<slots, slots_len, next_free, room, issued, retired, pairs, promised>>

\* reset: both storages end up empty even if a value's drop panics.
Reset ==
  /\ mode = "idle"
  /\ next_free' = NoSlot
  /\ slots' = [i \in {} |-> Slot(0, NoSlot)]
  /\ slots_len' = 0
  /\ pairs' = <<>>
  /\ issued' = {}
  /\ retired' = {}
  /\ UNCHANGED <<room, call, promised>>

-----------------------------------------------------------------------------

\* new_with_config, with_capacity_and_config, with_storages
Init ==
  /\ slots = [i \in {} |-> Slot(0, NoSlot)]
  /\ slots_len = 0
  /\ next_free = NoSlot
  /\ capacity \in 0 .. StorageMax
  /\ pairs = <<>>
  /\ pairs_capacity \in 0 .. PairsMax
  /\ mode = "idle"
  /\ target = NoTarget
  /\ position = 0
  /\ issued = {}
  /\ retired = {}
  /\ promised = 0
  /\ visited = {}

KeyStep(k) ==
  \/ Remove(k)
  \/ Retire(k)
  \/ Detach(k)
  \/ Release(k)
  \/ \E v \in Values : Attach(k, v)
  \/ \E v \in Values : Write(k, v)

\* A step of a method that visits every value.
LoopStep ==
  \/ ClearSlot
  \/ ClearPairs
  \/ \E v \in Values : RetainKeep(v)
  \/ RetainDrop
  \/ DrainNext
  \/ Finish

Next ==
  \/ \E v \in Values : Insert(v)
  \/ VacantEntry
  \/ \E v \in Values : EntryInsert(v)
  \/ ReserveKey
  \/ \E n \in 1 .. ReserveMax : Reserve(n) \/ PairsRefuse(n)
  \/ \E k \in Keys : KeyStep(k)
  \/ \E m \in {"clear", "retain", "drain"} : Begin(m)
  \/ LoopStep
  \/ Abandon
  \/ Reset

\* A loop runs to its end, unless the caller's code abandons it: f and the
\* drops return, and dropping a DenseDrain drains it.
Spec == Init /\ [][Next]_vars /\ WF_vars(LoopStep)

-----------------------------------------------------------------------------
(* Properties *)

TypeOK ==
  /\ slots_len \in 0 .. MaxIdx + 1
  /\ slots \in [Positions -> [gen : 0 .. GenMax, item : 0 .. NoSlot]]
  /\ KeysFit
  /\ next_free \in 0 .. NoSlot
  /\ capacity \in slots_len .. StorageMax
  /\ pairs \in Seq([key : Keys, value : Values])
  /\ pairs_capacity \in Len(pairs) .. PairsMax
  /\ mode \in {"idle", "entry", "clear", "retain", "drain"}
  /\ target \in [idx : 0 .. NoSlot, gen : OddGens, from_free_list : BOOLEAN]
  /\ position \in 0 .. MaxIdx + 1
  /\ issued \subseteq Keys
  /\ retired \subseteq Positions
  /\ promised \in 0 .. ReserveMax
  /\ visited \subseteq Keys

\* The rules of DenseGenMapRawParts: the pair at the position that a slot
\* stores has the key of the slot, and the key of every pair is that of a slot
\* that stores its position.  clear breaks the second half while it runs.
SlotsMatchPairs == SlotsPointAtPairs /\ (mode # "clear" => PairsPointAtSlots)

\* After try_reserve(n), the next n calls that insert a value, reserve a key or
\* attach a value find room in both storages.
PromiseKept ==
  slots_len + promised <= capacity /\ Len(pairs) + promised <= pairs_capacity

\* retain calls f on every value once: those before its position are the ones
\* f has seen and kept, and it has seen none of those from there on.
RetainSeesEachOnce ==
  mode = "retain" =>
    \A p \in 0 .. Len(pairs) - 1 : At(p).key \in visited <=> p < position

\* Every clear, retain and drop of a DenseDrain comes to an end, although
\* retain does not move on past a value that it takes out.
LoopsEnd == mode \in {"clear", "retain", "drain"} ~> mode = "idle"

=============================================================================
