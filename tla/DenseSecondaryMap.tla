------------------------- MODULE DenseSecondaryMap -------------------------
(***************************************************************************)
(* The dense secondary map of src/src/dense/secondary.rs: the slots of     *)
(* SecondaryMap, each with the position of its value among the pairs.      *)
(* The number of values is the number of pairs.                            *)
(*                                                                         *)
(* retain and drain run the caller's code after each value, and may end    *)
(* there.  clear empties every slot before it drops the first value.       *)
(***************************************************************************)
EXTENDS SecondarySlots, Sequences

CONSTANTS
  Values,   \* the values a caller may attach to keys
  PairsMax  \* bound: the most pairs the pair storage ever has room for

ASSUME DenseAssumption == PairsMax \in Nat

VARIABLES
  pairs,           \* the pair storage: a sequence of keys with their values
  pairs_capacity,  \* how many pairs it has room for
  mode,            \* the method that is in progress, or "idle"
  position,        \* the loop position of retain
  visited          \* history: the keys that retain has called f on

INSTANCE Pairs

call == <<mode, position, visited>>
room == <<capacity, pairs_capacity>>
vars == <<slots, slots_len, capacity, asked, pairs, pairs_capacity, mode, position, visited>>

\* The value at position p is v, under key k.
overwrite(p, k, v) == pairs' = [pairs EXCEPT ![p + 1] = Pair(k, v)]

\* Mutant: the value gets the new key's slot, but keeps the old key.
Replace_keeps_key(k, v) ==
  /\ mode = "idle"
  /\ k.idx \in Positions /\ HoldsValue(k.idx)
  /\ Accepts(k)
  /\ slots' = [slots EXCEPT ![k.idx] = Slot(k.gen, slots[k.idx].item)]
  /\ overwrite(slots[k.idx].item, At(slots[k.idx].item).key, v)
  /\ asked' = k
  /\ UNCHANGED <<slots_len, room, call>>

\* insert, where a value is stored at the key's index: the value keeps its
\* place, and k replaces its key, in its slot and in its pair.
Replace(k, v) ==
  /\ mode = "idle"
  /\ k.idx \in Positions /\ HoldsValue(k.idx)
  /\ Accepts(k)
  /\ slots' = [slots EXCEPT ![k.idx] = Slot(k.gen, slots[k.idx].item)]
  /\ overwrite(slots[k.idx].item, k, v)
  /\ asked' = k
  /\ UNCHANGED <<slots_len, room, call>>

\* Mutant: no room is made for the pair.
Insert_without_room(k, v) ==
  /\ mode = "idle"
  /\ ~(k.idx \in Positions /\ HoldsValue(k.idx))
  /\ put(k.idx, Slot(k.gen, Len(pairs)))
  /\ pairs' = Append(pairs, Pair(k, v))
  /\ asked' = k
  /\ UNCHANGED <<pairs_capacity, call>>

\* insert, where none is: first room for the pair, then the slot, and the
\* value goes to the end.
Insert(k, v) ==
  /\ mode = "idle"
  /\ ~(k.idx \in Positions /\ HoldsValue(k.idx))
  /\ pairs_ensure_room(1)
  /\ put(k.idx, Slot(k.gen, Len(pairs)))
  /\ pairs' = Append(pairs, Pair(k, v))
  /\ asked' = k
  /\ UNCHANGED call

\* try_reserve, reserve: room for n more slots, then for n more pairs.
Reserve(n) ==
  /\ mode = "idle"
  /\ ensure_room(n)
  /\ pairs_ensure_room(n)
  /\ UNCHANGED <<slots, slots_len, asked, pairs, call>>

\* try_reserve fails for want of room for pairs after the slot storage has
\* grown, or insert for want of room for slots after the pair storage has.
Refuse ==
  /\ mode = "idle"
  /\ \/ \E n \in 1 .. StorageMax :
          ensure_room(n) /\ Len(pairs) + n > pairs_capacity /\ UNCHANGED pairs_capacity
     \/ slots_len <= MaxIdx /\ capacity <= MaxIdx /\ pairs_ensure_room(1) /\ UNCHANGED capacity
  /\ UNCHANGED <<slots, slots_len, asked, pairs, call>>

Remove(k) ==
  /\ mode = "idle"
  /\ contains_key(k)
  /\ swap_remove(k.idx, EmptySlot, slots[k.idx].item)
  /\ asked' = k
  /\ UNCHANGED <<room, call>>

\* The caller writes through get_mut, as_slices_mut or iter_mut.
Write(k, v) ==
  /\ mode = "idle"
  /\ contains_key(k)
  /\ overwrite(slots[k.idx].item, k, v)
  /\ asked' = k
  /\ UNCHANGED <<slots, slots_len, room, call>>

\* clear: the slots, then the pairs, which go even if a value's drop panics.
Clear ==
  /\ mode = "idle"
  /\ slots' = [i \in Positions |-> EmptySlot]
  /\ pairs' = <<>>
  /\ UNCHANGED <<slots_len, room, call, asked>>

\* retain or drain is called.
Begin(m) ==
  /\ mode = "idle"
  /\ mode' = m
  /\ UNCHANGED <<slots, slots_len, room, pairs, position, visited, asked>>

\* retain calls f on the value at its position, which f leaves or sets to v,
\* and f answers that it stays ...
RetainKeep(v) ==
  /\ mode = "retain"
  /\ position < Len(pairs)
  /\ overwrite(position, At(position).key, v)
  /\ position' = position + 1
  /\ asked' = At(position).key
  /\ visited' = visited \union {At(position).key}
  /\ UNCHANGED <<slots, slots_len, room, mode>>

\* Mutant: the value that moved to the position is passed over.
RetainDrop_skips ==
  /\ mode = "retain"
  /\ position < Len(pairs)
  /\ swap_remove(At(position).key.idx, EmptySlot, position)
  /\ position' = position + 1
  /\ asked' = At(position).key
  /\ visited' = visited \union {At(position).key}
  /\ UNCHANGED <<room, mode>>

\* ... or that it goes.  The position stays, for the value that moves there.
RetainDrop ==
  /\ mode = "retain"
  /\ position < Len(pairs)
  /\ swap_remove(At(position).key.idx, EmptySlot, position)
  /\ asked' = At(position).key
  /\ visited' = visited \union {At(position).key}
  /\ UNCHANGED <<room, mode, position>>

\* DenseSecondaryDrain::next takes out the last pair and empties its slot.
DrainNext ==
  /\ mode = "drain"
  /\ pairs # <<>>
  /\ slots' = [slots EXCEPT ![At(Len(pairs) - 1).key.idx] = EmptySlot]
  /\ pairs' = SubSeq(pairs, 1, Len(pairs) - 1)
  /\ asked' = At(Len(pairs) - 1).key
  /\ UNCHANGED <<slots_len, room, call>>

\* The method has visited every value, or the caller's code panics or forgets
\* the DenseSecondaryDrain.
Finish ==
  /\ mode # "idle"
  /\ mode' = "idle"
  /\ position' = 0
  /\ visited' = {}
  /\ UNCHANGED <<slots, slots_len, room, pairs, asked>>

-----------------------------------------------------------------------------

Init ==
  /\ slots = [i \in {} |-> EmptySlot]
  /\ slots_len = 0
  /\ capacity \in 0 .. StorageMax
  /\ asked = NoKey
  /\ pairs = <<>>
  /\ pairs_capacity \in 0 .. PairsMax
  /\ mode = "idle"
  /\ position = 0
  /\ visited = {}

KeyStep(k) ==
  \/ \E v \in Values : Replace(k, v) \/ Insert(k, v) \/ Write(k, v)
  \/ Remove(k)

Next ==
  \/ \E k \in Keys : KeyStep(k)
  \/ \E n \in 1 .. StorageMax : Reserve(n)
  \/ Refuse
  \/ Clear
  \/ \E m \in {"retain", "drain"} : Begin(m)
  \/ \E v \in Values : RetainKeep(v)
  \/ RetainDrop
  \/ DrainNext
  \/ Finish

Spec == Init /\ [][Next]_vars

-----------------------------------------------------------------------------
(* Properties *)

TypeOK ==
  /\ slots_len \in 0 .. MaxIdx + 1
  /\ slots \in [Positions -> [gen : {0} \union OddGens, item : 0 .. MaxIdx]]
  /\ capacity \in slots_len .. StorageMax
  /\ pairs \in Seq([key : Keys, value : Values])
  /\ pairs_capacity \in Len(pairs) .. PairsMax
  /\ asked \in Keys \union {NoKey}
  /\ mode \in {"idle", "retain", "drain"}
  /\ position \in 0 .. MaxIdx + 1
  /\ visited \subseteq Keys

\* The rules of DenseSecondaryMapRawParts: the pair at the position that a slot
\* stores has the key of the slot, and every pair is one that a slot stores.
SlotsMatchPairs == SlotsPointAtPairs /\ PairsPointAtSlots

\* retain calls f on every value once: those before its position are the ones
\* f has seen and kept, and it has seen none of those from there on.
RetainSeesEachOnce ==
  mode = "retain" =>
    \A p \in 0 .. Len(pairs) - 1 : At(p).key \in visited <=> p < position

\* What get_at, and get for the key, find at an index with a value.
get_at(i) == [generation |-> slots[i].gen, value |-> At(slots[i].item).value]

Sparse == INSTANCE SparseSecondaryMap WITH
  attached <- [i \in {j \in Positions : HoldsValue(j)} |-> get_at(i)]

\* The slots, the pairs and their order are invisible: the map is one from
\* indexes to values with their generations, like the sparse map's HashMap.
ImplementsSparse == Sparse!Spec

=============================================================================
