---------------------------- MODULE SecondaryMap ----------------------------
(***************************************************************************)
(* The secondary map of src/src/secondary/mod.rs: values attached to the   *)
(* keys of another map, each in the slot at the index of its key.  Its     *)
(* keys are passed in by the caller, and may be stale.                     *)
(*                                                                         *)
(* clear, retain and drain run the caller's code after each value, and     *)
(* Abandon ends them there, as in GenMap.                                  *)
(***************************************************************************)
EXTENDS SecondarySlots

CONSTANTS
  Values,  \* the values a caller may attach to keys
  NoSlot   \* the largest value of the index type

\* The index of a key is below the largest value of the index type.
ASSUME LenAssumption == NoSlot \in Nat /\ MaxIdx < NoSlot

VARIABLES
  len,       \* the kept count of values, of the index type
  mode,      \* the method that is in progress, or "idle"
  position   \* the loop position of clear, retain or SecondaryDrain

vars == <<slots, slots_len, capacity, asked, len, mode, position>>

increment_len == len' = IF len = NoSlot THEN 0 ELSE len + 1
decrement_len == len' = IF len = 0 THEN NoSlot ELSE len - 1

\* Mutant: a value that replaces another one is counted again.
Insert_counted(k, v) ==
  /\ mode = "idle"
  /\ Accepts(k)
  /\ put(k.idx, Slot(k.gen, v))
  /\ IF contains_key(k) THEN UNCHANGED len ELSE increment_len
  /\ asked' = k
  /\ UNCHANGED <<mode, position>>

Insert(k, v) ==
  /\ mode = "idle"
  /\ Accepts(k)
  /\ put(k.idx, Slot(k.gen, v))
  /\ IF k.idx \in Positions /\ HoldsValue(k.idx) THEN UNCHANGED len ELSE increment_len
  /\ asked' = k
  /\ UNCHANGED <<mode, position>>

\* take: the slot i loses its value and its generation.
take(i) ==
  /\ decrement_len
  /\ slots' = [slots EXCEPT ![i] = EmptySlot]
  /\ UNCHANGED <<slots_len, capacity>>

\* Mutant: the generation of the key is not compared.
Remove_any(k) ==
  /\ mode = "idle"
  /\ k.idx \in Positions /\ HoldsValue(k.idx)
  /\ take(k.idx)
  /\ asked' = k
  /\ UNCHANGED <<mode, position>>

Remove(k) ==
  /\ mode = "idle"
  /\ contains_key(k)
  /\ take(k.idx)
  /\ asked' = k
  /\ UNCHANGED <<mode, position>>

\* The caller writes through get_mut, get_disjoint_mut or iter_mut.
Write(k, v) ==
  /\ mode = "idle"
  /\ contains_key(k)
  /\ slots' = [slots EXCEPT ![k.idx] = Slot(k.gen, v)]
  /\ asked' = k
  /\ UNCHANGED <<slots_len, capacity, len, mode, position>>

\* try_reserve, reserve: room for n more slots.
Reserve(n) ==
  /\ mode = "idle"
  /\ ensure_room(n)
  /\ UNCHANGED <<slots, slots_len, len, mode, position, asked>>

\* The first slot at or after the position that holds a value is i.
Reaches(i) ==
  /\ i \in Positions /\ position <= i /\ HoldsValue(i)
  /\ \A j \in position .. i - 1 : ~HoldsValue(j)

\* clear, retain or drain is called.
Begin(m) ==
  /\ mode = "idle"
  /\ mode' = m
  /\ position' = 0
  /\ UNCHANGED <<slots, slots_len, capacity, len, asked>>

\* clear and SecondaryDrain::next take the next value out, and retain takes
\* out one that f rejects.  Its drop, or the caller's code, runs next.
TakeNext ==
  /\ mode # "idle"
  /\ \E i \in Positions :
       /\ Reaches(i)
       /\ take(i)
       /\ asked' = Key(i, slots[i].gen)
       /\ position' = i + 1
  /\ UNCHANGED mode

\* retain calls f, which sets the next value to v or leaves it, and it stays.
RetainKeep(v) ==
  /\ mode = "retain"
  /\ \E i \in Positions :
       /\ Reaches(i)
       /\ slots' = [slots EXCEPT ![i] = Slot(slots[i].gen, v)]
       /\ asked' = Key(i, slots[i].gen)
       /\ position' = i + 1
  /\ UNCHANGED <<slots_len, capacity, len, mode>>

\* The loop has passed every value, or the caller's code panics or forgets
\* the SecondaryDrain.
Finish ==
  /\ mode # "idle"
  /\ mode' = "idle"
  /\ position' = 0
  /\ UNCHANGED <<slots, slots_len, capacity, len, asked>>

-----------------------------------------------------------------------------

\* new_with_config, with_storage: no slots.
Init ==
  /\ slots = [i \in {} |-> EmptySlot]
  /\ slots_len = 0
  /\ capacity \in 0 .. StorageMax
  /\ asked = NoKey
  /\ len = 0
  /\ mode = "idle"
  /\ position = 0

KeyStep(k) ==
  \/ \E v \in Values : Insert(k, v)
  \/ Remove(k)
  \/ \E v \in Values : Write(k, v)

OtherStep ==
  \/ \E n \in 1 .. StorageMax : Reserve(n)
  \/ \E m \in {"clear", "retain", "drain"} : Begin(m)
  \/ TakeNext
  \/ \E v \in Values : RetainKeep(v)
  \/ Finish

Next == (\E k \in Keys : KeyStep(k)) \/ OtherStep

Spec == Init /\ [][Next]_vars

-----------------------------------------------------------------------------
(* Properties *)

TypeOK ==
  /\ slots_len \in 0 .. MaxIdx + 1
  /\ slots \in [Positions -> [gen : {0} \union OddGens, item : Values \union {0}]]
  /\ \A i \in Positions : slots[i].item \in IF HoldsValue(i) THEN Values ELSE {0}
  /\ capacity \in slots_len .. StorageMax
  /\ asked \in Keys \union {NoKey}
  /\ len \in 0 .. NoSlot
  /\ mode \in {"idle", "clear", "retain", "drain"}
  /\ position \in 0 .. MaxIdx + 1

\* The kept count is the number of values, also where a panic in the drop of a
\* value, or in the closure of retain, leaves the map.
LenExact == len = Cardinality({i \in Positions : HoldsValue(i)})

=============================================================================
