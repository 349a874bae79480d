------------------------------- MODULE GenMap -------------------------------
(***************************************************************************)
(* The generational map of src/src/map.rs, one action per public method.   *)
(*                                                                         *)
(* A map keeps its values in slots.  A slot whose generation is odd holds  *)
(* a value, and a slot whose generation is even holds an index, its link:  *)
(* the next slot of the free list, the slot's own index while it is        *)
(* detached, or no_slot.  A key is an index and an odd generation.         *)
(*                                                                         *)
(* The library is sequential, but several methods run the caller's code in *)
(* the middle: a closure of insert_with_key or retain, the drop of a value *)
(* that clear or Drain takes out, the caller's own code while it holds a   *)
(* VacantEntry or a Drain.  That code may panic, or forget the Drain, and  *)
(* the caller may go on using the map.  Those methods are a first step,    *)
(* one step per value and a last step here, with Abandon possible at each  *)
(* of the points where the caller's code runs.                             *)
(*                                                                         *)
(* A call that fails (no value for the key, full map, closure that returns *)
(* an error before anything is written) leaves the map as it was, which is *)
(* a stuttering step, so it has no action.                                 *)
(***************************************************************************)
EXTENDS Slots

CONSTANTS
  Values,     \* the values a caller may put in the map
  ReserveMax  \* bound: the largest argument of try_reserve

ASSUME ReserveAssumption == ReserveMax \in Nat

VARIABLES
  len,        \* the kept count of values (KeepLen), of the index type
  mode,       \* the method that is in progress, or "idle"
  target,     \* the Target a VacantEntry or insert_with_key holds
  position,   \* the loop position of clear, retain or Drain
  promised    \* history: how many more insertions try_reserve made room for

data == <<slots, slots_len, next_free, len>>
call == <<mode, target, position>>
vars == <<slots, slots_len, next_free, len, capacity, mode, target, position,
          issued, retired, promised>>

-----------------------------------------------------------------------------

\* The count is a value of the index type, and its arithmetic wraps.
increment_len == len' = IF len = NoSlot THEN 0 ELSE len + 1
decrement_len == len' = IF len = 0 THEN NoSlot ELSE len - 1

\* A key is handed out: one insertion less is promised.
Issue(t) ==
  /\ HandOut(t)
  /\ promised' = IF promised = 0 THEN 0 ELSE promised - 1

\* Writes v where the target t says.
fill(t, v) == Occupy(t, Slot(t.gen, v)) /\ increment_len /\ Issue(t)

-----------------------------------------------------------------------------
(* Methods that insert *)

\* insert, try_insert
Insert(v) ==
  /\ mode = "idle"
  /\ next_target
  /\ fill(Target, v)
  /\ UNCHANGED <<call, retired>>

\* vacant_entry, and insert_with_key or try_insert_with_key up to the call of
\* the closure: a target is picked, the storage may grow, no slot is written.
VacantEntry ==
  /\ mode = "idle"
  /\ next_target
  /\ mode' = "entry"
  /\ target' = Target
  /\ UNCHANGED <<data, position, issued, retired, promised>>

\* VacantEntry::insert, or the closure returned a value.
EntryInsert(v) ==
  /\ mode = "entry"
  /\ fill(target, v)
  /\ mode' = "idle"
  /\ target' = NoTarget
  /\ UNCHANGED <<capacity, position, retired>>

\* try_reserve_key, reserve_key: a key without a value, its slot detached.
ReserveKey ==
  /\ mode = "idle"
  /\ next_target
  /\ Occupy(Target, Slot(detached_generation(Target.gen), Target.idx))
  /\ Issue(Target)
  /\ UNCHANGED <<len, call, retired>>

\* try_reserve, reserve: room for n more slots.
Reserve(n) ==
  /\ mode = "idle"
  /\ ensure_room(n)
  /\ promised' = IF n > promised THEN n ELSE promised
  /\ UNCHANGED <<data, call, issued, retired>>

-----------------------------------------------------------------------------
(* Methods that take a key *)

\* take: the value leaves the slot i, which is freed or retires.
take(i) == decrement_len /\ Free(i, slots[i].gen)

Remove(k) ==
  /\ mode = "idle"
  /\ contains_key(k)
  /\ take(k.idx)
  /\ UNCHANGED <<capacity, call, issued, promised>>

\* Mutant: the slot goes on the free list.
Retire_freed(k) ==
  /\ mode = "idle"
  /\ contains_key(k)
  /\ decrement_len
  /\ slots' = [slots EXCEPT ![k.idx] = Slot(0, next_free)]
  /\ next_free' = k.idx
  /\ retired' = retired \union {k.idx}
  /\ UNCHANGED <<slots_len, capacity, call, issued, promised>>

Retire(k) ==
  /\ mode = "idle"
  /\ contains_key(k)
  /\ decrement_len
  /\ slots' = [slots EXCEPT ![k.idx] = Slot(0, NoSlot)]
  /\ retired' = retired \union {k.idx}
  /\ UNCHANGED <<slots_len, next_free, capacity, call, issued, promised>>

Detach(k) ==
  /\ mode = "idle"
  /\ contains_key(k)
  /\ decrement_len
  /\ slots' = [slots EXCEPT ![k.idx] =
                 Slot(detached_generation(k.gen), k.idx)]
  /\ UNCHANGED <<slots_len, next_free, capacity, call, issued, retired,
                 promised>>

\* Mutant: the value is not counted.
Attach_uncounted(k, v) ==
  /\ mode = "idle"
  /\ detached_slot(k)
  /\ slots' = [slots EXCEPT ![k.idx] = Slot(k.gen, v)]
  /\ UNCHANGED <<slots_len, next_free, len, capacity, call, issued, retired,
                 promised>>

Attach(k, v) ==
  /\ mode = "idle"
  /\ detached_slot(k)
  /\ slots' = [slots EXCEPT ![k.idx] = Slot(k.gen, v)]
  /\ increment_len
  /\ UNCHANGED <<slots_len, next_free, capacity, call, issued, retired,
                 promised>>

\* Mutant: the slot is vacated but not put on the free list.
Release_leaked(k) ==
  /\ mode = "idle"
  /\ detached_slot(k)
  /\ slots' = [slots EXCEPT ![k.idx] = Slot(detached_generation(k.gen), NoSlot)]
  /\ UNCHANGED <<slots_len, next_free, len, capacity, call, issued, retired,
                 promised>>

Release(k) ==
  /\ mode = "idle"
  /\ detached_slot(k)
  /\ Free(k.idx, k.gen)
  /\ UNCHANGED <<len, capacity, call, issued, promised>>

\* The caller writes a value through get_mut, get_disjoint_mut or iter_mut.
Write(k, v) ==
  /\ mode = "idle"
  /\ contains_key(k)
  /\ slots' = [slots EXCEPT ![k.idx] = Slot(k.gen, v)]
  /\ UNCHANGED <<slots_len, next_free, len, capacity, call, issued, retired,
                 promised>>

-----------------------------------------------------------------------------
(* Methods that visit every value *)

\* Mutant: a slot in between may be skipped.
Reaches_some(i) == i \in Positions /\ position <= i /\ HoldsValue(i)

\* The first slot at or after the position that holds a value is i.
Reaches(i) ==
  /\ i \in Positions /\ position <= i /\ HoldsValue(i)
  /\ \A j \in position .. i - 1 : ~HoldsValue(j)

\* clear, retain or drain is called.
Begin(m) ==
  /\ mode = "idle"
  /\ mode' = m
  /\ position' = 0
  /\ UNCHANGED <<data, capacity, target, issued, retired, promised>>

\* clear, or Drain::next, takes out the next value.  The value's drop, or the
\* code of the caller that drains, runs next.
TakeNext ==
  /\ mode \in {"clear", "drain"}
  /\ \E i \in Positions :
       /\ Reaches(i)
       /\ take(i)
       /\ position' = i + 1
  /\ UNCHANGED <<capacity, mode, target, issued, promised>>

\* retain calls f on the next value, which f leaves or sets to v, and f
\* answers that the value stays ...
RetainKeep(v) ==
  /\ mode = "retain"
  /\ \E i \in Positions :
       /\ Reaches(i)
       /\ slots' = [slots EXCEPT ![i] = Slot(slots[i].gen, v)]
       /\ position' = i + 1
  /\ UNCHANGED <<slots_len, next_free, len, capacity, mode, target, issued,
                 retired, promised>>

\* ... or that it goes.  Its drop runs next.
RetainDrop ==
  /\ mode = "retain"
  /\ \E i \in Positions :
       /\ Reaches(i)
       /\ take(i)
       /\ position' = i + 1
  /\ UNCHANGED <<capacity, mode, target, issued, promised>>

\* The loop is over: no slot is left that holds a value.
Finish ==
  /\ mode \in {"clear", "retain", "drain"}
  /\ \A i \in Positions : i >= position => ~HoldsValue(i)
  /\ mode' = "idle"
  /\ position' = 0
  /\ UNCHANGED <<data, capacity, target, issued, retired, promised>>

\* The caller's code panics, the closure returns an error, the entry is
\* dropped or the Drain is forgotten: the method never resumes.
Abandon ==
  /\ mode # "idle"
  /\ mode' = "idle"
  /\ target' = NoTarget
  /\ position' = 0
  /\ UNCHANGED <<data, capacity, issued, retired, promised>>

\* Mutant: the storage first, and a drop that panics leaves the free list, or the
\* count, as it was.
Reset_storage_first ==
  /\ mode = "idle"
  /\ next_free' \in {next_free, NoSlot}
  /\ len' \in {len, 0}
  /\ slots' = [i \in {} |-> Slot(0, NoSlot)]
  /\ slots_len' = 0
  /\ issued' = {}
  /\ retired' = {}
  /\ UNCHANGED <<capacity, call, promised>>

\* reset: the free list and the count first, then the storage, which ends up
\* empty even if the drop of a value panics.
Reset ==
  /\ mode = "idle"
  /\ next_free' = NoSlot
  /\ len' = 0
  /\ slots' = [i \in {} |-> Slot(0, NoSlot)]
  /\ slots_len' = 0
  /\ issued' = {}
  /\ retired' = {}
  /\ UNCHANGED <<capacity, call, promised>>

-----------------------------------------------------------------------------

\* new_with_config, with_capacity_and_config, with_storage: no slots.
Init ==
  /\ slots = [i \in {} |-> Slot(0, NoSlot)]
  /\ slots_len = 0
  /\ next_free = NoSlot
  /\ len = 0
  /\ capacity \in 0 .. StorageMax
  /\ mode = "idle"
  /\ target = NoTarget
  /\ position = 0
  /\ issued = {}
  /\ retired = {}
  /\ promised = 0

KeyStep(k) ==
  \/ Remove(k)
  \/ Retire(k)
  \/ Detach(k)
  \/ Release(k)
  \/ \E v \in Values : Attach(k, v)
  \/ \E v \in Values : Write(k, v)

Next ==
  \/ \E v \in Values : Insert(v)
  \/ VacantEntry
  \/ \E v \in Values : EntryInsert(v)
  \/ ReserveKey
  \/ \E n \in 1 .. ReserveMax : Reserve(n)
  \/ \E k \in Keys : KeyStep(k)
  \/ \E m \in {"clear", "retain", "drain"} : Begin(m)
  \/ TakeNext
  \/ \E v \in Values : RetainKeep(v)
  \/ RetainDrop
  \/ Finish
  \/ Abandon
  \/ Reset

Spec == Init /\ [][Next]_vars

-----------------------------------------------------------------------------
(* Properties *)

\* Every variable has its type: an odd slot holds a value under a generation
\* that a key can hold, an even one a link of the index type, no generation
\* leaves its type, and the storage never holds more than it has room for.
TypeOK ==
  /\ slots_len \in 0 .. MaxIdx + 1
  /\ slots \in [Positions -> [gen : 0 .. GenMax, item : Values \union 0 .. NoSlot]]
  /\ \A i \in Positions :
       slots[i].item \in IF HoldsValue(i) THEN Values ELSE 0 .. NoSlot
  /\ KeysFit
  /\ next_free \in 0 .. NoSlot
  /\ len \in 0 .. NoSlot
  /\ capacity \in slots_len .. StorageMax
  /\ mode \in {"idle", "entry", "clear", "retain", "drain"}
  /\ target \in [idx : 0 .. NoSlot, gen : OddGens, from_free_list : BOOLEAN]
  /\ position \in 0 .. MaxIdx + 1
  /\ issued \subseteq Keys
  /\ retired \subseteq Positions
  /\ promised \in 0 .. ReserveMax

\* The kept count is the number of slots that hold a value, also in the
\* middle of clear, retain and drain, where a panic would expose it.
LenExact == len = Cardinality({i \in Positions : HoldsValue(i)})

\* The slots clear and Drain have passed are vacant, so that Drain's exact
\* size (the kept count) is the number of values it has still to yield.
DrainedBehind ==
  mode \in {"clear", "drain"} => \A i \in Positions : i < position => ~HoldsValue(i)

\* The key a VacantEntry shows, or a closure gets, matches nothing, and was
\* never handed out before unless generations wrap; its slot has room.
EntryKeyUnused ==
  mode = "entry" =>
    /\ ~contains_key(Key(target.idx, target.gen))
    /\ ~detached_slot(Key(target.idx, target.gen))
    /\ ~Wrap => Key(target.idx, target.gen) \notin issued
    /\ ~target.from_free_list => slots_len < capacity

\* After try_reserve(n), the next n insertions find room in the storage.
PromiseKept == slots_len + promised <= capacity

\* Until the map is reset, and unless it wraps generations, a key that was
\* handed out and matches no value (and is not detached) never does again.
Stale(k) == k \in issued /\ ~contains_key(k) /\ ~detached_slot(k)
StaleKeysStayStale ==
  [][~Wrap /\ slots_len' >= slots_len =>
       \A k \in issued : Stale(k) => Stale(k)']_vars

\* Until the map is reset, no key to a retired slot matches anything, and the
\* map hands out none, also when generations wrap.
RetiredStaysRetired ==
  [][slots_len' >= slots_len =>
       /\ retired \subseteq retired'
       /\ \A k \in Keys : k.idx \in retired =>
            /\ ~contains_key(k)'
            /\ ~detached_slot(k)'
            /\ k \in issued' => k \in issued]_vars

=============================================================================
