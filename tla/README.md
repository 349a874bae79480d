# Verification of gen_map

TLA+ modules, TLC runs and TLAPS proofs about the `gen_map` crate: generational maps (`GenMap`, `DenseGenMap`),
the secondary maps that hang data on their keys, the storages they keep their slots in, the slot and key
representations underneath, and the references to values that the maps lend out. The modules are translated from `src/src`; `PROJECT.json` says for each definition
which lines it stands for.

Everything in the crate is sequential and in memory. What makes it hard is not concurrency but this:

- **The caller's code runs in the middle of a method**: the closure of `insert_with_key` and `retain`, the `Drop`
  of a value that `clear` or a drain takes out, a `Clone` in `clone_from`, whatever a caller does while it holds a
  `VacantEntry` or a `Drain`. That code may panic, return an error, or forget the object, and the map is used
  afterwards.
- **State is encoded tightly**: the parity of a generation says whether a slot holds a value, a free slot, a
  detached slot and a retired slot differ in one index, and which field of a union is alive is not stored at all.
- **Redundant state has to agree**: the free list with the slots, the kept count with the slots, the positions in
  slots with the pairs of a dense map, the length and capacity of a vec with its buffer.
- **Numbers run out**: indexes (`NonMax`), generations (which retire the slot or wrap), capacities, and the
  count, which is added up with wrapping arithmetic.
- **Keys outlive what they point at.** A stale key must stay stale, also in a secondary map.

## Inventory

| component | state | operations | what makes it correct |
|---|---|---|---|
| `GenMap` (`map.rs`) | storage of slots, head of the free list, kept count | insert, `vacant_entry`/`insert_with_key`, reserve a key, remove, retire, detach, attach, release, write, clear, retain, drain, reset, reserve | free list complete and acyclic; count exact; a key matches only the value it was given out for; capacity promises kept |
| `DenseGenMap` (`dense/map.rs`) | storage of slots that hold positions, storage of pairs, head of the free list | the same, with `swap_remove` | slots and pairs point at each other; both storages have room at the point of no return; loops end |
| `SecondaryMap` (`secondary/mod.rs`) | storage of slots by index of the primary key, kept count | insert (grows up to the index), remove, write, clear, retain, drain, reserve | data of a live key can be stored and is not taken by a stale one; count exact |
| `DenseSecondaryMap` (`dense/secondary.rs`) | slots with positions, pairs | the same | slots and pairs point at each other, also when one storage refuses |
| `SparseSecondaryMap` (`secondary/sparse.rs`) | a `HashMap` by index | the same | the plainest secondary map: the others implement it |
| `ReplaceStrategy` | none | relation between generations | a live key is never refused |
| `Slot` (`slot/`) | a generation, and a union or enum | new, replace, replace of the other parity, write through references, take apart, clone, drop | the field that is read is the one that was written; each value dropped once |
| keys (`key/`) | two parts, or one packed integer | pack, unpack, generation arithmetic | unpacking gives the parts back; index never `no_slot`; generation odd |
| storages (`storage/`) | one buffer (`SingleVec`, `PairVec`), or two storages side by side (`SplitPair`) | ensure room, push, pop, clear, clone, take apart, convert, iterate | each item owned once; order kept; room as promised; two slices in step |
| iterators (`map.rs`, `secondary/mod.rs`, `dense/map.rs`) | front, back, remaining; or two slices | next, next_back, clone, size_hint | each value once, with its own key; exact size |
| `get_disjoint_mut` (`error.rs` and the maps) | the references that are out | check the keys, lend | no value lent twice |
| raw parts, `clone_from` (the maps) | none of their own | make a map of fields, take it apart, overwrite it by another | any fields that follow the documented rules make a map; a panic leaves an empty one |
| configs, `Len`, error types, `lib.rs` | none of their own | | see "What is not modelled" |

How they interact: a map calls its storage (`ensure_room` before, `push_unchecked` after the caller's code has
run), its config (largest index and generation, wrapping, count), and the slot type. A secondary map never sees
its primary; the caller carries the keys from one to the other, at any time and in any order. Two storages of one
dense map are asked for room one after the other, and the second may refuse after the first has grown.

## Modules

| module | models | notes |
|---|---|---|
| `Slots` | what `GenMap` and `DenseGenMap` share: slots, generations, free list, `next_target`, `ensure_room` | defines `FreeListComplete` |
| `GenMap` | `map.rs`, one action per method | extends `Slots` |
| `KeyedMap` | **abstract**: a partial function from keys to values, the keys set aside, the rules for handing out keys | |
| `GenMapRefines` | `GenMap` implements `KeyedMap` | `INSTANCE ... WITH` |
| `GenMapParts` | the same map, made by `from_raw_parts` of any fields the rules of `GenMapRawParts` allow | another initial predicate |
| `Pairs` | the pair storage of the dense maps and `swap_remove` | used by both dense maps |
| `DenseGenMap`, `DenseRefines`, `DenseParts` | `dense/map.rs`; it implements `KeyedMap`; the same from raw parts | extend `Slots` |
| `SecondarySlots` | slots of both slot-based secondary maps, replace strategies, `grow_to` | |
| `SparseSecondaryMap` | `sparse.rs`, and **abstract** for the other two | |
| `SecondaryMap`, `DenseSecondaryMap` | `secondary/mod.rs`, `dense/secondary.rs` | |
| `SecondaryWithPrimary` | **composition** of `SecondaryMap` with a primary map (`KeyedMap`) and a caller who passes on keys | |
| `MapClones` | `clone_from` of the four maps with storages, item by item, with panics | its rules are those of the raw parts |
| `Storage` | **abstract**: the documented rules of `SliceStorage` and `PairStorage` | |
| `SingleVec`, `PairVec`, `SplitPair` | `single_vec.rs`, `pair_vec.rs`, with `buffer.rs`; `SplitPair` of `pair.rs` over two storages | each implements `Storage` |
| `PairStorages` | the pair storage of a dense map: a `PairVec` or a `SplitPair` | **composition**; implements `Storage` |
| `Items` | **shared** by `UnionSlot` and `SingleVec`: values that the crate owns by hand, numbered, and what became of them | |
| `EnumSlot`, `UnionSlot` | `slot/repr.rs`; the union implements the enum | |
| `SlotIter`, `DenseIter` | iterators over slots, and over keys and values side by side | |
| `DisjointMut` | `get_disjoint_mut`, `get_disjoint_mut_at` and the checks of `error.rs` | extends `SlotIter` |
| `Borrows` | **composition** of the three: the ways to borrow the values of a map, one at a time | |
| `KeyLayout` | packed keys of `key/layout.rs` | the only module with bit operations |
| `MC*` | constants and symmetry for TLC | |
| `GenMapProofs` | theorems about `GenMap`, `GenMapParts` and the refinement | see "Proofs" |
| `PairsProofs` | lemmas about `Pairs` | instantiated by the next two |
| `DenseGenMapProofs`, `DenseSecondaryProofs`, `SecondaryProofs` | theorems about the other maps | |
| `OwnershipProofs` | theorems about `UnionSlot` and `SingleVec` | see "The slot", "SingleVec" |
| `PairStoragesProofs` | theorems about `PairStorages`, with `PairVec` and `SplitPair` | see "The pair storages" |
| `BorrowsAndClonesProofs` | theorems about `Borrows` and `MapClones` | see "References", "Clones" |

### How state and actions correspond

*Slots.* `slots` is the storage's slice as a function on `0 .. slots_len - 1`, each slot a record of its
generation and of what it holds: a value (in a dense map, a position) if the generation is odd, a link if it is
even. `next_free` is the field of that name, `len` the kept count. `capacity` is how many slots the storage has room
for. `ensure_room` grows to *any* capacity that suffices and is at most `StorageMax`, so one module covers a storage
that doubles, one that grows exactly and one of fixed capacity; a call that cannot get the room fails.
`slots_len` is the storage's own length, which the map relies on and does not keep.

*Actions.* A method without code of the caller in it is one action: its guard is the condition under which the
method does something. A call that fails before it changes anything is a stuttering step and has no action. Where
a failing call does leave a trace it is an action: `PairsRefuse` of `DenseGenMap` and `Refuse` of
`DenseSecondaryMap` are the calls that grow one storage and then fail in the other. A method that runs the caller's
code is a first step (`VacantEntry`, `Begin`), one step for each stretch of code between two points where the
caller's code runs (`EntryInsert`, `TakeNext`, `RetainKeep`, `RetainDrop`, `DrainNext`) and a last one (`Finish`).
`mode` says which method that is. `Abandon` is everything that ends a method early: a panic in a closure or in the
drop of a value, an error from a closure, an entry that is dropped, a `Drain` that is forgotten. While a method is in
progress the borrow checker keeps every other method out, which is what `mode = "idle"` in their guards says.
In `SecondaryMap` and `DenseSecondaryMap` there is nothing that tells an early end from a normal one, and `Finish` is both.

*Raw parts.* `GenMapParts` and `DenseParts` have the actions of the map and start anywhere: every storage of up to
`PartsSlots` slots, with any generations and any links, in any order of the pairs, provided the fields follow the rules that
`from_raw_parts` documents. Such a map may have slots that nothing links to; they are in `retired` from the start. A map
that the methods built is one of these, but few of these can be built by so few calls.

*Clones.* `MapClones` has a step for every item that is cloned. The storages are those of the caller's choice, so one that
clones in place and one that is cleared first are both there; what a storage holds after a panic is not said by its rules, and the guards
of the map (`ClearOnUnwind`, `ClearPairsOnUnwind`) have to do with that.

*Borrows.* `DisjointMut` keeps for each slot the place its value is at, which is the slot itself or a position among the pairs, so
that two references to one place can be told from two keys. The sparse map looks its entries up a second time
after the check, with the caller's hasher; `HashMapMisses` is the look-up that misses.

*History variables.* `issued`, `retired`, `promised`, `visited`, `asked`, `made`, `born`, `gone` and the like are no
state of the code; they record what the properties speak of (which keys were ever handed out, how many
insertions a `try_reserve` has paid for, what was dropped). No guard of an operation of the code reads them, other than the
bounds on `made`. (`KeyedMap`, which is abstract, says with `used` which keys are fresh, and the caller of
`SecondaryWithPrimary` passes on keys of `used`, which are those it ever got.)

*Memory.* In `PairVec` the buffer is a function from byte positions to bytes, each of which says which byte of which
item it is; overlapping moves, offsets of differently aligned slices and reads of the wrong bytes are then visible. In
`SingleVec` positions are whole items, and the allocator hands out blocks and remembers with which capacity, so that
freeing with another one, or not at all, shows. In `SplitPair` each
of the two storages is a sequence of items with a capacity of its own, and what a panic can come between is a step for each of them. In `UnionSlot` the union remembers through which field it was last
written. A drop that panics while a vec drops its items changes nothing there: `drop_in_place` of a slice drops the
rest while it unwinds, so it has no action in the storages; what matters is that the length is set before.

## Runs

| run | bounds | what it shows |
|---|---|---|
| `GenMap_retires` | 3 indexes of 2 odd generations (`MaxGen = GenMax = 3`), 2 symmetric values, storages up to 4 slots, reserve up to 2 | with retiring slots: types, `FreeListComplete`, `LenExact` and `DrainedBehind` also where `clear`, `retain` and a drain are interrupted, `EntryKeyUnused` (a target picked before the closure still holds after it), `PromiseKept`, `StaleKeysStayStale`, and that `GenMap` implements `KeyedMap` |
| `GenMap_parts` | raw parts of up to 2 slots, 3 indexes, generations up to 3 in a type up to 7, wrapping, storages up to 3 | `PartsRules`: the rules of the raw parts hold after every step, from any parts that follow them; `RetiredStaysRetired`: slots out of use stay so even when generations wrap; `StepsOfKeyedMap` |
| `DenseGenMap` | 3 indexes of 2 generations, storages of up to 3, reserve up to 2 | `SlotsMatchPairs` through every `swap_remove` and interruption, `FreeListComplete`, `PromiseKept` for two storages, `RetainSeesEachOnce`, and the refinement of `KeyedMap` |
| `DenseGenMap_parts` | raw parts of up to 3 slots, one key generation in a type of two, wrapping, no symmetry | `PartsRules` and `StepsOfKeyedMap` with pairs in any order, and `LoopsEnd` |
| `SecondaryMap` | 2 indexes of 2 generations, `NewerWins`, storage up to 2 | next to a primary map with live and stale keys: `LiveKeyNeverRefused`, `LiveDataKept`, `LenExact`, and that it implements the sparse map |
| `DenseSecondaryMap` | 3 indexes of 2 generations, `NewerWins`, storages up to 3 | `SlotsMatchPairs` when keys replace each other and when one storage refuses, `RetainSeesEachOnce`; implements the sparse map |
| `MapClones` | any two maps of up to 2 slots of each of the 4 kinds | `WholeOrEmpty`: after `clone_from` the map is the source, or empty and fit for use |
| `PairStorages` | `PairVec`: 6 shapes of item types, up to 3 pairs in 15 bytes; `SplitPair`: room for 3 and for 2; 4 pairs over time | `EachOwnedOnce`, and the rules of `PairStorage` with overlapping moves, one storage that refuses, and panicking clones and drops |
| `SingleVec` | length type to 4, memory for 3 items, 5 items over time | `OwnedOnce` for items and blocks, and the rules of `SliceStorage` |
| `UnionSlot` | 2 slots, generations to 3, 4 values | `EachInOneSlot`: each value is in one slot or gone once, and only written fields are read; the union behaves as the enum |
| `Borrows` | all maps of up to 3 slots; 2 iterators, one a clone; up to 3 keys or indexes at once | `EachYieldedOnce`, `SizeHintsHold`, `LentApart` |
| `KeyLayout` | all layouts of integers of 2, 4 and 8 bits | `UnpacksToParts` |

Each property of each run has a mutant in `PROJECT.json`, some have several: a plausible mistake in one definition, defined
beside it and marked `Mutant`, with which the property fails. No run uses these definitions.

`SingleVec`'s `clear` and `GenMap`'s `reset` are one step each, since only the drop of a value runs in the middle of them, which cannot reach the map, and a
panic of that drop leaves what the end of the step leaves: both set their fields before the drops. The order is checked by mutants that set the fields last, so that a
panic may leave them as they were: `OwnedOnce` fails with `Clear_drops_first`, and `FreeListComplete` and `LenExact` with `Reset_storage_first`.

### Why these bounds

Three slots are the fewest with a free list that has a head, a middle and an end, with a swap that moves a pair
which is neither the removed one nor at the position of its slot, and with a retired, a detached and a free slot at once. Two
odd generations are the fewest with a reuse of a slot and an end of its generations. `StorageMax` lies above
(`GenMap_retires`) or at the number of indexes, so that a map runs out of indexes with room to spare and out of
room with indexes to spare (capacities start anywhere and grow by anything). `NoSlot` is one above the largest index, where the two may be mixed up, or far above it, as in
a packed key. Two values tell an overwritten value from a kept one; they are interchangeable, hence the symmetry,
which is left out where a liveness property is checked. The secondary run has two indexes because its primary
doubles the state; growth by more than one slot at once still happens there. Raw parts of two slots (`GenMap_parts`) have a head, an
end and a slot that nothing links to, not all three at once; the proof has them all. Two slots are also enough for a clone that is half done, and
for a free list of the one map with the slots of the other (`MapClones`). Three keys at once are the fewest of which two that are not neighbours
are the same. `PairVec`'s shapes are the larger items
first, second, with padding, of equal size, and with one side of no size; 15 bytes let the buffer grow at least
once in each, and in some the old and the new place of the slice at the end overlap. `KeyLayout` scales the integer types of
8 to 128 bits down to 2, 4 and 8 and keeps their relation: fields as wide as their type and narrower ones.

`DenseGenMap` reserves for up to two insertions, of which a reserved key takes a slot only, an attach a pair only, and an insertion both. How much
a storage grows (to twice its size, to at least four) is checked from below, that it is as much as was asked for, and from above only by what the length type and the memory
allow: more room than needed is a matter of cost, and no property speaks of it.

`CHECK_DEADLOCK FALSE` is set where the modelled object ends: a dropped vec, or slots for which no further value may
come into being.

### Fairness

Only `DenseGenMap` assumes any: `WF_vars(LoopStep)`, that a method which loops over the values goes on. The code is
sequential, so a loop that has been entered runs unless the caller's code does not return; a panic there is
`Abandon`, which also ends the method. `LoopsEnd` needs the fairness to rule out a caller that stops using the program
half way, and is not trivial with it: `retain` does not move on past a value that it takes out, so that it ends
because the pairs get fewer.

## Proofs

The theorems hold for every number of slots, values and interruptions, and for every value of the constants that the
assumptions of the modules admit. These say, of the maps that hand out keys (`ConfigAssumption`), that the largest index is below
`no_slot`, that the largest generations are odd and a key's is at most its type's, and that generations wrap or not; of the secondary maps
(`SecondaryAssumption`, `LenAssumption`) that the strategy is a relation between odd generations and the count's type holds the
number of indexes; and that bounds are natural numbers (`ReserveAssumption`, `DenseAssumption`, `PartsAssumption`, of which the last also says that raw parts
have no more slots than there are indexes). `GenerationsAssumption` of the slot says that the largest generation is odd. `IterAssumption` says that the number of slots
and the largest generation are natural numbers, and `MapClones` assumes nothing. Of the storages, `LengthsAssumption`, `BoundsAssumption` and
`LimitsAssumption` say that lengths, memory, bounds and limits are natural numbers, of which `SingleVec`'s largest length and smallest
capacity are at least one, and `ShapesAssumption` says of the item types of a `PairVec` what Rust says of every type: a size is a multiple of its
alignment, which is positive. It also says that one of the two types takes space, as a `PairVec` without a buffer is not modelled.

| module | theorem | states |
|---|---|---|
| `GenMapProofs` | `TypeCorrect` | `Spec => []TypeOK` |
| | `FreeListSound` | `Spec => []FreeListComplete` |
| | `CountExact` | `Spec => []LenExact` |
| | `ReservePromise` | `Spec => []PromiseKept` |
| | `DrainExact` | `Spec => []DrainedBehind` |
| | `EntryKeyFresh` | `Spec => []EntryKeyUnused` |
| | `StaleForever` | `Spec => StaleKeysStayStale` |
| | `PartsKeepRules` | `PartsSpec => []PartsRules` |
| | `RetiredStays` | `PartsSpec => RetiredStaysRetired` |
| | `PartsRefine` | `PartsSpec => StepsOfKeyedMap` |
| | `Refines` | `Spec => ImplementsKeyedMap` |
| `DenseGenMapProofs` | `TypeCorrect`, `PairsFound` | `Spec => []TypeOK`, `Spec => []SlotsMatchPairs` |
| | `FreeListSound` | `Spec => []FreeListComplete` |
| | `ReservePromise`, `RetainExact` | `Spec => []PromiseKept`, `Spec => []RetainSeesEachOnce` |
| | `PartsKeepRules`, `PartsRefine` | `PartsSpec => []PartsRules`, `PartsSpec => StepsOfKeyedMap` |
| | `Refines` | `Spec => ImplementsKeyedMap` |
| `DenseSecondaryProofs` | `TypeCorrect`, `PairsFound` | `Spec => []TypeOK`, `Spec => []SlotsMatchPairs` |
| | `RetainExact`, `Refines` | `Spec => []RetainSeesEachOnce`, `Spec => ImplementsSparse` |
| `SecondaryProofs` | `TypeCorrect`, `CountExact` | `Spec => []TypeOK`, `Spec => []LenExact` |
| | `Refines` | `Spec => ImplementsSparse` |
| | `RunsAlone` | `SysSpec => Spec`: what is proved of the map alone holds beside a primary map |
| | `LiveAccepted` | `SysSpec => []LiveKeyNeverRefused`, if the strategy accepts what `NewerWins` accepts |
| | `LiveKept` | `SysSpec => LiveDataKept`, if it accepts no more |
| `OwnershipProofs` | `SlotsOwnedOnce`, `UnionRefines` | `SlotSpec => []EachInOneSlot`, `SlotSpec => ImplementsEnumSlot` |
| | `ItemsOwnedOnce`, `VecRefines` | `Spec => []OwnedOnce`, `Spec => ImplementsSliceStorage` |
| `PairStoragesProofs` | `PairsOwnedOnce` | `StoragesSpec => []EachOwnedOnce` |
| | `PairStoragesRefine` | `StoragesSpec => ImplementsPairStorage` |
| `BorrowsAndClonesProofs` | `LentOnce` | `BorrowsSpec => []LentApart` |
| | `YieldedOnce`, `HintsHold` | `BorrowsSpec => []EachYieldedOnce`, `BorrowsSpec => []SizeHintsHold` |
| | `ClonedWhole` | `ClonesSpec => []WholeOrEmpty` |

With these, everything that the runs check is proved, other than that loops end and that a packed key unpacks to its parts (see "Only model-checked").

### GenMap

`TypeOK` and `FreeListComplete` are not inductive on their own: that popping the free list gives a slot of the map with a
generation a key can hold depends on the list being one, and that a detached or retired slot is not on it depends on what its
link says. The inductive invariant is `IInv == DataOK /\ CallOK`:

- `DataOK` is about the map between any two steps: `FieldsOK` (types of the fields), `FreeListComplete`, `KeysFit`
  (no value under a generation that no key can hold) and `RetiredInert` (a retired slot holds no value and its link is
  not its own index, so it cannot pass for a detached one).
- `CallOK` is about the method in progress: a `VacantEntry`'s target is still what `Target` says, so the entry may use it
  after the caller's code has run.

`FreeListComplete` says that there is a sequence of positions which lists the free slots. Each way of changing the
map gets one lemma that says what the new sequence is: the same (`KeepList`), the same when a slot is pushed onto the
storage (`GrowList`), one longer (`PushList`) or one shorter (`PopList`). `StepInv` then goes through the actions. This is
why the free list is stated by a witness and not by a recursion along its links.

`CountExact` follows `Held`, the set of slots with a value: each action leaves it alone, adds one slot or
takes one out, and the count does the same. Its arithmetic wraps in the code and in the model; it never does wrap, because
there are at most `NoSlot` slots.

`EntryKeyFresh` and `StaleForever` need to know why no key is handed out twice. The reason is `KeyBound`: unless generations wrap, a
key that was handed out is no newer than its slot, or the slot has retired, or it is detached under its last key (where the generation of the
type may start over). `Rewrites` and `Occupies` say what a step may do to one slot; every step but a reset does one of them or nothing
(`StepKinds`), and both keep `KeyBound`.

Raw parts satisfy `IInv` and `KeyBound` as a new map does (`PartsInv`), so that the lemmas about the steps serve for both.

`Refines` maps the slots with a value to the contents and the detached ones to the keys set aside. At each index at most one key
is in use (`OnlyKey`), so what a slot becomes says all: `Filled` under a key, `Detached` under it or `Vacated`. Each action is one of
these at the index of its key, and `TargetFresh`, from `KeyBound`, says that an insertion may hand its key out.

### The dense map

A dense map is a `GenMap` whose slots hold positions in place of values. `Inlined` puts the values back; with it `DenseGenMapProofs` instantiates
the theorems of `GenMap` (`G`). Every step of the dense map is then one of `GenMap`, or leaves it alone as the loops
do when they move on (`StepMaps`), so that `FreeListComplete`, `KeysFit` and `KeyBound` need no second proof. What is left is what
only a dense map has, in `DenseInv`: `PairsInv` (`SlotsMatchPairs`, and no more pairs than slots), `RoomInv` (the pairs fit their storage, a vacant
entry has room in both, and so does what was promised) and `LoopInv` (the values before `retain`'s position are those it has seen).

`PairsProofs` says what a push of a pair, `swap_remove`, a write and the rest do to slots and pairs that point at each other: they point at each other
again, and every slot but one `Keeps` its value, wherever the value moved to. It knows nothing of free lists or strategies, so the two dense
maps share it. `clear` breaks half of `SlotsMatchPairs` while it runs (pairs are left that no slot has), which the invariant allows for that mode only.

### The secondary maps

A secondary map alone is `MapInv` (`SlotsOK`, `LenExact` and a loop's position) and for the dense one `DenseInv == DataInv /\ LoopInv /\ RoomInv`. In the
plain map every step sets one slot and leaves the others alone (`Sets`), whether it grows up to the slot or not; from that follow the count and
what the caller sees (`Stored`, `Without`), which is what the sparse map's steps say. For the dense map the same two follow from `PairsProofs`.

Next to a primary map the reason why no live key is refused and no stale one takes over is `NewestLive`, that a live key is the newest
that was handed out at its index, with `StoredUsed`, that what the secondary map stores was handed out: the key that is stored is then no
newer than the live one. The first theorem needs a strategy that accepts enough, the second one that does not accept too much; `NewerWins` is both. With `ExistingWins`
the data of live keys is kept too, but live keys may be refused, as that strategy is documented to do. The primary map of the composition neither wraps its
generations nor is reset: the doc of `NewerWins` excludes both.

### The slot

In `SlotInv`, `Written` says that the field that was written is the one that the parity of the generation names, and `Somewhere` that each value is in one slot or
gone once. Every method gives a slot a new value, takes its value out or changes its generation to one of the same parity (`Gets`, `Loses`, `Renews`);
each keeps both, and each is a step of the enum.

### SingleVec

`VecInv` has three parts. `FieldsOK` says where the items of the vec are: from `start` on while an iterator owns them, from the first position otherwise, and up to the length or,
half way through `clone_from`, to the number of clones (`OwnedRange`). `ItemsOK` says that these positions, and no other place, hold each
item that is not gone, which needs `gone` to be a bag of numbers that were given. `BlocksOK` says that the allocator has one block out, of the size the
buffer's capacity asks for, or none when the vec is. Every step is of one of three kinds: no item comes or goes (`Stay`, which a move of the buffer
is too), one comes to a position that was free (`Comes`), or those of a range of positions leave (`Go`). Each kind keeps `ItemsOK` whatever the step is for, so that a
`clear` that sets its length first and a panic that leaves half the clones need no argument of their own.

`VecRefines` maps the vec to the sequence of the items it owns. While `clone_from` runs, that sequence is empty, and the clones are numbers not given
yet: the abstract storage takes all the clones at once, or, after a panic, those that were made.

### The pair storages

Both `PairVec` and `SplitPair` keep `Books`: the items that were born are those held and those gone, no item is both, and none is gone twice. A step takes
a set out of the books, or puts new items in. What is left to prove is which items a storage holds.

In a `PairVec` that is read off bytes. The lemmas about layouts say, for all sizes and alignments, that no two items are in the same bytes (`Apart`: neither two
of one slice, which are multiples of their size apart, nor two of different slices, of which the one at the end is moved up to its alignment), that a write changes
the item it writes and no other (`Writes`), and that a buffer that grew has at the places of the larger layout what the smaller one had at its own, also where the two
overlap (`Grows`). After them the proof no longer speaks of bytes: `InPairs` says that each position in use holds both halves of one pair, and no pair is in two places;
`InOrder` that, while clones are made, the first items and then the second ones come in the order of the source, so that a panic finds first
items without partners only at the end, where the guard drops them.

In a `SplitPair` each of the two storages is `Stored`: items with numbers given before, none twice, and no more than its room. `Partnered` says how the two
compare in each mode: they are equal, or the first is cloned and the second is not, or the caller has them and has taken items off the end of either.

`PairStoragesRefine` maps either kind to the sequence of its pairs. `HasPairs` and `HasPartners` say what that sequence is in each mode, and the steps follow
one by one; the room that the abstract storage speaks of is the smaller one of a `SplitPair`'s two.

### References

Nothing changes the map while its values are lent (`SameMap`), so that the invariant is about each iterator and each call alone. A call that passes
the check has a value for each key and no index twice: the check ends at the first key that fails, and there is a first one if any fails
(`FirstBad`). `MapOK` says that slots have their values at different places, and then so do the references.

What an iterator over slots yielded from its front lists the slots below it, and what it yielded from its back those from there on (`Lists`, `Good`); a step
adds the next slot with a value to one of the lists, and `ListsJoin` says that the two together are in order. The iterators over pairs keep their two slices
`SideBySide`, and have yielded the `Run` before them and the one behind.

### Clones

While `clone_from` runs, the fields are no map, and the slots and pairs that are left of the old one are anything (`Fields`). `CloneInv` keeps
what matters: the head of the free list and the count are already those of an empty map, so that a panic, which empties the storages, leaves one; and the first
`count` items are the source's, so that at the end all are. `Parts`, the raw parts that the two maps start as, follow the rules by `Rules` and nothing else.

### Only model-checked

`KeyLayout`'s `UnpacksToParts`: it uses bit operations, for which the prover has neither a theory nor a definition without recursion. TLC goes through every layout,
index and generation of the scaled-down integer types. `LoopsEnd` of the dense map, which is liveness under fairness and out of the prover's reach.

## What is not modelled, and why

- `clone` of a map clones its storages into a map that does not exist yet: a panic leaves none. The clones of the storages are modelled.
- `into_raw_parts` moves fields and changes nothing. That they follow the rules is an invariant.
- The implementations of the storage traits for `Vec`, `ArrayVec` and `SmallVec`, which are code of other crates.
- The `HashMap` of the sparse map: its room (an insert that finds none fails without an effect), its
  `clone_from` and the order of its iteration.
- Pairs of which neither item takes space. In `SingleVec` such items have an identity in the model only.
- `ExistingWins` is defined, but the runs have `NewerWins`, with which more can go wrong.
- The layout `Split`, conversions of key pieces, `Key`'s order, its formatting and serialization, error types. Which error
  is returned has no effect on a map.
- Integers have their real widths nowhere: `NoSlot`, `GenMax`, `LenMax` and `Widths` are parameters, and the arithmetic
  wraps or saturates at them.

## Plan

All the properties that the prover can reach are proved. What could be added is more of the system:

1. The room and the clones of the sparse map's `HashMap`, as far as the crate's own code depends on them.
2. A secondary run with `ExistingWins`, with which live keys may be refused, as documented, and are never robbed; the theorem `LiveKept` has it already.
3. Pairs of which neither item takes space.
4. Larger raw parts for `GenMap_parts`, which the proofs cover and TLC does not.
