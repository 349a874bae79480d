----------------------------- MODULE MapClones -----------------------------
(***************************************************************************)
(* clone_from of the four maps with storages of the config's choice, into  *)
(* a map that may hold anything.  A map has up to two storages, and beside *)
(* them the head of the free list and the kept count, which must agree     *)
(* with what the storages hold.                                            *)
(*                                                                         *)
(* The clones run the caller's code, and so do the drops of what they      *)
(* replace: a panic may come at every item.  The rules of SliceStorage say *)
(* nothing of what a storage holds then, so this one either replaces its   *)
(* items in place, as Vec does, or is cleared first, as SingleVec is.      *)
(*                                                                         *)
(* The map, and the source, are any map that the rules of the raw parts    *)
(* allow: from_raw_parts makes it one.                                     *)
(***************************************************************************)
EXTENDS Integers, Sequences, FiniteSets

CONSTANTS
  Values,  \* the values of the maps
  MaxIdx,  \* the largest index a key can hold
  NoSlot,  \* the largest value of the index type
  MaxGen,  \* the largest generation a key can hold
  GenMax   \* the largest value of the generation type

VARIABLES
  kind,      \* which of the four maps it is
  in_place,  \* whether the storages replace their items in place
  self,      \* the fields of the map
  source,    \* the fields of the map that is cloned
  stage,     \* the storage that is cloned, or "idle"
  count,     \* how many of its items are
  outcome    \* history: what became of the last clone_from

clones_vars == <<kind, in_place, self, source, stage, count, outcome>>

\* A map without a free list, a count or pairs keeps an empty one of them.
HasFreeList == kind \in {"GenMap", "DenseGenMap"}
HasLen == kind \in {"GenMap", "SecondaryMap"}
HasPairs == kind \in {"DenseGenMap", "DenseSecondaryMap"}

Slots(m) == INSTANCE Slots WITH
  slots <- m.slots, slots_len <- Cardinality(DOMAIN m.slots), next_free <- m.next_free,
  Wrap <- FALSE, StorageMax <- 0, capacity <- 0, issued <- {}, retired <- {}

Pairs(m) == INSTANCE Pairs WITH
  slots <- m.slots, slots_len <- Cardinality(DOMAIN m.slots), pairs <- m.pairs,
  pairs_capacity <- 0, PairsMax <- 0

-----------------------------------------------------------------------------
(* Raw parts *)

\* The list that starts at next_free.
FreeListRule(m) ==
  \E k \in 0 .. Cardinality(DOMAIN m.slots) :
    \E f \in [1 .. k -> DOMAIN m.slots] : Slots(m)!FreeList(f, k)

\* A slot of a secondary map without a value has generation zero.
EmptySlotsRule(m) ==
  \A i \in DOMAIN m.slots : Slots(m)!HoldsValue(i) \/ m.slots[i].gen = 0

PairsRule(m) == Pairs(m)!SlotsPointAtPairs /\ Pairs(m)!PairsPointAtSlots

LenRule(m) == m.len = Cardinality({i \in DOMAIN m.slots : Slots(m)!HoldsValue(i)})

\* The rules of GenMapRawParts, DenseGenMapRawParts, SecondaryMapRawParts and
\* DenseSecondaryMapRawParts.
Rules(m) ==
  /\ DOMAIN m.slots \subseteq 0 .. MaxIdx
  /\ Slots(m)!KeysFit
  /\ IF HasFreeList THEN FreeListRule(m) ELSE EmptySlotsRule(m) /\ m.next_free = NoSlot
  /\ IF HasPairs THEN PairsRule(m) ELSE m.pairs = <<>>
  /\ IF HasLen THEN LenRule(m) ELSE m.len = 0

\* What is in a slot: a value, the position of one, or a link.
Items(g) == IF g % 2 = 1 /\ ~HasPairs THEN Values ELSE 0 .. NoSlot

Parts ==
  [slots : UNION {[0 .. n - 1 -> UNION {[gen : {g}, item : Items(g)] : g \in 0 .. MaxGen + 1}] :
                    n \in 0 .. MaxIdx + 1},
   next_free : IF HasFreeList THEN 0 .. NoSlot ELSE {NoSlot},
   len : IF HasLen THEN 0 .. MaxIdx + 1 ELSE {0},
   pairs : IF HasPairs
           THEN UNION {[1 .. n -> [key : Slots([slots |-> <<>>, next_free |-> 0])!Keys, value : Values]] :
                         n \in 0 .. MaxIdx + 1}
           ELSE {<<>>}]

\* new: no slots, no values.
EmptyMap == [slots |-> [i \in {} |-> 0], next_free |-> NoSlot, len |-> 0, pairs |-> <<>>]

-----------------------------------------------------------------------------
(* clone_from *)

\* Mutant: the fields beside the storages are left as they are.
CloneFrom_without_reset ==
  /\ stage = "idle"
  /\ self' = [self EXCEPT !.slots = IF in_place \/ HasPairs THEN @ ELSE EmptyMap.slots,
                          !.pairs = IF in_place THEN @ ELSE <<>>]
  /\ stage' = IF HasPairs THEN "pairs" ELSE "slots"
  /\ outcome' = "none"
  /\ UNCHANGED <<kind, in_place, source, count>>

\* First the head of the free list and the count are those of an empty map,
\* and then a storage that does not replace its items in place is cleared.
CloneFrom ==
  /\ stage = "idle"
  /\ self' = [self EXCEPT !.next_free = NoSlot, !.len = 0,
                          !.slots = IF in_place \/ HasPairs THEN @ ELSE EmptyMap.slots,
                          !.pairs = IF in_place THEN @ ELSE <<>>]
  /\ stage' = IF HasPairs THEN "pairs" ELSE "slots"
  /\ outcome' = "none"
  /\ UNCHANGED <<kind, in_place, source, count>>

\* A pair is cloned, to the end of the pairs or over the one that was there.
ClonePair ==
  /\ stage = "pairs"
  /\ count < Len(source.pairs)
  /\ self' = [self EXCEPT !.pairs =
                [p \in DOMAIN @ \union {count + 1} |->
                   IF p = count + 1 THEN source.pairs[p] ELSE @[p]]]
  /\ count' = count + 1
  /\ UNCHANGED <<kind, in_place, source, stage, outcome>>

\* All the pairs are, and pairs behind them are gone.  The slots are next.
PairsCloned ==
  /\ stage = "pairs"
  /\ count = Len(source.pairs)
  /\ self' = [self EXCEPT !.pairs = SubSeq(@, 1, count),
                          !.slots = IF in_place THEN @ ELSE EmptyMap.slots]
  /\ stage' = "slots"
  /\ count' = 0
  /\ UNCHANGED <<kind, in_place, source, outcome>>

CloneSlot ==
  /\ stage = "slots"
  /\ count \in DOMAIN source.slots
  /\ self' = [self EXCEPT !.slots =
                [i \in DOMAIN @ \union {count} |-> IF i = count THEN source.slots[i] ELSE @[i]]]
  /\ count' = count + 1
  /\ UNCHANGED <<kind, in_place, source, stage, outcome>>

\* Mutant: the count is not taken over.
Finish_without_len ==
  /\ stage = "slots"
  /\ count \notin DOMAIN source.slots
  /\ self' = [self EXCEPT !.slots = [i \in DOMAIN source.slots |-> @[i]],
                          !.next_free = source.next_free]
  /\ stage' = "idle"
  /\ count' = 0
  /\ outcome' = "cloned"
  /\ UNCHANGED <<kind, in_place, source>>

\* All the slots are: the guards are forgotten, and the fields taken over.
Finish ==
  /\ stage = "slots"
  /\ count \notin DOMAIN source.slots
  /\ self' = [self EXCEPT !.slots = [i \in DOMAIN source.slots |-> @[i]],
                          !.next_free = source.next_free, !.len = source.len]
  /\ stage' = "idle"
  /\ count' = 0
  /\ outcome' = "cloned"
  /\ UNCHANGED <<kind, in_place, source>>

\* Mutant: only the storage in which the panic was is emptied.
Panic_one_guard ==
  /\ stage # "idle"
  /\ self' = IF stage = "pairs" THEN [self EXCEPT !.pairs = <<>>]
             ELSE [self EXCEPT !.slots = EmptyMap.slots]
  /\ stage' = "idle"
  /\ count' = 0
  /\ outcome' = "panicked"
  /\ UNCHANGED <<kind, in_place, source>>

\* A panic: ClearOnUnwind empties the slots, and ClearPairsOnUnwind the pairs,
\* also if their own clone_from is over or has not begun.
Panic ==
  /\ stage # "idle"
  /\ self' = [self EXCEPT !.slots = EmptyMap.slots, !.pairs = <<>>]
  /\ stage' = "idle"
  /\ count' = 0
  /\ outcome' = "panicked"
  /\ UNCHANGED <<kind, in_place, source>>

-----------------------------------------------------------------------------

\* from_raw_parts: any two maps that follow the rules.
ClonesInit ==
  /\ kind \in {"GenMap", "DenseGenMap", "SecondaryMap", "DenseSecondaryMap"}
  /\ in_place \in BOOLEAN
  /\ \E maps \in {{m \in Parts : Rules(m)}} : self \in maps /\ source \in maps
  /\ stage = "idle"
  /\ count = 0
  /\ outcome = "none"

ClonesNext ==
  \/ CloneFrom
  \/ ClonePair
  \/ PairsCloned
  \/ CloneSlot
  \/ Finish
  \/ Panic

ClonesSpec == ClonesInit /\ [][ClonesNext]_clones_vars

-----------------------------------------------------------------------------
(* Properties *)

\* After clone_from the map is the source, or, if it was left by a panic, an
\* empty map that can be used on: never a mix of the two maps, and never one
\* whose free list, count or positions are of another map than its slots.
WholeOrEmpty ==
  stage = "idle" =>
    /\ Rules(self)
    /\ outcome = "cloned" => self = source
    /\ outcome = "panicked" => self = EmptyMap

=============================================================================
