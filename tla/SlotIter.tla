------------------------------ MODULE SlotIter ------------------------------
(***************************************************************************)
(* The iterators over the slots of a map, of src/src/map.rs: Iter, with    *)
(* Keys and Values, which are wrappers around it, IterMut with ValuesMut,  *)
(* and IntoIter, which has the slots to itself.  Those of SecondaryMap are *)
(* the same over its slots.                                                *)
(*                                                                         *)
(* An iterator goes from both ends, in any order, and skips the slots that *)
(* hold no value.  A shared one can be cloned half way.  The map does not  *)
(* change meanwhile, which the borrow checker sees to.                     *)
(***************************************************************************)
EXTENDS Integers, Sequences, FiniteSets

CONSTANTS
  SlotsMax,  \* bound: the most slots of a map
  GensMax,   \* the largest generation
  Names      \* the iterators there can be

ASSUME IterAssumption == SlotsMax \in Nat /\ GensMax \in Nat

VARIABLES
  slots,      \* the generation of each slot, a function from 0 .. slots_len - 1
  slots_len,  \* how many slots there are
  kept,       \* whether the config keeps a count of values (KeepLen)
  shared,     \* whether these are iterators that can be cloned
  iters,      \* by name: the ends and the count of an iterator, or NoIter
  fronts,     \* history: by name, the keys that next has returned
  backs       \* history: by name, the keys that next_back has returned

history == <<fronts, backs>>
vars == <<slots, slots_len, kept, shared, iters, history>>

Positions == 0 .. slots_len - 1
Occupied(p) == slots[p] % 2 = 1
Occupants == {p \in Positions : Occupied(p)}

\* slot_key(index_of(p), generation)
Key(p) == [idx |-> p, gen |-> slots[p]]

\* The remaining slots of an iterator are those from front to before back.
\* Without a count, remaining is none of its fields.
NoIter == [front |-> 1, back |-> 0, remaining |-> 0]
Exists(i) == iters[i] # NoIter
Ahead(i) == {p \in Occupants : iters[i].front <= p /\ p < iters[i].back}

decrement_len(n) == IF kept THEN n - 1 ELSE n

\* iter, iter_mut, keys, values, values_mut, into_iter
Start(i) ==
  /\ ~Exists(i)
  /\ shared \/ \A j \in Names : ~Exists(j)
  /\ iters' = [iters EXCEPT ![i] = [front |-> 0, back |-> slots_len,
                 remaining |-> IF kept THEN Cardinality(Occupants) ELSE 0]]
  /\ UNCHANGED <<slots, slots_len, kept, shared, history>>

\* next: the first slot ahead with a value, and the end is behind it.
Next(i) ==
  /\ Exists(i)
  /\ \E p \in Ahead(i) :
       /\ \A q \in Ahead(i) : p <= q
       /\ iters' = [iters EXCEPT ![i].front = p + 1, ![i].remaining = decrement_len(@)]
       /\ fronts' = [fronts EXCEPT ![i] = Append(@, Key(p))]
  /\ UNCHANGED <<slots, slots_len, kept, shared, backs>>

\* Mutant: the end stays behind the slot.
NextBack_in_reach(i) ==
  /\ Exists(i)
  /\ \E p \in Ahead(i) :
       /\ \A q \in Ahead(i) : p >= q
       /\ iters' = [iters EXCEPT ![i].back = p + 1, ![i].remaining = decrement_len(@)]
       /\ backs' = [backs EXCEPT ![i] = <<Key(p)>> \o @]
  /\ UNCHANGED <<slots, slots_len, kept, shared, fronts>>

\* Mutant: the count is left as it was.
NextBack_uncounted(i) ==
  /\ Exists(i)
  /\ \E p \in Ahead(i) :
       /\ \A q \in Ahead(i) : p >= q
       /\ iters' = [iters EXCEPT ![i].back = p]
       /\ backs' = [backs EXCEPT ![i] = <<Key(p)>> \o @]
  /\ UNCHANGED <<slots, slots_len, kept, shared, fronts>>

\* next_back: the last one ahead.
NextBack(i) ==
  /\ Exists(i)
  /\ \E p \in Ahead(i) :
       /\ \A q \in Ahead(i) : p >= q
       /\ iters' = [iters EXCEPT ![i].back = p, ![i].remaining = decrement_len(@)]
       /\ backs' = [backs EXCEPT ![i] = <<Key(p)>> \o @]
  /\ UNCHANGED <<slots, slots_len, kept, shared, fronts>>

\* next returns None: it has passed the slots that were left.
NextNone(i) ==
  /\ Exists(i)
  /\ Ahead(i) = {}
  /\ iters' = [iters EXCEPT ![i].front = iters[i].back]
  /\ UNCHANGED <<slots, slots_len, kept, shared, history>>

\* next_back returns None, and has passed them from behind.
NextBackNone(i) ==
  /\ Exists(i)
  /\ Ahead(i) = {}
  /\ iters' = [iters EXCEPT ![i].back = iters[i].front]
  /\ UNCHANGED <<slots, slots_len, kept, shared, history>>

Clone(i, j) ==
  /\ shared /\ Exists(i) /\ ~Exists(j)
  /\ iters' = [iters EXCEPT ![j] = iters[i]]
  /\ fronts' = [fronts EXCEPT ![j] = fronts[i]]
  /\ backs' = [backs EXCEPT ![j] = backs[i]]
  /\ UNCHANGED <<slots, slots_len, kept, shared>>

\* Any map: inserts and removals leave any slots with values and without.
Init ==
  /\ slots_len \in 0 .. SlotsMax
  /\ slots \in [0 .. slots_len - 1 -> 0 .. GensMax]
  /\ kept \in BOOLEAN /\ shared \in BOOLEAN
  /\ iters = [i \in Names |-> NoIter]
  /\ fronts = [i \in Names |-> <<>>]
  /\ backs = [i \in Names |-> <<>>]

Step ==
  \/ \E i \in Names :
       Start(i) \/ Next(i) \/ NextBack(i) \/ NextNone(i) \/ NextBackNone(i)
  \/ \E i, j \in Names : Clone(i, j)

Spec == Init /\ [][Step]_vars

-----------------------------------------------------------------------------
(* Properties *)

\* The values that an iterator has yielded, from the front and from the back,
\* and those ahead of it are all the values, each once and in index order, so
\* that no two references are to the same value.
YieldsEachOnce ==
  \A i \in Names : Exists(i) =>
    LET yielded == fronts[i] \o backs[i]
    IN  /\ \A m, n \in 1 .. Len(yielded) : m < n => yielded[m].idx < yielded[n].idx
        /\ \A n \in 1 .. Len(fronts[i]) : fronts[i][n].idx < iters[i].front
        /\ \A n \in 1 .. Len(backs[i]) : backs[i][n].idx >= iters[i].back
        /\ {yielded[n] : n \in 1 .. Len(yielded)} = {Key(p) : p \in Occupants \ Ahead(i)}

\* size_hint
Lower(i) == IF kept THEN iters[i].remaining ELSE 0
Upper(i) == IF kept THEN iters[i].remaining ELSE iters[i].back - iters[i].front

\* The size hint is exact if the config keeps a count, which ExactSizeIterator
\* promises, and otherwise no more than that many values come.
SizeHintHolds ==
  \A i \in Names : Exists(i) =>
    LET left == Cardinality(Occupants) - Len(fronts[i]) - Len(backs[i])
    IN  Lower(i) <= left /\ left <= Upper(i)

=============================================================================
