------------------------------- MODULE Pairs -------------------------------
(***************************************************************************)
(* The pairs of DenseGenMap and DenseSecondaryMap: the keys and values of  *)
(* a map, next to each other in a storage of their own.  An odd slot       *)
(* stores the position of its value among them.  Both maps have the same   *)
(* swap_remove, and both INSTANCE this module with their own slots.        *)
(***************************************************************************)
EXTENDS Integers, Sequences

CONSTANT PairsMax  \* bound: the most pairs the storage ever has room for

VARIABLES
  slots,          \* the slots of the map, a function from 0 .. slots_len - 1
  slots_len,      \* how many there are
  pairs,          \* the pair storage: a sequence of keys with their values
  pairs_capacity  \* how many pairs it has room for

Pair(k, v) == [key |-> k, value |-> v]

\* to_position: positions count from 0, and a sequence from 1.
At(p) == pairs[p + 1]

\* ensure_room(n) of the pair storage.
pairs_ensure_room(n) ==
  IF Len(pairs) + n <= pairs_capacity
  THEN UNCHANGED pairs_capacity
  ELSE \E c \in Len(pairs) + n .. PairsMax : pairs_capacity' = c

\* Mutant: the slot of the moved value keeps its old position.
swap_remove_stale(i, s, p) ==
  LET last == Len(pairs) - 1
  IN  /\ pairs' = [q \in 1 .. last |-> IF q = p + 1 THEN At(last) ELSE pairs[q]]
      /\ slots' = [slots EXCEPT ![i] = s]
      /\ UNCHANGED slots_len

\* Mutant: the pairs behind the removed one move up, and their slots do not
\* follow.
swap_remove_shifted(i, s, p) ==
  /\ pairs' = [q \in 1 .. Len(pairs) - 1 |-> IF q <= p THEN pairs[q] ELSE pairs[q + 1]]
  /\ slots' = [slots EXCEPT ![i] = s]
  /\ UNCHANGED slots_len

\* The slot i becomes s, and its value, at position p, leaves: the last pair
\* moves to p, and the slot of its key stores p.
swap_remove(i, s, p) ==
  LET last == Len(pairs) - 1
      moved == At(last).key.idx
  IN  /\ pairs' = [q \in 1 .. last |-> IF q = p + 1 THEN At(last) ELSE pairs[q]]
      /\ slots' = [j \in 0 .. slots_len - 1 |->
                     IF j = i THEN s
                     ELSE IF p # last /\ j = moved THEN [slots[j] EXCEPT !.item = p]
                     ELSE slots[j]]
      /\ UNCHANGED slots_len

\* The pair at the position that a slot stores has the key of the slot ...
SlotsPointAtPairs ==
  \A i \in 0 .. slots_len - 1 : slots[i].gen % 2 = 1 =>
    /\ slots[i].item < Len(pairs)
    /\ At(slots[i].item).key = [idx |-> i, gen |-> slots[i].gen]

\* ... and the slot of the key of a pair stores its position.
PairsPointAtSlots ==
  \A p \in 0 .. Len(pairs) - 1 :
    LET i == At(p).key.idx
    IN  /\ i < slots_len
        /\ slots[i] = [gen |-> At(p).key.gen, item |-> p]

=============================================================================
