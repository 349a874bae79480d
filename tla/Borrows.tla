------------------------------ MODULE Borrows ------------------------------
(***************************************************************************)
(* The references to values that the maps lend out: iterators over slots   *)
(* (SlotIter) or over pairs (DenseIter), and several references at once    *)
(* (DisjointMut).  A map lends them out one way at a time.                 *)
(***************************************************************************)
EXTENDS DisjointMut

VARIABLES
  pair_slices,  \* the iterators over the pairs
  yielded       \* history: what those have yielded

pair_iter_vars == <<pair_slices, yielded>>

\* The pairs are those of the slots with a value.
PairIter == INSTANCE DenseIter WITH
  PairsMax <- SlotsMax,
  pairs_len <- Cardinality(Occupants),
  slices <- pair_slices

\* Iterators over the pairs are those of a dense map, where no slot needs to be
\* told from another: all the slots of this one have a value.
PairsBorrowed == \E i \in Names : PairIter!Exists(i)
PairIterStep ==
  /\ \A p \in Positions : slots[p] = 1
  /\ place = [p \in Positions |-> p]
  /\ result = "none" /\ \A i \in Names : ~Exists(i)
  /\ UNCHANGED <<slots, slots_len, kept, iters, history, disjoint_vars>>
  /\ PairIter!Step

SlotIterStep ==
  /\ result = "none" /\ ~PairsBorrowed
  /\ Step
  /\ UNCHANGED <<disjoint_vars, pair_iter_vars>>

BorrowsInit == Init /\ DisjointInit /\ PairIter!Init

BorrowsNext ==
  \/ SlotIterStep
  \/ PairIterStep
  \/ ~PairsBorrowed /\ DisjointStep /\ UNCHANGED pair_iter_vars

BorrowsSpec == BorrowsInit /\ [][BorrowsNext]_<<vars, disjoint_vars, pair_iter_vars>>

-----------------------------------------------------------------------------
(* Properties *)

\* No iterator yields a value twice or leaves one out, from whichever ends it
\* is asked, and a dense one yields every key with its own value.
EachYieldedOnce == YieldsEachOnce /\ PairIter!YieldsEachOnce

\* The size hints are exact where ExactSizeIterator promises it.
SizeHintsHold == SizeHintHolds /\ PairIter!SizeHintHolds

=============================================================================
