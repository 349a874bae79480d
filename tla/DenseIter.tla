----------------------------- MODULE DenseIter -----------------------------
(***************************************************************************)
(* The iterators of the dense maps, of src/src/dense/map.rs: DenseIter and *)
(* DenseIterMut go through the slice of keys and the slice of values side  *)
(* by side, and take the value without a check once there is a key.        *)
(* DenseKeys and DenseValues are the two halves of it.                     *)
(***************************************************************************)
EXTENDS Integers, Sequences, FiniteSets

CONSTANTS
  PairsMax,  \* bound: the most pairs of a map
  Names      \* the iterators there can be

VARIABLES
  pairs_len,  \* how many pairs there are
  shared,     \* whether these are iterators that can be cloned
  slices,     \* by name: what is left of the two slices, or NoSlices
  yielded     \* history: by name, the positions of the keys and the values
              \* yielded, those from the back at the end

vars == <<pairs_len, shared, slices, yielded>>

\* A slice iterator: the positions from front to before back are left.
Left(s) == s.back - s.front
NoSlices == [keys |-> [front |-> 1, back |-> 0], values |-> [front |-> 1, back |-> 0]]
Exists(i) == slices[i] # NoSlices
Yielded(i) == yielded[i].fronts \o yielded[i].backs

\* What a slice without items yields when it is not checked.
Undefined == PairsMax + 1
First(s) == IF Left(s) > 0 THEN s.front ELSE Undefined
Last(s) == IF Left(s) > 0 THEN s.back - 1 ELSE Undefined

\* iter, iter_mut, keys, values, values_mut
Start(i) ==
  /\ ~Exists(i)
  /\ shared \/ \A j \in Names : ~Exists(j)
  /\ slices' = [slices EXCEPT ![i] = [keys |-> [front |-> 0, back |-> pairs_len],
                                      values |-> [front |-> 0, back |-> pairs_len]]]
  /\ UNCHANGED <<pairs_len, shared, yielded>>

Next(i) ==
  /\ Exists(i)
  /\ Left(slices[i].keys) > 0
  /\ slices' = [slices EXCEPT ![i].keys.front = @ + 1, ![i].values.front = @ + 1]
  /\ yielded' = [yielded EXCEPT ![i].fronts =
                   Append(@, <<First(slices[i].keys), First(slices[i].values)>>)]
  /\ UNCHANGED <<pairs_len, shared>>

\* Mutant: the value is taken from the front.
NextBack_front_value(i) ==
  /\ Exists(i)
  /\ Left(slices[i].keys) > 0
  /\ slices' = [slices EXCEPT ![i].keys.back = @ - 1, ![i].values.front = @ + 1]
  /\ yielded' = [yielded EXCEPT ![i].backs =
                   <<<<Last(slices[i].keys), First(slices[i].values)>>>> \o @]
  /\ UNCHANGED <<pairs_len, shared>>

NextBack(i) ==
  /\ Exists(i)
  /\ Left(slices[i].keys) > 0
  /\ slices' = [slices EXCEPT ![i].keys.back = @ - 1, ![i].values.back = @ - 1]
  /\ yielded' = [yielded EXCEPT ![i].backs =
                   <<<<Last(slices[i].keys), Last(slices[i].values)>>>> \o @]
  /\ UNCHANGED <<pairs_len, shared>>

\* No key is left: next and next_back return None from then on.
NextNone(i) == Exists(i) /\ Left(slices[i].keys) = 0 /\ UNCHANGED vars

Clone(i, j) ==
  /\ shared /\ Exists(i) /\ ~Exists(j)
  /\ slices' = [slices EXCEPT ![j] = slices[i]]
  /\ yielded' = [yielded EXCEPT ![j] = yielded[i]]
  /\ UNCHANGED <<pairs_len, shared>>

Init ==
  /\ pairs_len \in 0 .. PairsMax
  /\ shared \in BOOLEAN
  /\ slices = [i \in Names |-> NoSlices]
  /\ yielded = [i \in Names |-> [fronts |-> <<>>, backs |-> <<>>]]

Step ==
  \/ \E i \in Names : Start(i) \/ Next(i) \/ NextBack(i) \/ NextNone(i)
  \/ \E i, j \in Names : Clone(i, j)

-----------------------------------------------------------------------------
(* Properties *)

\* Every key comes with its own value, no pair comes twice, they come in their
\* order, and when no key is left they all have come.
YieldsEachOnce ==
  \A i \in Names : Exists(i) =>
    /\ \A n \in 1 .. Len(Yielded(i)) : Yielded(i)[n][1] = Yielded(i)[n][2]
    /\ \A m, n \in 1 .. Len(Yielded(i)) : m < n => Yielded(i)[m][1] < Yielded(i)[n][1]
    /\ Left(slices[i].keys) = 0 => Len(Yielded(i)) = pairs_len

\* size_hint is that of the values, and exact.
SizeHintHolds ==
  \A i \in Names : Exists(i) => Left(slices[i].values) = pairs_len - Len(Yielded(i))

=============================================================================
