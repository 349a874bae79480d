--------------------------- MODULE MCPairStorages ---------------------------
(* A PairVec of small items of different sizes, or a SplitPair. *)
EXTENDS PairStorages

Shape(a, b, c, d) ==
  [first |-> a, first_align |-> b, second |-> c, second_align |-> d]

\* The larger items first, second, padded, of the same size, and none.
AllShapes ==
  {Shape(2, 1, 1, 1), Shape(1, 1, 2, 2), Shape(3, 1, 2, 2), Shape(1, 1, 1, 1),
   Shape(0, 1, 1, 1), Shape(1, 1, 0, 1)}
=============================================================================
