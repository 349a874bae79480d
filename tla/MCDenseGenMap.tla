--------------------------- MODULE MCDenseGenMap ---------------------------
(* The dense map and what it implements, on a small key type. *)
EXTENDS DenseRefines, TLC

\* The values are interchangeable.
Symmetry == Permutations(Values)
=============================================================================
