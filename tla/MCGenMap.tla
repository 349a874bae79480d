------------------------------ MODULE MCGenMap ------------------------------
(* The map and what it implements, on small key types. *)
EXTENDS GenMapRefines, TLC

\* The values are interchangeable.
Symmetry == Permutations(Values)
=============================================================================
