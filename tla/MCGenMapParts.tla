---------------------------- MODULE MCGenMapParts ----------------------------
(* A map that is made of raw parts, on a small key type. *)
EXTENDS GenMapParts, TLC

\* The values are interchangeable.
Symmetry == Permutations(Values)
=============================================================================
