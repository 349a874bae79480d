--------------------------- MODULE MCSecondaryMap ---------------------------
(* A secondary map with its primary map, on a small key type. *)
EXTENDS SecondaryWithPrimary
=============================================================================
