------------------------ MODULE MCDenseSecondaryMap ------------------------
(* A dense secondary map on a small key type. *)
EXTENDS DenseSecondaryMap
=============================================================================
