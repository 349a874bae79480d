---------------------------- MODULE PairStorages ----------------------------
(***************************************************************************)
(* The two pair storages of the crate, a PairVec or a SplitPair, of which  *)
(* a dense map has one.  Both implement Storage, the rules of PairStorage. *)
(* The one that the map does not have takes no steps.                      *)
(***************************************************************************)
EXTENDS PairVec

CONSTANTS
  FirstMax,  \* the most items that the first storage of a SplitPair can hold
  SecondMax  \* the most that the second one can

ASSUME LimitsAssumption == FirstMax \in Nat /\ SecondMax \in Nat

VARIABLES
  kind,          \* which of the two it is
  first, second  \* the storages of a SplitPair

Split == INSTANCE SplitPair

pair_vec_vars == <<shape, buffer, start, firsts, seconds>>
split_vars == <<first, second>>

PairVecInit == kind = "PairVec" /\ Init /\ first = Split!Empty(0) /\ second = Split!Empty(0)

SplitInit ==
  /\ kind = "SplitPair"
  /\ Split!Init
  /\ shape = CHOOSE s \in Shapes : TRUE
  /\ buffer = with_capacity(0)
  /\ start = 0 /\ firsts = 0 /\ seconds = 0

PairVecStep == kind = "PairVec" /\ Next /\ UNCHANGED <<kind, split_vars>>
SplitStep == kind = "SplitPair" /\ Split!Next /\ UNCHANGED <<kind, pair_vec_vars>>

StoragesInit == PairVecInit \/ SplitInit
StoragesNext == PairVecStep \/ SplitStep
StoragesSpec == StoragesInit /\ [][StoragesNext]_<<kind, vars, split_vars>>

-----------------------------------------------------------------------------
(* Properties *)

\* In either storage, every item is at one position that its owner will drop,
\* or was dropped or handed out once, whatever growing, clones, refusals and
\* panics did to the one slice before the other.
EachOwnedOnce == IF kind = "PairVec" THEN OwnedOnce ELSE Split!OwnedOnce

Rules == INSTANCE Storage WITH
  contents <- IF kind = "PairVec" THEN contents ELSE Split!contents,
  room <- IF kind = "PairVec" THEN room ELSE Split!room

\* Both are a sequence of pairs as the rules of PairStorage describe it: the
\* two slices stay in step, no method changes a pair it is not about, and
\* there is room for what was asked for.
ImplementsPairStorage == Rules!Spec

=============================================================================
