------------------------ MODULE SecondaryWithPrimary ------------------------
(***************************************************************************)
(* A primary map and a secondary map of its keys, used side by side.  The  *)
(* primary is KeyedMap, what GenMap and DenseGenMap implement, and the     *)
(* caller passes the secondary map any key that the primary ever handed    *)
(* out: a live one, or a stale one.                                        *)
(*                                                                         *)
(* The primary is not reset and its generations do not wrap: the doc of    *)
(* NewerWins excludes both, because they make a newer key look older.      *)
(***************************************************************************)
EXTENDS SecondaryMap

VARIABLES contents, reserved, used, dead

primary_vars == <<contents, reserved, used, dead>>

\* The values of the primary do not matter.
Primary == INSTANCE KeyedMap WITH Wrap <- FALSE, Values <- {0}

\* What get_at, and get for the key, find at an index with a value.
get_at(i) == [generation |-> slots[i].gen, value |-> slots[i].item]

Sparse == INSTANCE SparseSecondaryMap WITH
  attached <- [i \in {j \in Positions : HoldsValue(j)} |-> get_at(i)]

PrimaryStep ==
  /\ Primary!Next
  /\ used \subseteq used'
  /\ UNCHANGED vars

SecondaryStep ==
  /\ (\E k \in used : KeyStep(k)) \/ OtherStep
  /\ UNCHANGED primary_vars

SysInit == Init /\ Primary!Init
SysNext == PrimaryStep \/ SecondaryStep
SysSpec == SysInit /\ [][SysNext]_<<vars, primary_vars>>

-----------------------------------------------------------------------------
(* Properties *)

\* The keys with a value in the primary map, and those set aside for one.
Live == DOMAIN contents \union reserved

\* Data can always be attached to a live key: whatever old keys left behind in
\* its slot gives way, so the strategy refuses stale keys only.
LiveKeyNeverRefused == \A k \in Live : Accepts(k)

\* No call with a stale key takes over, changes or removes the data that is
\* attached to a live one: only a step for that key does.
LiveDataKept ==
  [][\A k \in Live : contains_key(k) =>
       slots'[k.idx] = slots[k.idx] \/ asked' = k]_<<vars, primary_vars>>

\* The slots, and how they grow, are invisible: the map is one from indexes to
\* values with their generations, like the sparse map's HashMap.
ImplementsSparse == Sparse!Spec

=============================================================================
