----------------------------- MODULE KeyLayout -----------------------------
(***************************************************************************)
(* The key config Packed of src/src/key/layout.rs: an index and an odd     *)
(* generation in the bits of one integer, with the integer types that the  *)
(* two have once they are unpacked.  (Split keeps them in two fields.)     *)
(*                                                                         *)
(* A key is made by pack from parts of these types, and read by the maps   *)
(* from then on.  Any number of bits that an integer type may have will    *)
(* do, so a run has fewer than the code's 8 to 128.                        *)
(***************************************************************************)
EXTENDS Integers
LOCAL INSTANCE Bitwise

CONSTANT Widths  \* the bits of the integer types

ASSUME WidthsAssumption == Widths \subseteq Nat \ {0}

VARIABLES
  layout,  \* the bits of R, and GEN_BITS
  parts,   \* the parts of the last key that was made
  repr     \* that key

vars == <<layout, parts, repr>>

\* check_packed, and the lines of packed_table: at least one bit for each part.
Layouts == {l \in [r_bits : Widths, gen_bits : Nat \cap 1 .. 128] : l.gen_bits < l.r_bits}

idx_bits == layout.r_bits - layout.gen_bits

\* packed_table: the smallest type with this many bits.
TypeFor(bits) ==
  CHOOSE w \in Widths : w >= bits /\ \A v \in Widths : v >= bits => w <= v

IdxBits == TypeFor(idx_bits)
GenBits == TypeFor(layout.gen_bits)

MAX(bits) == 2 ^ bits - 1
low_bits(bits) == 2 ^ bits - 1

NonMax(bits) == 0 .. MAX(bits) - 1
Odds(bits) == {g \in 0 .. MAX(bits) : g % 2 = 1}

\* The largest index is below the largest value of its type, which is no_slot.
max_idx == IF idx_bits = IdxBits THEN low_bits(idx_bits) - 1 ELSE low_bits(idx_bits)

max_generation == low_bits(layout.gen_bits)

\* Mutant: a bit of the index is where the generation has its highest.
pack_unchecked_overlapping(i, g) == (i * 2 ^ (layout.gen_bits - 1)) | g

pack_unchecked(i, g) == (i * 2 ^ layout.gen_bits) | g

Idx(k) == k \div 2 ^ layout.gen_bits
Generation(k) == k & low_bits(layout.gen_bits)

\* pack, which refuses parts that are too large.
Pack(i, g) ==
  /\ i <= max_idx /\ g <= max_generation
  /\ repr' = pack_unchecked(i, g)
  /\ parts' = [idx |-> i, gen |-> g]
  /\ UNCHANGED layout

\* The first key of a map: index 0, generation 1.
Init ==
  /\ layout \in Layouts
  /\ parts = [idx |-> 0, gen |-> 1]
  /\ repr = pack_unchecked(0, 1)

Next == \E i \in NonMax(IdxBits), g \in Odds(GenBits) : Pack(i, g)

Spec == Init /\ [][Next]_vars

-----------------------------------------------------------------------------
(* Properties *)

\* The rules of KeyConfig: a key unpacks to the parts it was made from, in
\* their types' NonMax and Odd forms, and it fits in R and is not zero.
UnpacksToParts ==
  /\ repr \in 1 .. MAX(layout.r_bits)
  /\ Idx(repr) = parts.idx /\ Idx(repr) \in NonMax(IdxBits)
  /\ Generation(repr) = parts.gen /\ Generation(repr) \in Odds(GenBits)

=============================================================================
