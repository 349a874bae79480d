------------------------------ MODULE UnionSlot ------------------------------
(***************************************************************************)
(* A slot as the union of src/src/slot/repr.rs, with the methods that      *)
(* src/src/slot/mod.rs puts around it: no field says whether it holds a T  *)
(* or a U, only the parity of its generation does.                         *)
(*                                                                         *)
(* The values of both types are items, and the union remembers through     *)
(* which field it was written, so that a read through the other one shows  *)
(* itself.  A clone or a drop of a value that panics changes nothing else, *)
(* and has no action of its own.                                           *)
(***************************************************************************)
EXTENDS Items

CONSTANTS
  MaxGen,  \* the largest generation of its type
  Names    \* the slots there can be

ASSUME GenerationsAssumption == MaxGen \in Nat /\ MaxGen % 2 = 1

VARIABLE slots  \* the slots, by name, or NoSlot

slot_vars == <<slots, made, gone>>

Generations == 0 .. MaxGen
Odd(g) == g % 2 = 1

FieldOf(g) == IF Odd(g) THEN "odd" ELSE "even"

NoSlot == [generation |-> -1]
Slot(g, field, n) == [generation |-> g, value |-> [field |-> field, item |-> n]]
Exists(s) == slots[s].generation \in Generations

\* What a read through a field finds: the value, or no value at all.
Read(s, field) ==
  IF slots[s].value.field = field THEN slots[s].value.item ELSE Junk

\* The value is read out of the field that the generation says is live.
MoveOut(s) == gone' = gone (+) SetToBag({Read(s, FieldOf(slots[s].generation))})

\* new_odd, new_even
New(s, g) ==
  /\ ~Exists(s)
  /\ made < ItemsMax
  /\ slots' = [slots EXCEPT ![s] = Slot(g, FieldOf(g), made + 1)]
  /\ made' = made + 1
  /\ UNCHANGED gone

\* replace, set_odd, set_even: a new slot, and the old one is taken apart.
Replace(s, g) ==
  /\ Exists(s)
  /\ made < ItemsMax
  /\ slots' = [slots EXCEPT ![s] = Slot(g, FieldOf(g), made + 1)]
  /\ made' = made + 1
  /\ MoveOut(s)

\* Mutant: the generation of the slot stays.
ReplaceUnchecked_value_only(s, g) ==
  /\ Exists(s) /\ Odd(g) # Odd(slots[s].generation)
  /\ made < ItemsMax
  /\ slots' = [slots EXCEPT ![s].value = [field |-> FieldOf(g), item |-> made + 1]]
  /\ made' = made + 1
  /\ MoveOut(s)

\* replace_odd_unchecked, replace_even_unchecked: for a slot of the other
\* parity, one field is taken and then the other is written.
ReplaceUnchecked(s, g) ==
  /\ Exists(s) /\ Odd(g) # Odd(slots[s].generation)
  /\ made < ItemsMax
  /\ slots' = [slots EXCEPT ![s].generation = g,
                            ![s].value = [field |-> FieldOf(g), item |-> made + 1]]
  /\ made' = made + 1
  /\ MoveOut(s)

\* Mutant: any generation can be written.
WriteGeneration_any(s, g) ==
  /\ Exists(s)
  /\ slots' = [slots EXCEPT ![s].generation = g]
  /\ UNCHANGED <<made, gone>>

\* as_parity_mut: the caller writes an Odd over an Odd, or an Even over an Even.
WriteGeneration(s, g) ==
  /\ Exists(s) /\ Odd(g) = Odd(slots[s].generation)
  /\ slots' = [slots EXCEPT ![s].generation = g]
  /\ UNCHANGED <<made, gone>>

\* get_odd_mut, get_even_mut, as_parity_mut: the caller assigns to the value,
\* which drops the old one.
WriteValue(s) ==
  /\ Exists(s)
  /\ made < ItemsMax
  /\ slots' = [slots EXCEPT ![s].value.item = made + 1]
  /\ made' = made + 1
  /\ MoveOut(s)

\* into_parity, into_odd and into_even, which hand the slot back whole if it
\* has another generation.
IntoParity(s) ==
  /\ Exists(s)
  /\ slots' = [slots EXCEPT ![s] = NoSlot]
  /\ MoveOut(s)
  /\ UNCHANGED made

\* Drop
DropSlot(s) ==
  /\ Exists(s)
  /\ slots' = [slots EXCEPT ![s] = NoSlot]
  /\ MoveOut(s)
  /\ UNCHANGED made

Clone(s, t) ==
  /\ Exists(s) /\ ~Exists(t)
  /\ made < ItemsMax
  /\ LET g == slots[s].generation
     IN  slots' = [slots EXCEPT ![t] = Slot(g, FieldOf(g), made + 1)]
  /\ made' = made + 1
  /\ UNCHANGED gone

SlotInit == slots = [s \in Names |-> NoSlot] /\ made = 0 /\ gone = EmptyBag

SlotNext ==
  \/ \E s \in Names, g \in Generations :
       New(s, g) \/ Replace(s, g) \/ ReplaceUnchecked(s, g) \/ WriteGeneration(s, g)
  \/ \E s \in Names : WriteValue(s) \/ IntoParity(s) \/ DropSlot(s)
  \/ \E s, t \in Names : Clone(s, t)

SlotSpec == SlotInit /\ [][SlotNext]_slot_vars

-----------------------------------------------------------------------------
(* Properties *)

\* Every value is in the live field of one slot, or was moved out or dropped
\* once: no field is read that was not written, whatever wrote the generation.
EachInOneSlot ==
  /\ BagToSet(gone) \subseteq 1 .. made
  /\ \A n \in 1 .. made :
       Cardinality({s \in Names :
           Exists(s) /\ Read(s, FieldOf(slots[s].generation)) = n})
         + TimesGone(n) = 1

Enum == INSTANCE EnumSlot WITH
  slots <- [s \in Names |->
    IF ~Exists(s) THEN [variant |-> "none"]
    ELSE LET g == slots[s].generation
         IN  [variant |-> IF Odd(g) THEN "Occupied" ELSE "Vacant", generation |-> g,
              value |-> Read(s, FieldOf(g))]]

\* The union behaves as the enum, which the compiler keeps track of, would.
ImplementsEnumSlot == Enum!Spec

=============================================================================
