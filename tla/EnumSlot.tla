------------------------------ MODULE EnumSlot ------------------------------
(***************************************************************************)
(* A slot as the enum of src/src/slot/repr.rs: Occupied with an odd        *)
(* generation and a T, or Vacant with an even one and a U.  u1 generations *)
(* use it, and it is what the union that all others use has to be like.    *)
(*                                                                         *)
(* The values of both types are numbered as they come into being.          *)
(***************************************************************************)
EXTENDS Integers, Bags

CONSTANTS
  MaxGen,  \* the largest generation of its type
  Names    \* the slots there can be

VARIABLES
  slots,  \* the slots, by name, or NoSlot
  made,   \* history: how many values there have been
  gone    \* history: the values moved out or dropped, each as often as it was

vars == <<slots, made, gone>>

Generations == 0 .. MaxGen
Odd(g) == g % 2 = 1

NoSlot == [variant |-> "none"]
Slot(g, n) ==
  [variant |-> IF Odd(g) THEN "Occupied" ELSE "Vacant", generation |-> g, value |-> n]

Exists(s) == slots[s].variant # "none"
Leave(s) == gone' = gone (+) SetToBag({slots[s].value})

\* new_odd, new_even
New(s, g) ==
  /\ ~Exists(s)
  /\ slots' = [slots EXCEPT ![s] = Slot(g, made + 1)]
  /\ made' = made + 1
  /\ UNCHANGED gone

\* replace_odd_unchecked, replace_even_unchecked, and mem::replace.
Replace(s, g) ==
  /\ Exists(s)
  /\ slots' = [slots EXCEPT ![s] = Slot(g, made + 1)]
  /\ made' = made + 1
  /\ Leave(s)

\* Writes through the references of as_parity_mut: the generation keeps its
\* parity, and the value that is written over is dropped.
WriteGeneration(s, g) ==
  /\ Exists(s) /\ Odd(g) = Odd(slots[s].generation)
  /\ slots' = [slots EXCEPT ![s] = Slot(g, slots[s].value)]
  /\ UNCHANGED <<made, gone>>

WriteValue(s) ==
  /\ Exists(s)
  /\ slots' = [slots EXCEPT ![s] = Slot(slots[s].generation, made + 1)]
  /\ made' = made + 1
  /\ Leave(s)

\* into_parity moves the value out, and a drop of the slot drops it.
IntoParity(s) ==
  /\ Exists(s)
  /\ slots' = [slots EXCEPT ![s] = NoSlot]
  /\ Leave(s)
  /\ UNCHANGED made

Clone(s, t) ==
  /\ Exists(s) /\ ~Exists(t)
  /\ slots' = [slots EXCEPT ![t] = Slot(slots[s].generation, made + 1)]
  /\ made' = made + 1
  /\ UNCHANGED gone

Init == slots = [s \in Names |-> NoSlot] /\ made = 0 /\ gone = EmptyBag

Next ==
  \/ \E s \in Names, g \in Generations :
       New(s, g) \/ Replace(s, g) \/ WriteGeneration(s, g)
  \/ \E s \in Names : WriteValue(s) \/ IntoParity(s)
  \/ \E s, t \in Names : Clone(s, t)

Spec == Init /\ [][Next]_vars

=============================================================================
