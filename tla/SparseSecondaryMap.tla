------------------------- MODULE SparseSecondaryMap -------------------------
(***************************************************************************)
(* The secondary map of src/src/secondary/sparse.rs, which keeps its       *)
(* values in a HashMap by index.  It has the plainest state of the three   *)
(* secondary maps, so it is also what the other two are shown to           *)
(* implement.                                                              *)
(*                                                                         *)
(* The HashMap is the standard library's: its room, which only lets an     *)
(* insert fail without an effect, is left out, and retain, clear and drain *)
(* are the removals and writes they make, in any order.                    *)
(***************************************************************************)
EXTENDS Integers

CONSTANTS
  Values,   \* the values a caller may attach to keys
  MaxIdx,   \* the largest index a key can hold
  MaxGen,   \* the largest generation a key can hold
  Strategy  \* the replace strategy, as in SecondarySlots

VARIABLES
  attached,  \* the HashMap: a partial function from indexes to slots
  asked      \* history: the key of the last call that had an effect

vars == <<attached, asked>>

SparseSlot(g, v) == [generation |-> g, value |-> v]
Keys == [idx : 0 .. MaxIdx, gen : {g \in 0 .. MaxGen : g % 2 = 1}]

NoKey == [idx |-> 0, gen |-> 0]

contains_key(k) == k.idx \in DOMAIN attached /\ attached[k.idx].generation = k.gen

\* The slot at the index of k becomes one of k with value v.
Store(k, v) ==
  /\ attached' = [i \in DOMAIN attached \union {k.idx} |->
                   IF i = k.idx THEN SparseSlot(k.gen, v) ELSE attached[i]]
  /\ asked' = k

Insert(k, v) ==
  /\ k.idx \in DOMAIN attached =>
       LET current == attached[k.idx].generation
       IN  current = k.gen \/ <<current, k.gen>> \in Strategy
  /\ Store(k, v)

\* remove, a value that retain rejects, or one that drain yields.
Remove(k) ==
  /\ contains_key(k)
  /\ attached' = [i \in DOMAIN attached \ {k.idx} |-> attached[i]]
  /\ asked' = k

\* A write through get_mut or an iterator, or by the closure of retain.
Write(k, v) == contains_key(k) /\ Store(k, v)

Clear == attached' = [i \in {} |-> 0] /\ UNCHANGED asked

Init == attached = [i \in {} |-> 0] /\ asked = NoKey

Next ==
  \/ \E k \in Keys, v \in Values : Insert(k, v) \/ Write(k, v)
  \/ \E k \in Keys : Remove(k)
  \/ Clear

Spec == Init /\ [][Next]_vars

=============================================================================
