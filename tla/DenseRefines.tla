---------------------------- MODULE DenseRefines ----------------------------
(***************************************************************************)
(* DenseGenMap implements KeyedMap, as GenMap does: the contents are the   *)
(* values at the positions that the slots store.                           *)
(***************************************************************************)
EXTENDS DenseGenMap

\* What get and get_at find for a key with a value: first the position that its
\* slot stores.
stored_position(k) == slots[k.idx].item
get(k) == At(stored_position(k)).value

Abs == INSTANCE KeyedMap WITH
  contents <- [k \in {j \in Keys : contains_key(j)} |-> get(k)],
  reserved <- {k \in Keys : detached_slot(k)},
  used <- issued,
  dead <- retired

\* A method that takes a key does to the contents what KeyedMap says, and to
\* the value of that key.
KeyStepRefines(k) ==
  /\ Remove(k) => Abs!Remove(k)
  /\ Retire(k) => Abs!Retire(k)
  /\ Detach(k) => Abs!Detach(k)
  /\ Release(k) => Abs!Release(k)
  /\ \A v \in Values : /\ Attach(k, v) => Abs!Attach(k, v)
                       /\ Write(k, v) => Abs!Write(k, v)

\* Moving pairs around is invisible: whatever map it starts from, a method that
\* takes a key changes the value of that key only, and every insertion hands
\* out a key that aliases no other.
StepsOfKeyedMap ==
  /\ [][Abs!Next]_(Abs!vars)
  /\ [][\A k \in Keys : KeyStepRefines(k)]_vars

\* A new map and the steps of its methods are those of a map from keys to values.
ImplementsKeyedMap == Abs!Init /\ StepsOfKeyedMap

=============================================================================
