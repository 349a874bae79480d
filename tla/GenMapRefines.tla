--------------------------- MODULE GenMapRefines ---------------------------
(***************************************************************************)
(* GenMap implements KeyedMap: the contents are the values of the slots    *)
(* that hold one, the reserved keys are those whose slot is detached.      *)
(***************************************************************************)
EXTENDS GenMap

\* get, get_at and their unchecked and mutable forms, for a key with a value.
get(k) == slots[k.idx].item

Abs == INSTANCE KeyedMap WITH
  contents <- [k \in {j \in Keys : contains_key(j)} |-> get(k)],
  reserved <- {k \in Keys : detached_slot(k)},
  used <- issued,
  dead <- retired

\* A method that takes a key does to the contents what KeyedMap says, and to
\* the value of that key.
KeyStepRefines(k) ==
  /\ Remove(k) => Abs!Remove(k)
  /\ Retire(k) => Abs!Retire(k)
  /\ Detach(k) => Abs!Detach(k)
  /\ Release(k) => Abs!Release(k)
  /\ \A v \in Values : /\ Attach(k, v) => Abs!Attach(k, v)
                       /\ Write(k, v) => Abs!Write(k, v)

\* Whatever map it starts from, each step of a method is a step of KeyedMap or
\* invisible: every insertion gives a key that aliases no key in use (and no
\* key ever handed out, unless generations wrap), a method that takes a key
\* changes the value of that key only, and a panic or a forgotten Drain between
\* two steps of a method leaves what the steps before it left.
StepsOfKeyedMap ==
  /\ [][Abs!Next]_(Abs!vars)
  /\ [][\A k \in Keys : KeyStepRefines(k)]_vars

\* What a caller sees of the slots, links and generations of a new map is a map
\* from keys to values.
ImplementsKeyedMap == Abs!Init /\ StepsOfKeyedMap

=============================================================================
