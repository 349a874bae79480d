------------------------------ MODULE KeyedMap ------------------------------
(***************************************************************************)
(* What a generational map promises its callers, without slots, links or   *)
(* storage: a partial function from keys to values, the keys set aside for *)
(* a value that is not there (detached or reserved), and the rules for     *)
(* handing out keys.  GenMap implements it (see GenMapRefines), and so     *)
(* does every map that gives its values keys of this kind.                 *)
(***************************************************************************)
EXTENDS Integers

CONSTANTS
  Values,  \* the values a caller may put in the map
  MaxIdx,  \* the largest index a key can hold
  MaxGen,  \* the largest generation a key can hold
  Wrap     \* whether generations start over

VARIABLES
  contents,  \* the values by key
  reserved,  \* the keys that are detached
  used,      \* the keys handed out since the last reset
  dead       \* the indexes that no key is handed out for until a reset

vars == <<contents, reserved, used, dead>>

Keys == [idx : 0 .. MaxIdx, gen : {g \in 0 .. MaxGen : g % 2 = 1}]

\* No value and no detached key has the index of k.
IndexFree(k) ==
  k.idx \notin dead \union {j.idx : j \in DOMAIN contents \union reserved}

\* k may be handed out: it aliases no key in use and, unless generations
\* wrap, is newer than every key of its index that anyone ever got.
Fresh(k) ==
  /\ IndexFree(k)
  /\ ~Wrap => \A j \in used : j.idx = k.idx => j.gen < k.gen

\* The index of k is given up with the value or the reservation of k.
GivenUp(k) == IF k.gen = MaxGen /\ ~Wrap THEN dead \union {k.idx} ELSE dead

With(k, v) == [j \in DOMAIN contents \union {k} |-> IF j = k THEN v ELSE contents[j]]
Without(k) == [j \in DOMAIN contents \ {k} |-> contents[j]]

Insert(k, v) ==
  /\ Fresh(k)
  /\ contents' = With(k, v)
  /\ used' = used \union {k}
  /\ UNCHANGED <<reserved, dead>>

Reserve(k) ==
  /\ Fresh(k)
  /\ reserved' = reserved \union {k}
  /\ used' = used \union {k}
  /\ UNCHANGED <<contents, dead>>

Remove(k) ==
  /\ k \in DOMAIN contents
  /\ contents' = Without(k)
  /\ dead' = GivenUp(k)
  /\ UNCHANGED <<reserved, used>>

Retire(k) ==
  /\ k \in DOMAIN contents
  /\ contents' = Without(k)
  /\ dead' = dead \union {k.idx}
  /\ UNCHANGED <<reserved, used>>

Write(k, v) ==
  /\ k \in DOMAIN contents
  /\ contents' = With(k, v)
  /\ UNCHANGED <<reserved, used, dead>>

Detach(k) ==
  /\ k \in DOMAIN contents
  /\ contents' = Without(k)
  /\ reserved' = reserved \union {k}
  /\ UNCHANGED <<used, dead>>

Attach(k, v) ==
  /\ k \in reserved
  /\ contents' = With(k, v)
  /\ reserved' = reserved \ {k}
  /\ UNCHANGED <<used, dead>>

Release(k) ==
  /\ k \in reserved
  /\ reserved' = reserved \ {k}
  /\ dead' = GivenUp(k)
  /\ UNCHANGED <<contents, used>>

Reset ==
  /\ contents' = [k \in {} |-> 0]
  /\ reserved' = {}
  /\ used' = {}
  /\ dead' = {}

Init ==
  /\ contents = [k \in {} |-> 0]
  /\ reserved = {}
  /\ used = {}
  /\ dead = {}

Next ==
  \/ \E k \in Keys, v \in Values : Insert(k, v) \/ Write(k, v) \/ Attach(k, v)
  \/ \E k \in Keys :
       Reserve(k) \/ Remove(k) \/ Retire(k) \/ Detach(k) \/ Release(k)
  \/ Reset

Spec == Init /\ [][Next]_vars

=============================================================================
