---------------------------- MODULE DisjointMut ----------------------------
(***************************************************************************)
(* get_disjoint_mut and get_disjoint_mut_at of the five maps: several      *)
(* mutable references to values at once, which must not be to the same     *)
(* value.  The checks are those of src/src/error.rs.                       *)
(*                                                                         *)
(* The map has the slots of SlotIter, and each slot with a value has it at *)
(* a place: the slot itself, or the position among the pairs of a dense    *)
(* map.  In SparseSecondaryMap it is the entry of the HashMap, which finds *)
(* it anew after the checks, and may not find it if the caller's hasher    *)
(* gives an index another hash.                                            *)
(***************************************************************************)
EXTENDS SlotIter

CONSTANT KeysMax  \* bound: the most keys of a call

VARIABLES
  place,  \* where the values are, a function from the positions of their slots
  asked,  \* the keys, or the indexes, of the call
  result  \* "none" when there is no call, "ok" while its references live, or an
          \* error

disjoint_vars == <<place, asked, result>>

AllKeys == [idx : 0 .. SlotsMax - 1, gen : {g \in 0 .. GensMax : g % 2 = 1}]

contains_key(k) == k.idx \in Positions /\ slots[k.idx] = k.gen
key_at(i) == IF i \in Occupants THEN {Key(i)} ELSE {}

-----------------------------------------------------------------------------
(* The checks of a call *)

\* Mutant: a key is compared with the one before it only.
check_disjoint_keys_neighbours(keys) ==
  LET Fails(i) == ~contains_key(keys[i]) \/ (i > 1 /\ keys[i - 1].idx = keys[i].idx)
  IN  IF \A i \in DOMAIN keys : ~Fails(i) THEN "ok"
      ELSE LET i == CHOOSE i \in DOMAIN keys : Fails(i) /\ \A j \in 1 .. i - 1 : ~Fails(j)
           IN  IF contains_key(keys[i]) THEN "OverlappingKeys" ELSE "InvalidKey"

\* The first key that has no value, or has the index of an earlier one,
\* decides.
check_disjoint_keys(keys) ==
  LET Overlaps(i) == \E j \in 1 .. i - 1 : keys[j].idx = keys[i].idx
      Fails(i) == ~contains_key(keys[i]) \/ Overlaps(i)
  IN  IF \A i \in DOMAIN keys : ~Fails(i) THEN "ok"
      ELSE LET i == CHOOSE i \in DOMAIN keys : Fails(i) /\ \A j \in 1 .. i - 1 : ~Fails(j)
           IN  IF contains_key(keys[i]) THEN "OverlappingKeys" ELSE "InvalidKey"

check_disjoint_idxs(idxs) ==
  LET Fails(i) == key_at(idxs[i]) = {} \/ \E j \in 1 .. i - 1 : idxs[j] = idxs[i]
  IN  IF \A i \in DOMAIN idxs : ~Fails(i) THEN "ok"
      ELSE LET i == CHOOSE i \in DOMAIN idxs : Fails(i) /\ \A j \in 1 .. i - 1 : ~Fails(j)
           IN  IF key_at(idxs[i]) # {} THEN "OverlappingIndices" ELSE "NoValue"

-----------------------------------------------------------------------------

\* The map is borrowed mutably for the call and as long as its references live.
Unborrowed == ~shared /\ result = "none" /\ \A i \in Names : ~Exists(i)

Arrays(S) == UNION {[1 .. n -> S] : n \in 0 .. KeysMax}

GetDisjointMut(keys) ==
  /\ Unborrowed
  /\ asked' = keys
  /\ result' = check_disjoint_keys(keys)
  /\ UNCHANGED <<vars, place>>

\* The keys asked for are those at the indexes; where there is none, it has a
\* generation of no slot.
GetDisjointMutAt(idxs) ==
  /\ Unborrowed
  /\ asked' = [i \in DOMAIN idxs |-> IF idxs[i] \in Occupants THEN Key(idxs[i])
                                     ELSE [idx |-> idxs[i], gen |-> GensMax + 1]]
  /\ result' = check_disjoint_idxs(idxs)
  /\ UNCHANGED <<vars, place>>

\* SparseSecondaryMap: the checks pass, and the HashMap misses an entry.  The
\* call ends as for a key without a value, and lends nothing.
HashMapMisses(keys) ==
  /\ Unborrowed
  /\ check_disjoint_keys(keys) = "ok"
  /\ asked' = keys
  /\ result' = "missed"
  /\ UNCHANGED <<vars, place>>

\* get_disjoint_mut_unchecked: where the references are to.
references(keys) == [i \in DOMAIN keys |-> place[keys[i].idx]]

\* The references, or the error, are dropped.
Return ==
  /\ result # "none"
  /\ result' = "none"
  /\ asked' = <<>>
  /\ UNCHANGED <<vars, place>>

\* Where the values of a map may be: in their slots, or side by side among the
\* pairs, in any order.
Places(m) ==
  LET n == Cardinality({p \in DOMAIN m : m[p] % 2 = 1})
      held == {p \in DOMAIN m : m[p] % 2 = 1}
  IN  {[p \in held |-> p]}
        \union {f \in [held -> 0 .. n - 1] : \A p, q \in held : f[p] = f[q] => p = q}

DisjointInit == place \in Places(slots) /\ asked = <<>> /\ result = "none"

DisjointStep ==
  \/ \E keys \in Arrays(AllKeys) : GetDisjointMut(keys) \/ HashMapMisses(keys)
  \/ \E idxs \in Arrays(0 .. SlotsMax - 1) : GetDisjointMutAt(idxs)
  \/ Return

-----------------------------------------------------------------------------
(* Properties *)

\* The references that live at the same time are to different values, each to
\* the value of the key that was asked for; and a call is refused only for a
\* key without a value or for two keys of one slot.
LentApart ==
  LET Stale == \E i \in DOMAIN asked : ~contains_key(asked[i])
      Twice == \E i, j \in DOMAIN asked : i # j /\ asked[i].idx = asked[j].idx
  IN  /\ result = "ok" =>
           \A i, j \in DOMAIN asked :
             contains_key(asked[i]) /\ (i # j => references(asked)[i] # references(asked)[j])
      /\ result \in {"InvalidKey", "NoValue"} => Stale
      /\ result \in {"OverlappingKeys", "OverlappingIndices"} => Twice

=============================================================================
