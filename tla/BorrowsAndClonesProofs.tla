----------------------- MODULE BorrowsAndClonesProofs -----------------------
(***************************************************************************)
(* Theorems about what goes through the items of a map: references that   *)
(* the maps lend out, for any number of slots, iterators and keys of a     *)
(* call, and clone_from of the maps, for maps of any size and any values.  *)
(*                                                                         *)
(* References at once: the check of the keys, or of the indexes, ends at   *)
(* the first that fails (FirstBad), so that one which passes has all keys  *)
(* good and no two of one slot, and slots have their values apart.         *)
(*                                                                         *)
(* Iterators over slots: what came from the front is, in order, the keys   *)
(* of the slots below it, what came from the back those of the slots from  *)
(* there on (Lists, Good).  A step moves one end past one slot with a      *)
(* value, which is the next on that side.                                  *)
(*                                                                         *)
(* Iterators over pairs: the two slices stay side by side, and what was    *)
(* yielded are the runs of positions before and behind them (GoodPair).    *)
(*                                                                         *)
(* clone_from: between two steps the fields are no map, and nothing is     *)
(* known of the slots and pairs that are left of the old one.  But the     *)
(* head of the free list and the count are already those of an empty map,  *)
(* so that emptying the storages makes it one; and the items up to count   *)
(* are clones of the source's, so that at the end all are (CloneInv).      *)
(***************************************************************************)
EXTENDS Borrows, MapClones, FiniteSetTheorems, SequenceTheorems, WellFoundedInduction, TLAPS

\* A set of natural numbers has a least one.
LEMMA Smallest ==
  ASSUME NEW S, S \subseteq Nat, S # {}
  PROVE  \E x \in S : \A y \in S : x <= y
  <1> DEFINE R == OpToRel(<, Nat)
  <1>1. PICK x \in S : \A y \in S : ~ (<<y, x>> \in R)
    BY NatLessThanWellFounded, WFMin
  <1>2. \A y \in Nat : y < x => <<y, x>> \in R
    BY DEF OpToRel
  <1> HIDE DEF R
  <1>3. x \in Nat /\ S \subseteq Nat
    OBVIOUS
  <1>4. ASSUME NEW y \in S PROVE x <= y
    <2>1. y \in Nat /\ <<y, x>> \notin R
      BY <1>1, <1>3
    <2>2. ~(y < x)
      BY <1>2, <2>1, Zenon
    <2>3. QED
      BY <1>3, <2>1, <2>2
  <1>5. QED
    BY <1>4

-----------------------------------------------------------------------------
(* The map *)

MapOK ==
  /\ slots_len \in Nat /\ slots \in [Positions -> 0 .. GensMax] /\ kept \in BOOLEAN
  /\ \A p, q \in Occupants : place[p] = place[q] => p = q

LEMMA InitMap == BorrowsInit => MapOK
  <1> SUFFICES ASSUME BorrowsInit PROVE MapOK
    OBVIOUS
  <1>1. /\ slots_len \in Nat /\ slots \in [Positions -> 0 .. GensMax] /\ kept \in BOOLEAN
        /\ place \in Places(slots)
    BY IterAssumption DEF BorrowsInit, Init, DisjointInit, Positions
  <1>2. {p \in DOMAIN slots : slots[p] % 2 = 1} = Occupants
    BY <1>1 DEF Occupants, Occupied
  <1>3. ASSUME NEW p \in Occupants, NEW q \in Occupants, place[p] = place[q] PROVE p = q
    BY <1>1, <1>2, <1>3 DEF Places
  <1>4. QED
    BY <1>1, <1>3 DEF MapOK

\* Nothing changes the map while its values are lent.
LEMMA SameMap ==
  ASSUME [BorrowsNext]_<<vars, disjoint_vars, pair_iter_vars>>
  PROVE  slots' = slots /\ slots_len' = slots_len /\ kept' = kept /\ place' = place
  <1>1. CASE SlotIterStep
    BY <1>1 DEF SlotIterStep, Step, Start, Next, NextBack, NextNone, NextBackNone, Clone,
                disjoint_vars
  <1>2. CASE PairIterStep
    BY <1>2 DEF PairIterStep, disjoint_vars
  <1>3. CASE DisjointStep
    BY <1>3 DEF DisjointStep, GetDisjointMut, HashMapMisses, GetDisjointMutAt, Return, vars
  <1>4. CASE UNCHANGED <<vars, disjoint_vars, pair_iter_vars>>
    BY <1>4 DEF vars, disjoint_vars
  <1>5. QED
    BY <1>1, <1>2, <1>3, <1>4 DEF BorrowsNext

LEMMA StepMap ==
  ASSUME MapOK, [BorrowsNext]_<<vars, disjoint_vars, pair_iter_vars>>
  PROVE  MapOK' /\ Occupants' = Occupants
  BY SameMap DEF MapOK, Positions, Occupants, Occupied

-----------------------------------------------------------------------------
(* References at the same time *)

\* The first index that is not good.
LEMMA FirstBad ==
  ASSUME NEW n \in Nat, NEW B \in SUBSET (1 .. n), B # {}
  PROVE  \E i \in B : \A j \in 1 .. i - 1 : j \notin B
  <1>0. B \subseteq Nat
    OBVIOUS
  <1>1. PICK i \in B : \A j \in B : i <= j
    BY <1>0, Smallest
  <1>2. \A j \in 1 .. i - 1 : ~(i <= j)
    BY <1>1
  <1>3. QED
    BY <1>1, <1>2

\* What the check of the keys says: all have a value, each of its own, or one
\* has none, or two share one.
LEMMA KeysChecked ==
  ASSUME NEW n \in Nat, NEW keys, DOMAIN keys = 1 .. n
  PROVE  LET r == check_disjoint_keys(keys)
         IN  \/ /\ r = "ok"
                /\ \A i \in 1 .. n : contains_key(keys[i])
                /\ \A i, j \in 1 .. n : i # j => keys[i].idx # keys[j].idx
             \/ r = "InvalidKey" /\ \E i \in 1 .. n : ~contains_key(keys[i])
             \/ /\ r = "OverlappingKeys"
                /\ \E i, j \in 1 .. n : i # j /\ keys[i].idx = keys[j].idx
  <1> DEFINE Fails(i) == ~contains_key(keys[i]) \/ \E j \in 1 .. i - 1 : keys[j].idx = keys[i].idx
             First(i) == Fails(i) /\ \A j \in 1 .. i - 1 : ~Fails(j)
             f == CHOOSE i \in DOMAIN keys : First(i)
             r == check_disjoint_keys(keys)
  <1>1. r = IF \A i \in DOMAIN keys : ~Fails(i) THEN "ok"
            ELSE IF contains_key(keys[f]) THEN "OverlappingKeys" ELSE "InvalidKey"
    BY DEF check_disjoint_keys
  <1>2. CASE \A i \in 1 .. n : ~Fails(i)
    <2>1. ASSUME NEW i \in 1 .. n, NEW j \in 1 .. n, i # j PROVE keys[i].idx # keys[j].idx
      <3>1. j \in 1 .. i - 1 \/ i \in 1 .. j - 1
        BY <2>1
      <3>2. QED
        BY <1>2, <3>1
    <2>2. r = "ok"
      BY <1>1, <1>2
    <2>3. QED
      BY <1>2, <2>1, <2>2
  <1>3. CASE \E i \in 1 .. n : Fails(i)
    <2> DEFINE B == {i \in 1 .. n : Fails(i)}
    <2>1. PICK b \in B : \A j \in 1 .. b - 1 : j \notin B
      BY <1>3, FirstBad
    <2>2. \A j \in 1 .. b - 1 : j \in 1 .. n
      OBVIOUS
    <2>3. \E i \in DOMAIN keys : First(i)
      BY <2>1, <2>2
    <2>4. f \in 1 .. n /\ Fails(f)
      BY <2>3
    <2> HIDE DEF f
    <2>5. CASE contains_key(keys[f])
      <3>1. PICK j \in 1 .. f - 1 : keys[j].idx = keys[f].idx
        BY <2>4, <2>5
      <3>2. j \in 1 .. n /\ j # f
        BY <2>4
      <3>3. QED
        BY <1>1, <1>3, <2>4, <2>5, <3>1, <3>2
    <2>6. CASE ~contains_key(keys[f])
      BY <1>1, <1>3, <2>4, <2>6
    <2>7. QED
      BY <2>5, <2>6
  <1>4. QED
    BY <1>2, <1>3

\* The check of the indexes says the same.
LEMMA IdxsChecked ==
  ASSUME NEW n \in Nat, NEW idxs, DOMAIN idxs = 1 .. n
  PROVE  LET r == check_disjoint_idxs(idxs)
         IN  \/ /\ r = "ok"
                /\ \A i \in 1 .. n : idxs[i] \in Occupants
                /\ \A i, j \in 1 .. n : i # j => idxs[i] # idxs[j]
             \/ r = "NoValue" /\ \E i \in 1 .. n : idxs[i] \notin Occupants
             \/ /\ r = "OverlappingIndices"
                /\ \E i, j \in 1 .. n : i # j /\ idxs[i] = idxs[j]
  <1> DEFINE Fails(i) == key_at(idxs[i]) = {} \/ \E j \in 1 .. i - 1 : idxs[j] = idxs[i]
             First(i) == Fails(i) /\ \A j \in 1 .. i - 1 : ~Fails(j)
             f == CHOOSE i \in DOMAIN idxs : First(i)
             r == check_disjoint_idxs(idxs)
  <1>1. r = IF \A i \in DOMAIN idxs : ~Fails(i) THEN "ok"
            ELSE IF key_at(idxs[f]) # {} THEN "OverlappingIndices" ELSE "NoValue"
    BY DEF check_disjoint_idxs
  <1>2. \A i : key_at(i) = {} <=> i \notin Occupants
    BY DEF key_at
  <1>3. CASE \A i \in 1 .. n : ~Fails(i)
    <2>1. ASSUME NEW i \in 1 .. n, NEW j \in 1 .. n, i # j PROVE idxs[i] # idxs[j]
      <3>1. j \in 1 .. i - 1 \/ i \in 1 .. j - 1
        BY <2>1
      <3>2. QED
        BY <1>3, <3>1
    <2>2. r = "ok"
      BY <1>1, <1>3
    <2>3. QED
      BY <1>2, <1>3, <2>1, <2>2
  <1>4. CASE \E i \in 1 .. n : Fails(i)
    <2> DEFINE B == {i \in 1 .. n : Fails(i)}
    <2>1. PICK b \in B : \A j \in 1 .. b - 1 : j \notin B
      BY <1>4, FirstBad
    <2>2. \A j \in 1 .. b - 1 : j \in 1 .. n
      OBVIOUS
    <2>3. \E i \in DOMAIN idxs : First(i)
      BY <2>1, <2>2
    <2>4. f \in 1 .. n /\ Fails(f)
      BY <2>3
    <2> HIDE DEF f
    <2>5. CASE idxs[f] \in Occupants
      <3>1. PICK j \in 1 .. f - 1 : idxs[j] = idxs[f]
        BY <1>2, <2>4, <2>5
      <3>2. j \in 1 .. n /\ j # f
        BY <2>4
      <3>3. QED
        BY <1>1, <1>2, <1>4, <2>4, <2>5, <3>1, <3>2
    <2>6. CASE idxs[f] \notin Occupants
      BY <1>1, <1>2, <1>4, <2>4, <2>6
    <2>7. QED
      BY <2>5, <2>6
  <1>5. QED
    BY <1>3, <1>4

\* The references of a call are to the values of its keys, at places of their own.
LEMMA LentPlaces ==
  ASSUME MapOK, NEW n \in Nat, NEW keys, DOMAIN keys = 1 .. n,
         \A i \in 1 .. n : keys[i].idx \in Occupants,
         \A i, j \in 1 .. n : i # j => keys[i].idx # keys[j].idx
  PROVE  \A i, j \in DOMAIN keys : i # j => references(keys)[i] # references(keys)[j]
  BY DEF MapOK, references

\* get_disjoint_mut
LEMMA CallOfKeys ==
  ASSUME MapOK, NEW keys \in Arrays(AllKeys), GetDisjointMut(keys)
  PROVE  LentApart'
  <1>1. PICK n \in Nat : DOMAIN keys = 1 .. n /\ \A i \in 1 .. n : keys[i] \in AllKeys
    <2>1. PICK m \in 0 .. KeysMax : keys \in [1 .. m -> AllKeys]
      BY DEF Arrays
    <2>2. m \in Nat
      OBVIOUS
    <2>3. QED
      BY <2>1, <2>2
  <1>2. /\ asked' = keys /\ result' = check_disjoint_keys(keys)
        /\ slots' = slots /\ slots_len' = slots_len /\ place' = place
    BY DEF GetDisjointMut, vars
  <1>3. \A k \in AllKeys : contains_key(k) => k.idx \in Occupants
    BY DEF AllKeys, contains_key, Occupants, Occupied
  <1>4. \A k : contains_key(k)' <=> contains_key(k)
    BY <1>2 DEF contains_key, Positions
  <1>5. references(asked)' = references(keys)
    BY <1>2 DEF references
  <1>6. CASE /\ result' = "ok" /\ \A i \in 1 .. n : contains_key(keys[i])
             /\ \A i, j \in 1 .. n : i # j => keys[i].idx # keys[j].idx
    <2>1. \A i, j \in DOMAIN keys : i # j => references(keys)[i] # references(keys)[j]
      BY <1>1, <1>3, <1>6, LentPlaces
    <2>2. QED
      BY <1>1, <1>2, <1>4, <1>5, <1>6, <2>1 DEF LentApart
  <1>7. CASE result' = "InvalidKey" /\ \E i \in 1 .. n : ~contains_key(keys[i])
    BY <1>1, <1>2, <1>4, <1>7 DEF LentApart
  <1>8. CASE result' = "OverlappingKeys" /\ \E i, j \in 1 .. n : i # j /\ keys[i].idx = keys[j].idx
    BY <1>1, <1>2, <1>8 DEF LentApart
  <1>9. QED
    BY <1>1, <1>2, <1>6, <1>7, <1>8, KeysChecked

\* get_disjoint_mut_at
LEMMA CallOfIdxs ==
  ASSUME MapOK, NEW idxs \in Arrays(0 .. SlotsMax - 1), GetDisjointMutAt(idxs)
  PROVE  LentApart'
  <1>1. PICK n \in Nat : DOMAIN idxs = 1 .. n
    <2>1. PICK m \in 0 .. KeysMax : idxs \in [1 .. m -> 0 .. SlotsMax - 1]
      BY DEF Arrays
    <2>2. m \in Nat
      OBVIOUS
    <2>3. QED
      BY <2>1, <2>2
  <1> DEFINE keys == [i \in DOMAIN idxs |-> IF idxs[i] \in Occupants THEN Key(idxs[i])
                                            ELSE [idx |-> idxs[i], gen |-> GensMax + 1]]
  <1>2. /\ asked' = keys /\ result' = check_disjoint_idxs(idxs)
        /\ slots' = slots /\ slots_len' = slots_len /\ place' = place
    BY DEF GetDisjointMutAt, vars
  <1>3. ASSUME NEW i \in 1 .. n
        PROVE  keys[i].idx = idxs[i] /\ (contains_key(keys[i]) <=> idxs[i] \in Occupants)
    <2>1. CASE idxs[i] \in Occupants
      BY <1>1, <2>1 DEF Key, contains_key, Occupants
    <2>2. CASE idxs[i] \notin Occupants
      <3>1. keys[i] = [idx |-> idxs[i], gen |-> GensMax + 1]
        BY <1>1, <2>2
      <3>2. \A p \in Positions : slots[p] # GensMax + 1
        BY IterAssumption DEF MapOK
      <3>3. QED
        BY <2>2, <3>1, <3>2 DEF contains_key
    <2>3. QED
      BY <2>1, <2>2
  <1>4. \A k : contains_key(k)' <=> contains_key(k)
    BY <1>2 DEF contains_key, Positions
  <1>5. references(asked)' = references(keys)
    BY <1>2 DEF references
  <1>6. DOMAIN keys = 1 .. n
    BY <1>1
  <1> HIDE DEF keys
  <1>7. CASE /\ result' = "ok" /\ \A i \in 1 .. n : idxs[i] \in Occupants
             /\ \A i, j \in 1 .. n : i # j => idxs[i] # idxs[j]
    <2>1. \A i, j \in DOMAIN keys : i # j => references(keys)[i] # references(keys)[j]
      BY <1>3, <1>6, <1>7, LentPlaces
    <2>2. QED
      BY <1>2, <1>3, <1>4, <1>5, <1>6, <1>7, <2>1 DEF LentApart
  <1>8. CASE result' = "NoValue" /\ \E i \in 1 .. n : idxs[i] \notin Occupants
    BY <1>2, <1>3, <1>4, <1>6, <1>8 DEF LentApart
  <1>9. CASE result' = "OverlappingIndices" /\ \E i, j \in 1 .. n : i # j /\ idxs[i] = idxs[j]
    BY <1>2, <1>3, <1>6, <1>9 DEF LentApart
  <1>10. QED
    BY <1>1, <1>2, <1>7, <1>8, <1>9, IdxsChecked

LEMMA StepLent ==
  ASSUME MapOK, LentApart, [BorrowsNext]_<<vars, disjoint_vars, pair_iter_vars>>
  PROVE  LentApart'
  <1>1. slots' = slots /\ slots_len' = slots_len /\ place' = place
    BY SameMap
  <1>2. CASE UNCHANGED <<asked, result>>
    BY <1>1, <1>2 DEF LentApart, contains_key, references, Positions
  <1>3. ASSUME NEW keys \in Arrays(AllKeys), GetDisjointMut(keys) \/ HashMapMisses(keys)
        PROVE  LentApart'
    BY <1>3, CallOfKeys DEF HashMapMisses, LentApart
  <1>4. CASE Return
    BY <1>4 DEF Return, LentApart
  <1>5. CASE DisjointStep
    BY <1>3, <1>4, <1>5, CallOfIdxs DEF DisjointStep
  <1>6. CASE SlotIterStep \/ PairIterStep
    BY <1>2, <1>6 DEF SlotIterStep, PairIterStep, disjoint_vars
  <1>7. QED
    BY <1>2, <1>5, <1>6 DEF BorrowsNext, disjoint_vars

-----------------------------------------------------------------------------
(* Lists of keys *)

AnyKey == [idx : Nat, gen : 0 .. GensMax]

\* The sequence f has the keys of the slots in S, in the order of their indexes.
Lists(f, S) ==
  /\ f \in Seq(AnyKey) /\ Len(f) = Cardinality(S)
  /\ \A m, n \in 1 .. Len(f) : m < n => f[m].idx < f[n].idx
  /\ \A n \in 1 .. Len(f) : f[n].idx \in S /\ f[n] = Key(f[n].idx)
  /\ \A p \in S : \E n \in 1 .. Len(f) : f[n] = Key(p)

\* Where the items of two sequences are when one follows the other.
LEMMA Joined ==
  ASSUME NEW A, NEW f \in Seq(A), NEW b \in Seq(A)
  PROVE  /\ f \o b \in Seq(A) /\ Len(f \o b) = Len(f) + Len(b)
         /\ Len(f) \in Nat /\ Len(b) \in Nat
         /\ \A n \in 1 .. Len(f) : n \in 1 .. Len(f \o b) /\ (f \o b)[n] = f[n]
         /\ \A n \in 1 .. Len(b) : /\ Len(f) + n \in 1 .. Len(f \o b)
                                   /\ (f \o b)[Len(f) + n] = b[n]
         /\ \A n \in 1 .. Len(f \o b) :
              n \in 1 .. Len(f) \/ (n - Len(f) \in 1 .. Len(b) /\ (f \o b)[n] = b[n - Len(f)])
  <1>1. /\ f \o b \in Seq(A) /\ Len(f \o b) = Len(f) + Len(b)
        /\ Len(f) \in Nat /\ Len(b) \in Nat
    OBVIOUS
  <1>2. ASSUME NEW n \in 1 .. Len(f) + Len(b)
        PROVE  (f \o b)[n] = IF n <= Len(f) THEN f[n] ELSE b[n - Len(f)]
    OBVIOUS
  <1>3. ASSUME NEW n \in 1 .. Len(f)
        PROVE  n \in 1 .. Len(f \o b) /\ (f \o b)[n] = f[n]
    BY <1>1, <1>2
  <1>4. ASSUME NEW n \in 1 .. Len(b)
        PROVE  /\ Len(f) + n \in 1 .. Len(f \o b)
               /\ (f \o b)[Len(f) + n] = b[n]
    <2>1. Len(f) + n \in 1 .. Len(f) + Len(b) /\ ~(Len(f) + n <= Len(f))
          /\ Len(f) + n - Len(f) = n
      BY <1>1
    <2>2. QED
      BY <1>1, <1>2, <2>1
  <1>5. ASSUME NEW n \in 1 .. Len(f \o b)
        PROVE  n \in 1 .. Len(f) \/ (n - Len(f) \in 1 .. Len(b) /\ (f \o b)[n] = b[n - Len(f)])
    BY <1>1, <1>2
  <1>6. QED
    BY <1>1, <1>3, <1>4, <1>5

LEMMA NoKeys == Lists(<<>>, {})
  BY FS_EmptySet DEF Lists

LEMMA OneKey ==
  ASSUME MapOK, NEW p \in Occupants
  PROVE  Lists(<<Key(p)>>, {p})
  <1>1. Key(p) \in AnyKey /\ Key(p).idx = p
    BY DEF MapOK, Occupants, Positions, AnyKey, Key
  <1>2. <<Key(p)>> \in Seq(AnyKey) /\ Len(<<Key(p)>>) = 1 /\ <<Key(p)>>[1] = Key(p)
    BY <1>1
  <1>3. Cardinality({p}) = 1
    BY FS_Singleton
  <1>4. QED
    BY <1>1, <1>2, <1>3 DEF Lists

\* The keys of some slots, and then those of slots behind them.
LEMMA ListsJoin ==
  ASSUME NEW S, NEW T, IsFiniteSet(S), IsFiniteSet(T),
         \A s \in S, t \in T : s \in Nat /\ t \in Nat /\ s < t,
         NEW f, NEW b, Lists(f, S), Lists(b, T)
  PROVE  Lists(f \o b, S \union T)
  <1> DEFINE y == f \o b
  <1>1. f \in Seq(AnyKey) /\ b \in Seq(AnyKey)
    BY DEF Lists
  <1>2. /\ y \in Seq(AnyKey) /\ Len(y) = Len(f) + Len(b)
        /\ Len(f) \in Nat /\ Len(b) \in Nat
        /\ \A n \in 1 .. Len(f) : n \in 1 .. Len(y) /\ y[n] = f[n]
        /\ \A n \in 1 .. Len(b) : /\ Len(f) + n \in 1 .. Len(y) /\ y[Len(f) + n] = b[n]
        /\ \A n \in 1 .. Len(y) :
             n \in 1 .. Len(f) \/ (n - Len(f) \in 1 .. Len(b) /\ y[n] = b[n - Len(f)])
    BY <1>1, Joined
  <1> HIDE DEF y
  <1>3. Len(y) = Cardinality(S \union T)
    <2>1. S \intersect T = {}
      OBVIOUS
    <2>2. Cardinality(S \intersect T) = 0
      BY <2>1, FS_EmptySet
    <2>3. Cardinality(S \union T) = Cardinality(S) + Cardinality(T) - Cardinality(S \intersect T)
      BY FS_Union
    <2>4. QED
      BY <1>2, <2>2, <2>3, FS_CardinalityType DEF Lists
  <1>4. ASSUME NEW n \in 1 .. Len(y)
        PROVE  y[n].idx \in S \union T /\ y[n] = Key(y[n].idx)
    BY <1>2 DEF Lists
  <1>5. ASSUME NEW p \in S \union T
        PROVE  \E n \in 1 .. Len(y) : y[n] = Key(p)
    <2>1. CASE p \in S
      BY <1>2, <2>1 DEF Lists
    <2>2. CASE p \in T
      <3>1. PICK n \in 1 .. Len(b) : b[n] = Key(p)
        BY <2>2 DEF Lists
      <3>2. QED
        BY <1>2, <3>1
    <2>3. QED
      BY <2>1, <2>2
  <1>6. ASSUME NEW m \in 1 .. Len(y), NEW n \in 1 .. Len(y), m < n
        PROVE  y[m].idx < y[n].idx
    <2>1. CASE m \in 1 .. Len(f) /\ n \in 1 .. Len(f)
      BY <1>2, <1>6, <2>1 DEF Lists
    <2>2. CASE m \in 1 .. Len(f) /\ n \notin 1 .. Len(f)
      <3>1. y[m].idx \in S /\ y[n].idx \in T
        BY <1>2, <2>2 DEF Lists
      <3>2. QED
        BY <3>1
    <2>3. CASE m \notin 1 .. Len(f)
      <3>1. n \notin 1 .. Len(f)
        BY <1>2, <1>6, <2>3
      <3> DEFINE j == m - Len(f)
                 k == n - Len(f)
      <3>2. j \in 1 .. Len(b) /\ k \in 1 .. Len(b) /\ y[m] = b[j] /\ y[n] = b[k]
        BY <1>2, <2>3, <3>1
      <3>3. j < k
        BY <1>2, <1>6
      <3> HIDE DEF j, k
      <3>4. QED
        BY <3>2, <3>3 DEF Lists
    <2>4. QED
      BY <2>1, <2>2, <2>3
  <1>7. QED
    BY <1>2, <1>3, <1>4, <1>5, <1>6 DEF Lists, y

-----------------------------------------------------------------------------
(* The iterators over slots *)

Between(x, y) == {p \in Occupants : x <= p /\ p < y}
Below(x) == {p \in Occupants : p < x}
From(x) == {p \in Occupants : x <= p}

AnyIter == [front : Nat, back : Nat, remaining : Int]

\* An iterator with the ends and the count of it has yielded f and b.
Good(it, f, b) ==
  /\ it \in AnyIter /\ it.front <= it.back
  /\ kept => it.remaining = Cardinality(Between(it.front, it.back))
  /\ Lists(f, Below(it.front)) /\ Lists(b, From(it.back))

\* The iterator, and what it has yielded.
Is(i, it, f, b) == it = iters[i] /\ f = fronts[i] /\ b = backs[i]

IterInv ==
  /\ iters \in [Names -> AnyIter]
  /\ fronts \in [Names -> Seq(AnyKey)] /\ backs \in [Names -> Seq(AnyKey)]
  /\ \A i \in Names : \A it, f, b : Is(i, it, f, b) =>
       IF it # NoIter THEN Good(it, f, b) ELSE f = <<>> /\ b = <<>>

\* Sets of slots with a value.
LEMMA SlotSets ==
  ASSUME MapOK
  PROVE  /\ IsFiniteSet(Occupants) /\ Occupants \subseteq Nat /\ Cardinality(Occupants) \in Nat
         /\ \A S \in SUBSET Occupants : IsFiniteSet(S) /\ Cardinality(S) \in Nat
         /\ \A p \in Occupants : p \in Nat /\ p < slots_len
  <1>1. Occupants \subseteq 0 .. slots_len - 1 /\ slots_len \in Nat
    BY DEF MapOK, Occupants, Positions
  <1>2. IsFiniteSet(0 .. slots_len - 1)
    BY <1>1, FS_Interval
  <1>3. IsFiniteSet(Occupants) /\ \A S \in SUBSET Occupants : IsFiniteSet(S)
    BY <1>1, <1>2, FS_Subset
  <1>4. Occupants \subseteq Nat /\ \A p \in Occupants : p \in Nat /\ p < slots_len
    BY <1>1
  <1>5. QED
    BY <1>3, <1>4, FS_CardinalityType

\* On a map that stays as it is, one iterator is set and the others stay.
LEMMA SetsIter ==
  ASSUME MapOK, IterInv, slots' = slots, slots_len' = slots_len, kept' = kept,
         NEW i \in Names, NEW it, NEW f, NEW b, Good(it, f, b),
         iters' = [iters EXCEPT ![i] = it],
         fronts' = [fronts EXCEPT ![i] = f], backs' = [backs EXCEPT ![i] = b]
  PROVE  IterInv'
  <1>1. \A x, y, z : Good(x, y, z)' <=> Good(x, y, z)
    <2>1. Occupants' = Occupants /\ \A p : Key(p)' = Key(p)
      BY DEF Occupants, Positions, Occupied, Key
    <2>2. \A y, S : Lists(y, S)' <=> Lists(y, S)
      BY <2>1 DEF Lists
    <2>3. \A y, z : Between(y, z)' = Between(y, z) /\ Below(y)' = Below(y) /\ From(y)' = From(y)
      BY <2>1 DEF Between, Below, From
    <2>4. QED
      BY <2>2, <2>3 DEF Good
  <1>2. it # NoIter
    <2>1. NoIter.front = 1 /\ NoIter.back = 0 /\ it.front <= it.back
      BY DEF NoIter, Good
    <2>2. QED
      BY <2>1
  <1>3. /\ iters' \in [Names -> AnyIter]
        /\ fronts' \in [Names -> Seq(AnyKey)] /\ backs' \in [Names -> Seq(AnyKey)]
    BY DEF IterInv, Good, Lists
  <1>4. ASSUME NEW j \in Names, NEW x, NEW y, NEW z, Is(j, x, y, z)'
        PROVE  IF x # NoIter THEN Good(x, y, z)' ELSE y = <<>> /\ z = <<>>
    <2>1. CASE j = i
      <3>1. x = it /\ y = f /\ z = b
        BY <1>4, <2>1 DEF IterInv, Is
      <3>2. QED
        BY <1>1, <1>2, <3>1
    <2>2. CASE j # i
      <3>1. Is(j, x, y, z)
        BY <1>4, <2>2 DEF IterInv, Is
      <3>2. QED
        BY <1>1, <3>1 DEF IterInv
    <2>3. QED
      BY <2>1, <2>2
  <1>5. QED
    BY <1>3, <1>4 DEF IterInv

\* An iterator that is there.
LEMMA Live ==
  ASSUME MapOK, IterInv, NEW i \in Names, Exists(i)
  PROVE  /\ Good(iters[i], fronts[i], backs[i])
         /\ iters[i].front \in Nat /\ iters[i].back \in Nat /\ iters[i].remaining \in Int
         /\ Ahead(i) = Between(iters[i].front, iters[i].back)
  <1>1. Good(iters[i], fronts[i], backs[i])
    BY DEF IterInv, Is, Exists
  <1>2. QED
    BY <1>1 DEF Good, AnyIter, Ahead, Between

\* One of the slots ahead fewer.
LEMMA OneLess ==
  ASSUME MapOK, NEW n \in Int, NEW S \in SUBSET Occupants, NEW p \in S,
         kept => n = Cardinality(S)
  PROVE  decrement_len(n) \in Int /\ (kept => decrement_len(n) = Cardinality(S \ {p}))
  <1>1. Cardinality(S \ {p}) = Cardinality(S) - 1
    BY SlotSets, FS_RemoveElement
  <1>2. kept \in BOOLEAN
    BY DEF MapOK
  <1>3. QED
    BY <1>1, <1>2 DEF decrement_len

\* The count of an iterator that has passed one slot with a value.
LEMMA Counted ==
  ASSUME MapOK, NEW it, NEW f, NEW b, Good(it, f, b), NEW p \in Between(it.front, it.back)
  PROVE  /\ decrement_len(it.remaining) \in Int
         /\ kept => decrement_len(it.remaining) = Cardinality(Between(it.front, it.back) \ {p})
  <1> DEFINE S == Between(it.front, it.back)
             n == it.remaining
  <1>1. S \in SUBSET Occupants /\ p \in S /\ n \in Int /\ (kept => n = Cardinality(S))
    BY DEF Good, AnyIter, Between
  <1> HIDE DEF S, n
  <1>2. decrement_len(n) \in Int /\ (kept => decrement_len(n) = Cardinality(S \ {p}))
    BY <1>1, OneLess
  <1>3. QED
    BY <1>2 DEF S, n

LEMMA StartKeeps ==
  ASSUME MapOK, IterInv, NEW i \in Names, Start(i)
  PROVE  IterInv'
  <1> DEFINE it == [front |-> 0, back |-> slots_len,
                    remaining |-> IF kept THEN Cardinality(Occupants) ELSE 0]
             f == fronts[i]
             b == backs[i]
  <1>1. /\ iters' = [iters EXCEPT ![i] = it] /\ fronts' = fronts /\ backs' = backs
        /\ slots' = slots /\ slots_len' = slots_len /\ kept' = kept
    BY DEF Start, history
  <1>2. fronts[i] = <<>> /\ backs[i] = <<>>
    BY DEF Start, Exists, IterInv, Is
  <1>3. Between(0, slots_len) = Occupants /\ Below(0) = {} /\ From(slots_len) = {}
    BY SlotSets DEF MapOK, Between, Below, From
  <1>4. Good(it, f, b)
    <2>1. Lists(f, Below(0)) /\ Lists(b, From(slots_len))
      BY <1>2, <1>3, NoKeys
    <2>2. it \in AnyIter /\ it.front <= it.back
      BY SlotSets DEF MapOK, AnyIter
    <2>3. kept => it.remaining = Cardinality(Between(0, slots_len))
      BY <1>3
    <2>4. QED
      BY <2>1, <2>2, <2>3 DEF Good
  <1>5. fronts' = [fronts EXCEPT ![i] = f] /\ backs' = [backs EXCEPT ![i] = b]
    BY <1>1 DEF IterInv
  <1> HIDE DEF it, f, b
  <1>6. QED
    BY <1>1, <1>4, <1>5, SetsIter

LEMMA NextKeeps ==
  ASSUME MapOK, IterInv, NEW i \in Names, Next(i)
  PROVE  IterInv'
  <1>1. PICK p \in Ahead(i) :
          /\ \A q \in Ahead(i) : p <= q
          /\ iters' = [iters EXCEPT ![i].front = p + 1, ![i].remaining = decrement_len(@)]
          /\ fronts' = [fronts EXCEPT ![i] = Append(@, Key(p))]
    BY DEF Next
  <1>2. backs' = backs /\ slots' = slots /\ slots_len' = slots_len /\ kept' = kept
    BY DEF Next
  <1> DEFINE x == iters[i]
             f == fronts[i]
             b == backs[i]
             it == [front |-> p + 1, back |-> x.back, remaining |-> decrement_len(x.remaining)]
  <1>3. /\ Good(x, f, b) /\ x.front \in Nat /\ x.back \in Nat /\ x.remaining \in Int
        /\ Ahead(i) = Between(x.front, x.back)
    BY Live DEF Next
  <1>4. p \in Occupants /\ p \in Nat /\ x.front <= p /\ p < x.back
    BY <1>1, <1>3, SlotSets DEF Between
  <1>5. iters' = [iters EXCEPT ![i] = it]
    <2>1. x = [front |-> x.front, back |-> x.back, remaining |-> x.remaining]
      BY <1>3 DEF Good, AnyIter
    <2> DEFINE y == [x EXCEPT !.front = p + 1]
    <2>2. iters' = [iters EXCEPT ![i] = [y EXCEPT !.remaining = decrement_len(x.remaining)]]
      BY <1>1, <1>3 DEF IterInv, Good, AnyIter
    <2>3. y = [front |-> p + 1, back |-> x.back, remaining |-> x.remaining]
      BY <2>1
    <2> HIDE DEF y
    <2>4. [y EXCEPT !.remaining = decrement_len(x.remaining)] = it
      BY <2>3
    <2>5. QED
      BY <2>2, <2>4
  <1>6. fronts' = [fronts EXCEPT ![i] = Append(f, Key(p))] /\ backs' = [backs EXCEPT ![i] = b]
    BY <1>1, <1>2 DEF IterInv
  <1>7. Between(p + 1, x.back) = Between(x.front, x.back) \ {p}
    <2>1. \A q \in Occupants : q \in Nat /\ (x.front <= q /\ q < x.back => p <= q)
      BY <1>1, <1>3, SlotSets DEF Between
    <2>2. ASSUME NEW q \in Occupants
          PROVE  p + 1 <= q /\ q < x.back <=> x.front <= q /\ q < x.back /\ q # p
      BY <1>3, <1>4, <2>1
    <2>3. QED
      BY <1>4, <2>2 DEF Between
  <1>8. Below(p + 1) = Below(x.front) \union {p}
    <2>1. \A q \in Occupants : q \in Nat /\ (x.front <= q /\ q < x.back => p <= q)
      BY <1>1, <1>3, SlotSets DEF Between
    <2>2. ASSUME NEW q \in Occupants PROVE q < p + 1 <=> q < x.front \/ q = p
      BY <1>3, <1>4, <2>1
    <2>3. QED
      BY <1>4, <2>2 DEF Below
  <1>9. Lists(Append(f, Key(p)), Below(x.front) \union {p})
    <2>1. Lists(f, Below(x.front)) /\ Lists(<<Key(p)>>, {p})
      BY <1>3, <1>4, OneKey DEF Good
    <2>2. Append(f, Key(p)) = f \o <<Key(p)>>
      <3>1. f \in Seq(AnyKey) /\ <<Key(p)>> \in Seq(AnyKey)
        BY <2>1 DEF Lists
      <3>2. Key(p) \in AnyKey
        BY <1>4 DEF MapOK, AnyKey, Key, Occupants
      <3>3. QED
        BY <3>1, <3>2, AppendIsConcat
    <2>3. Below(x.front) \subseteq Occupants /\ \A s \in Below(x.front) : s \in Nat /\ s < p
      BY <1>3, <1>4, SlotSets DEF Below
    <2>4. IsFiniteSet(Below(x.front)) /\ IsFiniteSet({p})
      BY <2>3, SlotSets, FS_Singleton
    <2>5. QED
      BY <1>4, <2>1, <2>2, <2>3, <2>4, ListsJoin
  <1>10. p \in Between(x.front, x.back)
    BY <1>1, <1>3 DEF Between
  <1>11. Good(it, Append(f, Key(p)), b)
    <2>1. /\ decrement_len(x.remaining) \in Int
          /\ kept => decrement_len(x.remaining) = Cardinality(Between(p + 1, x.back))
      BY <1>3, <1>7, <1>10, Counted
    <2>2. p + 1 \in Nat /\ p + 1 <= x.back
      BY <1>3, <1>4
    <2>3. QED
      BY <1>3, <1>8, <1>9, <2>1, <2>2 DEF Good, AnyIter
  <1> HIDE DEF it, f, b
  <1>12. QED
    BY <1>2, <1>5, <1>6, <1>11, SetsIter

LEMMA NextBackKeeps ==
  ASSUME MapOK, IterInv, NEW i \in Names, NextBack(i)
  PROVE  IterInv'
  <1>1. PICK p \in Ahead(i) :
          /\ \A q \in Ahead(i) : p >= q
          /\ iters' = [iters EXCEPT ![i].back = p, ![i].remaining = decrement_len(@)]
          /\ backs' = [backs EXCEPT ![i] = <<Key(p)>> \o @]
    BY DEF NextBack
  <1>2. fronts' = fronts /\ slots' = slots /\ slots_len' = slots_len /\ kept' = kept
    BY DEF NextBack
  <1> DEFINE x == iters[i]
             f == fronts[i]
             b == backs[i]
             it == [front |-> x.front, back |-> p, remaining |-> decrement_len(x.remaining)]
  <1>3. /\ Good(x, f, b) /\ x.front \in Nat /\ x.back \in Nat /\ x.remaining \in Int
        /\ Ahead(i) = Between(x.front, x.back)
    BY Live DEF NextBack
  <1>4. p \in Occupants /\ p \in Nat /\ x.front <= p /\ p < x.back
    BY <1>1, <1>3, SlotSets DEF Between
  <1>5. iters' = [iters EXCEPT ![i] = it]
    <2>1. x = [front |-> x.front, back |-> x.back, remaining |-> x.remaining]
      BY <1>3 DEF Good, AnyIter
    <2> DEFINE y == [x EXCEPT !.back = p]
    <2>2. iters' = [iters EXCEPT ![i] = [y EXCEPT !.remaining = decrement_len(x.remaining)]]
      BY <1>1, <1>3 DEF IterInv, Good, AnyIter
    <2>3. y = [front |-> x.front, back |-> p, remaining |-> x.remaining]
      BY <2>1
    <2> HIDE DEF y
    <2>4. [y EXCEPT !.remaining = decrement_len(x.remaining)] = it
      BY <2>3
    <2>5. QED
      BY <2>2, <2>4
  <1>6. fronts' = [fronts EXCEPT ![i] = f] /\ backs' = [backs EXCEPT ![i] = <<Key(p)>> \o b]
    BY <1>1, <1>2 DEF IterInv
  <1>7. Between(x.front, p) = Between(x.front, x.back) \ {p}
    <2>1. \A q \in Occupants : q \in Nat /\ (x.front <= q /\ q < x.back => p >= q)
      BY <1>1, <1>3, SlotSets DEF Between
    <2>2. ASSUME NEW q \in Occupants
          PROVE  x.front <= q /\ q < p <=> x.front <= q /\ q < x.back /\ q # p
      BY <1>3, <1>4, <2>1
    <2>3. QED
      BY <1>4, <2>2 DEF Between
  <1>8. From(p) = {p} \union From(x.back)
    <2>1. \A q \in Occupants : q \in Nat /\ (x.front <= q /\ q < x.back => p >= q)
      BY <1>1, <1>3, SlotSets DEF Between
    <2>2. ASSUME NEW q \in Occupants PROVE p <= q <=> x.back <= q \/ q = p
      BY <1>3, <1>4, <2>1
    <2>3. QED
      BY <1>4, <2>2 DEF From
  <1>9. Lists(<<Key(p)>> \o b, {p} \union From(x.back))
    <2>1. Lists(b, From(x.back)) /\ Lists(<<Key(p)>>, {p})
      BY <1>3, <1>4, OneKey DEF Good
    <2>2. From(x.back) \subseteq Occupants /\ \A s \in From(x.back) : s \in Nat /\ p < s
      <3>1. ASSUME NEW s \in Occupants, x.back <= s PROVE s \in Nat /\ p < s
        BY <1>3, <1>4, <3>1, SlotSets
      <3>2. QED
        BY <3>1 DEF From
    <2>3. IsFiniteSet(From(x.back)) /\ IsFiniteSet({p})
      BY <2>2, SlotSets, FS_Singleton
    <2>4. QED
      BY <1>4, <2>1, <2>2, <2>3, ListsJoin
  <1>10. p \in Between(x.front, x.back)
    BY <1>1, <1>3 DEF Between
  <1>11. Good(it, f, <<Key(p)>> \o b)
    <2>1. /\ decrement_len(x.remaining) \in Int
          /\ kept => decrement_len(x.remaining) = Cardinality(Between(x.front, p))
      BY <1>3, <1>7, <1>10, Counted
    <2>2. p \in Nat /\ x.front <= p
      BY <1>3, <1>4
    <2>3. QED
      BY <1>3, <1>8, <1>9, <2>1, <2>2 DEF Good, AnyIter
  <1> HIDE DEF it, f, b
  <1>12. QED
    BY <1>2, <1>5, <1>6, <1>11, SetsIter

\* An iterator that finds no slot ahead has its ends meet and yields nothing.
LEMMA NonePassed ==
  ASSUME MapOK, IterInv, NEW i \in Names, Exists(i), Ahead(i) = {}, NEW n \in Nat,
         n = iters[i].front \/ n = iters[i].back, UNCHANGED <<slots, slots_len, kept, history>>,
         NEW it, it = [front |-> n, back |-> n, remaining |-> iters[i].remaining],
         iters' = [iters EXCEPT ![i] = it]
  PROVE  IterInv'
  <1> DEFINE x == iters[i]
             f == fronts[i]
             b == backs[i]
  <1>1. /\ Good(x, f, b) /\ x.front \in Nat /\ x.back \in Nat /\ x.remaining \in Int
        /\ Between(x.front, x.back) = {}
    BY Live
  <1>2. Between(n, n) = {} /\ Below(n) = Below(x.front) /\ From(n) = From(x.back)
    <2>1. \A q \in Occupants : q \in Nat /\ ~(x.front <= q /\ q < x.back)
      BY <1>1, SlotSets DEF Between
    <2>2. x.front <= x.back
      BY <1>1 DEF Good
    <2>3. ASSUME NEW q \in Occupants
          PROVE  ~(n <= q /\ q < n) /\ (q < n <=> q < x.front) /\ (n <= q <=> x.back <= q)
      BY <1>1, <2>1, <2>2
    <2>4. QED
      BY <2>3 DEF Between, Below, From
  <1>3. Good(it, f, b)
    BY <1>1, <1>2 DEF Good, AnyIter
  <1>4. /\ fronts' = [fronts EXCEPT ![i] = f] /\ backs' = [backs EXCEPT ![i] = b]
        /\ slots' = slots /\ slots_len' = slots_len /\ kept' = kept
    BY DEF IterInv, history
  <1> HIDE DEF f, b
  <1>5. QED
    BY <1>3, <1>4, SetsIter

LEMMA NoneKeeps ==
  ASSUME MapOK, IterInv, NEW i \in Names, NextNone(i) \/ NextBackNone(i)
  PROVE  IterInv'
  <1> DEFINE x == iters[i]
  <1>1. /\ Exists(i) /\ Ahead(i) = {} /\ UNCHANGED <<slots, slots_len, kept, history>>
        /\ x \in AnyIter /\ x.front \in Nat /\ x.back \in Nat
    BY Live DEF NextNone, NextBackNone, Good
  <1>2. \A n : /\ [x EXCEPT !.front = n] = [front |-> n, back |-> x.back, remaining |-> x.remaining]
               /\ [x EXCEPT !.back = n] = [front |-> x.front, back |-> n, remaining |-> x.remaining]
    BY <1>1 DEF AnyIter
  <1>3. CASE NextNone(i)
    <2> DEFINE n == x.back
               it == [front |-> n, back |-> n, remaining |-> x.remaining]
    <2>1. iters' = [iters EXCEPT ![i] = [x EXCEPT !.front = n]]
      BY <1>3 DEF NextNone, IterInv
    <2>2. iters' = [iters EXCEPT ![i] = it] /\ n \in Nat
      BY <1>1, <1>2, <2>1
    <2> HIDE DEF it
    <2>3. QED
      BY <1>1, <2>2, NonePassed DEF it
  <1>4. CASE NextBackNone(i)
    <2> DEFINE n == x.front
               it == [front |-> n, back |-> n, remaining |-> x.remaining]
    <2>1. iters' = [iters EXCEPT ![i] = [x EXCEPT !.back = n]]
      BY <1>4 DEF NextBackNone, IterInv
    <2>2. iters' = [iters EXCEPT ![i] = it] /\ n \in Nat
      BY <1>1, <1>2, <2>1
    <2> HIDE DEF it
    <2>3. QED
      BY <1>1, <2>2, NonePassed DEF it
  <1>5. QED
    BY <1>3, <1>4

LEMMA CloneKeeps ==
  ASSUME MapOK, IterInv, NEW i \in Names, NEW j \in Names, Clone(i, j)
  PROVE  IterInv'
  <1> DEFINE it == iters[i]
             f == fronts[i]
             b == backs[i]
  <1>1. Good(it, f, b)
    BY Live DEF Clone
  <1>2. /\ iters' = [iters EXCEPT ![j] = it] /\ fronts' = [fronts EXCEPT ![j] = f]
        /\ backs' = [backs EXCEPT ![j] = b]
        /\ slots' = slots /\ slots_len' = slots_len /\ kept' = kept
    BY DEF Clone
  <1> HIDE DEF it, f, b
  <1>3. QED
    BY <1>1, <1>2, SetsIter

LEMMA StepIter ==
  ASSUME MapOK, IterInv, [BorrowsNext]_<<vars, disjoint_vars, pair_iter_vars>>
  PROVE  IterInv'
  <1>1. CASE Step
    BY <1>1, StartKeeps, NextKeeps, NextBackKeeps, NoneKeeps, CloneKeeps DEF Step
  <1>2. CASE UNCHANGED <<iters, history>>
    <2>1. slots' = slots /\ slots_len' = slots_len /\ kept' = kept
      BY SameMap
    <2>2. Occupants' = Occupants /\ \A p : Key(p)' = Key(p)
      BY <2>1 DEF Occupants, Positions, Occupied, Key
    <2>3. \A y, S : Lists(y, S)' <=> Lists(y, S)
      BY <2>2 DEF Lists
    <2>4. \A y, z : Between(y, z)' = Between(y, z) /\ Below(y)' = Below(y) /\ From(y)' = From(y)
      BY <2>2 DEF Between, Below, From
    <2>5. \A x, y, z : Good(x, y, z)' <=> Good(x, y, z)
      BY <2>1, <2>3, <2>4 DEF Good
    <2>6. QED
      BY <1>2, <2>5 DEF IterInv, Is, history
  <1>3. QED
    BY <1>1, <1>2 DEF BorrowsNext, SlotIterStep, PairIterStep, DisjointStep, GetDisjointMut,
                      GetDisjointMutAt, HashMapMisses, Return, vars

\* A set of three parts.
LEMMA ThreeParts ==
  ASSUME NEW V, NEW S, NEW T, NEW A, IsFiniteSet(S), IsFiniteSet(T), IsFiniteSet(A),
         S \union T = V \ A, S \intersect T = {}, A \subseteq V
  PROVE  Cardinality(V) = Cardinality(S) + Cardinality(T) + Cardinality(A)
  <1> DEFINE U == S \union T
  <1>1. /\ IsFiniteSet(U)
        /\ Cardinality(U) = Cardinality(S) + Cardinality(T) - Cardinality(S \intersect T)
    BY FS_Union
  <1>2. V = U \union A /\ U \intersect A = {}
    OBVIOUS
  <1> HIDE DEF U
  <1>3. Cardinality(V) = Cardinality(U) + Cardinality(A) - Cardinality(U \intersect A)
    BY <1>1, <1>2, FS_Union
  <1>4. Cardinality(S \intersect T) = 0 /\ Cardinality(U \intersect A) = 0
    BY <1>2, FS_EmptySet, Zenon
  <1>5. Cardinality(S) \in Nat /\ Cardinality(T) \in Nat /\ Cardinality(A) \in Nat
    BY FS_CardinalityType
  <1>6. Cardinality(U) = Cardinality(S) + Cardinality(T)
    BY <1>1, <1>4, <1>5
  <1>7. QED
    BY <1>2, <1>3, <1>4, <1>5, <1>6

LEMMA InRange ==
  ASSUME NEW m \in Nat, NEW n \in Nat, m <= n, NEW A, A \subseteq Nat,
         \A q \in A : m <= q /\ q < n
  PROVE  Cardinality(A) <= n - m
  <1> DEFINE I == m .. n - 1
  <1>1. IsFiniteSet(I) /\ Cardinality(I) \in Nat /\ Cardinality(I) <= n - m
    <2>1. n - 1 \in Int /\ (m > n - 1 => n - m = 0) /\ n - 1 - m + 1 = n - m
      OBVIOUS
    <2>2. IsFiniteSet(I) /\ Cardinality(I) = IF m > n - 1 THEN 0 ELSE n - 1 - m + 1
      BY <2>1, FS_Interval
    <2>3. QED
      BY <2>1, <2>2
  <1>2. A \subseteq I
    OBVIOUS
  <1> HIDE DEF I
  <1>3. Cardinality(A) \in Nat /\ Cardinality(A) <= Cardinality(I)
    BY <1>1, <1>2, FS_Subset, FS_CardinalityType
  <1>4. QED
    BY <1>1, <1>3

\* An iterator that is there has yielded what is not ahead of it.
LEMMA Yields ==
  ASSUME MapOK, IterInv, NEW i \in Names, Exists(i)
  PROVE  /\ Lists(fronts[i] \o backs[i], Occupants \ Ahead(i))
         /\ Len(fronts[i]) + Len(backs[i]) + Cardinality(Ahead(i)) = Cardinality(Occupants)
         /\ Len(fronts[i]) \in Nat /\ Len(backs[i]) \in Nat /\ Cardinality(Ahead(i)) \in Nat
         /\ Cardinality(Ahead(i)) <= iters[i].back - iters[i].front
  <1> DEFINE f == fronts[i]
             b == backs[i]
             x == iters[i]
             S == Below(x.front)
             T == From(x.back)
             A == Ahead(i)
  <1>1. /\ Lists(f, S) /\ Lists(b, T) /\ A = Between(x.front, x.back)
        /\ x.front \in Nat /\ x.back \in Nat /\ x.front <= x.back
    BY Live DEF Good
  <1>2. ASSUME NEW q \in Occupants
        PROVE  /\ q \in S <=> q < x.front
               /\ q \in T <=> x.back <= q
               /\ q \in A <=> x.front <= q /\ q < x.back
    BY <1>1 DEF Below, From, Between
  <1>3. S \subseteq Occupants /\ T \subseteq Occupants /\ A \subseteq Occupants
    BY <1>1 DEF Below, From, Between
  <1>4. ASSUME NEW q \in Occupants
        PROVE  /\ q \in S \union T <=> q \notin A
               /\ ~(q \in S /\ q \in T)
    BY <1>1, <1>2, SlotSets
  <1>5. S \union T = Occupants \ A /\ S \intersect T = {}
    BY <1>3, <1>4
  <1>6. \A s \in S, t \in T : s \in Nat /\ t \in Nat /\ s < t
    <2>1. ASSUME NEW s \in S, NEW t \in T PROVE s \in Nat /\ t \in Nat /\ s < t
      <3>1. s \in Nat /\ t \in Nat /\ s < x.front /\ x.back <= t
        BY <1>2, <1>3, SlotSets
      <3>2. QED
        BY <1>1, <3>1
    <2>2. QED
      BY <2>1
  <1>7. /\ IsFiniteSet(S) /\ IsFiniteSet(T) /\ IsFiniteSet(A) /\ IsFiniteSet(Occupants)
        /\ Cardinality(S) \in Nat /\ Cardinality(T) \in Nat /\ Cardinality(A) \in Nat
    BY <1>3, SlotSets
  <1>10. Lists(f \o b, Occupants \ A)
    BY <1>1, <1>5, <1>6, <1>7, ListsJoin
  <1>11. Len(f) = Cardinality(S) /\ Len(b) = Cardinality(T)
    BY <1>1 DEF Lists
  <1> HIDE DEF S, T, A, f, b
  <1>8. Cardinality(Occupants) = Cardinality(S) + Cardinality(T) + Cardinality(A)
    BY <1>3, <1>5, <1>7, ThreeParts
  <1>9. Cardinality(A) <= x.back - x.front
    BY <1>1, <1>2, <1>3, SlotSets, InRange
  <1>12. Len(f) + Len(b) + Cardinality(A) = Cardinality(Occupants)
    BY <1>7, <1>8, <1>11
  <1>13. QED
    BY <1>7, <1>9, <1>10, <1>11, <1>12 DEF f, b, A

\* What came from the two ends together is all that is not ahead, in order.
LEMMA InvYields == MapOK /\ IterInv => YieldsEachOnce
  <1> SUFFICES ASSUME MapOK, IterInv, NEW i \in Names, Exists(i)
               PROVE  LET y == fronts[i] \o backs[i]
                      IN  /\ \A m, n \in 1 .. Len(y) : m < n => y[m].idx < y[n].idx
                          /\ \A n \in 1 .. Len(fronts[i]) : fronts[i][n].idx < iters[i].front
                          /\ \A n \in 1 .. Len(backs[i]) : backs[i][n].idx >= iters[i].back
                          /\ {y[n] : n \in 1 .. Len(y)} = {Key(p) : p \in Occupants \ Ahead(i)}
    BY DEF YieldsEachOnce
  <1> DEFINE y == fronts[i] \o backs[i]
             S == Occupants \ Ahead(i)
  <1>1. Lists(y, S)
    BY Yields
  <1>2. Lists(fronts[i], Below(iters[i].front)) /\ Lists(backs[i], From(iters[i].back))
    BY Live DEF Good
  <1>3. \A n \in 1 .. Len(fronts[i]) : fronts[i][n].idx < iters[i].front
    BY <1>2 DEF Lists, Below
  <1>4. \A n \in 1 .. Len(backs[i]) : backs[i][n].idx >= iters[i].back
    <2>1. ASSUME NEW n \in 1 .. Len(backs[i])
          PROVE  /\ backs[i][n].idx \in Occupants /\ iters[i].back <= backs[i][n].idx
      BY <1>2 DEF Lists, From
    <2>2. \A p \in Occupants : p \in Nat
      BY SlotSets
    <2>3. QED
      BY <2>1, <2>2, Live
  <1> HIDE DEF y, S
  <1>5. {y[n] : n \in 1 .. Len(y)} = {Key(p) : p \in S}
    BY <1>1 DEF Lists
  <1>6. \A m, n \in 1 .. Len(y) : m < n => y[m].idx < y[n].idx
    BY <1>1 DEF Lists
  <1>7. QED
    BY <1>3, <1>4, <1>5, <1>6 DEF y, S

\* The count, or the distance of the ends, against what is still to come.
LEMMA InvHints == MapOK /\ IterInv => SizeHintHolds
  <1> SUFFICES ASSUME MapOK, IterInv, NEW i \in Names, Exists(i)
               PROVE  LET left == Cardinality(Occupants) - Len(fronts[i]) - Len(backs[i])
                      IN  Lower(i) <= left /\ left <= Upper(i)
    BY DEF SizeHintHolds
  <1> DEFINE left == Cardinality(Occupants) - Len(fronts[i]) - Len(backs[i])
             c == Cardinality(Ahead(i))
  <1>1. left = c /\ c \in Nat /\ c <= iters[i].back - iters[i].front
    <2>1. Cardinality(Occupants) \in Nat
      BY SlotSets
    <2> DEFINE N == Cardinality(Occupants)
               m == Len(fronts[i])
               n == Len(backs[i])
    <2>2. m + n + c = N /\ m \in Nat /\ n \in Nat /\ c \in Nat /\ N \in Nat
          /\ c <= iters[i].back - iters[i].front
      BY <2>1, Yields
    <2> HIDE DEF N, m, n, c
    <2>3. N - m - n = c
      BY <2>2
    <2>4. QED
      BY <2>2, <2>3 DEF N, m, n
  <1>2. kept => iters[i].remaining = c
    BY Live DEF Good
  <1> HIDE DEF left, c
  <1>3. Lower(i) <= c /\ c <= Upper(i)
    <2>1. CASE kept
      BY <1>1, <1>2, <2>1 DEF Lower, Upper
    <2>2. CASE ~kept
      BY <1>1, <2>2 DEF Lower, Upper
    <2>3. QED
      BY <2>1, <2>2
  <1>4. QED
    BY <1>1, <1>3 DEF left

-----------------------------------------------------------------------------
(* The iterators over pairs *)

\* The pairs from position a to before b, each the position of its key and that
\* of its value.
Run(a, b) == [n \in 1 .. b - a |-> <<a + n - 1, a + n - 1>>]

\* Two slice iterators at the same positions.
SideBySide(a, b) == [keys |-> [front |-> a, back |-> b], values |-> [front |-> a, back |-> b]]
Gone(f, b) == [fronts |-> f, backs |-> b]

AnyRun == Seq(Nat \X Nat)

\* An iterator with the slices s has yielded y, of n pairs.
GoodPair(s, y, n) ==
  \E a, b \in 0 .. n : a <= b /\ s = SideBySide(a, b) /\ y = Gone(Run(0, a), Run(b, n))

IsPair(i, s, y) == s = pair_slices[i] /\ y = yielded[i]

PairInv ==
  /\ pair_slices \in [Names -> {SideBySide(a, b) : a, b \in Nat}]
  /\ yielded \in [Names -> {Gone(f, b) : f, b \in AnyRun}]
  /\ \A i \in Names : \A s, y : IsPair(i, s, y) =>
       \/ s = SideBySide(1, 0) /\ y = Gone(<<>>, <<>>)
       \/ GoodPair(s, y, Cardinality(Occupants))

LEMMA IsSequence ==
  ASSUME NEW S, NEW n \in Nat, NEW f \in [1 .. n -> S]
  PROVE  f \in Seq(S) /\ Len(f) = n
  OBVIOUS

\* A run has one pair for each of its positions.
LEMMA Runs ==
  ASSUME NEW a \in Nat, NEW b \in Nat, a <= b
  PROVE  Run(a, b) \in AnyRun /\ Len(Run(a, b)) = b - a
  <1>1. b - a \in Nat
    OBVIOUS
  <1>2. ASSUME NEW n \in 1 .. b - a PROVE <<a + n - 1, a + n - 1>> \in Nat \X Nat
    <2>1. a + n - 1 \in Nat
      OBVIOUS
    <2>2. QED
      BY <2>1
  <1>3. Run(a, b) \in [1 .. b - a -> Nat \X Nat]
    BY <1>2 DEF Run
  <1> DEFINE r == Run(a, b)
             m == b - a
             P == Nat \X Nat
  <1>4. m \in Nat /\ r \in [1 .. m -> P]
    BY <1>1, <1>3
  <1> HIDE DEF r, m, P
  <1>5. r \in Seq(P) /\ Len(r) = m
    BY <1>4, IsSequence
  <1>6. QED
    BY <1>5 DEF r, m, P, AnyRun

LEMMA NoRun == \A a \in Nat : Run(a, a) = <<>>
  <1> SUFFICES ASSUME NEW a \in Nat PROVE Run(a, a) = <<>>
    OBVIOUS
  <1>1. Run(a, a) \in AnyRun /\ Len(Run(a, a)) = 0
    BY Runs
  <1>2. QED
    BY <1>1 DEF AnyRun

\* next: the run before the slices gets longer by the pair in front.
LEMMA RunAppend ==
  ASSUME NEW a \in Nat
  PROVE  Append(Run(0, a), <<a, a>>) = Run(0, a + 1)
  <1> DEFINE r == Run(0, a)
             s == Append(r, <<a, a>>)
             t == Run(0, a + 1)
  <1>1. /\ r \in AnyRun /\ Len(r) = a /\ t \in AnyRun /\ Len(t) = a + 1
        /\ <<a, a>> \in Nat \X Nat
    <2>1. 0 \in Nat /\ a + 1 \in Nat /\ 0 <= a /\ 0 <= a + 1 /\ a - 0 = a /\ a + 1 - 0 = a + 1
      OBVIOUS
    <2>2. /\ r \in AnyRun /\ Len(r) = a - 0
          /\ t \in AnyRun /\ Len(t) = a + 1 - 0
      <3> DEFINE m == a + 1
      <3>1. m \in Nat /\ 0 <= m
        BY <2>1
      <3> HIDE DEF m
      <3>2. Run(0, m) \in AnyRun /\ Len(Run(0, m)) = m - 0
        BY <2>1, <3>1, Runs
      <3>3. Run(0, a) \in AnyRun /\ Len(Run(0, a)) = a - 0
        BY <2>1, Runs
      <3>4. QED
        BY <3>2, <3>3 DEF m
    <2>3. QED
      BY <2>1, <2>2, Zenon DEF AnyRun
  <1>2. /\ \A n \in 1 .. a : r[n] = <<n - 1, n - 1>>
        /\ \A n \in 1 .. a + 1 : t[n] = <<n - 1, n - 1>>
    BY DEF Run
  <1> HIDE DEF r, t
  <1>3. /\ s \in AnyRun /\ Len(s) = a + 1 /\ s[a + 1] = <<a, a>>
        /\ \A n \in 1 .. a : s[n] = r[n]
    BY <1>1 DEF AnyRun
  <1> HIDE DEF s
  <1>4. ASSUME NEW n \in 1 .. a + 1 PROVE s[n] = t[n]
    <2>1. CASE n = a + 1
      <3>1. n - 1 = a
        BY <2>1
      <3>2. QED
        BY <1>2, <1>3, <2>1, <3>1
    <2>2. CASE n # a + 1
      <3>1. n \in 1 .. a
        BY <2>2
      <3>2. QED
        BY <1>2, <1>3, <3>1
    <2>3. QED
      BY <2>1, <2>2
  <1>5. s = t
    BY <1>1, <1>3, <1>4, SeqEqual DEF AnyRun
  <1>6. QED
    BY <1>5 DEF r, s, t

\* next_back: the run behind them by the last pair.
LEMMA RunPrepend ==
  ASSUME NEW b \in Nat, NEW n \in Nat, b < n
  PROVE  <<<<b, b>>>> \o Run(b + 1, n) = Run(b, n)
  <1> DEFINE o == <<<<b, b>>>>
             r == Run(b + 1, n)
             s == o \o r
             t == Run(b, n)
  <1>1. r \in AnyRun /\ Len(r) = n - b - 1 /\ t \in AnyRun /\ Len(t) = n - b
    <2>1. b + 1 \in Nat /\ b + 1 <= n /\ n - (b + 1) = n - b - 1
      OBVIOUS
    <2>2. /\ r \in AnyRun /\ Len(r) = n - (b + 1)
          /\ t \in AnyRun /\ Len(t) = n - b
      <3>1. b <= n
        OBVIOUS
      <3>2. QED
        BY <2>1, <3>1, Runs, Zenon
    <2>3. QED
      BY <2>1, <2>2
  <1>2. o \in AnyRun /\ Len(o) = 1 /\ o[1] = <<b, b>>
    BY DEF AnyRun
  <1>3. /\ \A k \in 1 .. n - (b + 1) : r[k] = <<b + 1 + k - 1, b + 1 + k - 1>>
        /\ \A k \in 1 .. n - b : t[k] = <<b + k - 1, b + k - 1>>
    BY DEF Run
  <1> HIDE DEF o, r, t
  <1>4. /\ s \in AnyRun /\ Len(s) = 1 + Len(r)
        /\ \A k \in 1 .. 1 + Len(r) : s[k] = IF k <= 1 THEN o[k] ELSE r[k - 1]
    <2> DEFINE P == Nat \X Nat
    <2>1. o \in Seq(P) /\ r \in Seq(P)
      BY <1>1, <1>2 DEF AnyRun
    <2> HIDE DEF P
    <2>2. /\ s \in Seq(P) /\ Len(s) = Len(o) + Len(r)
          /\ \A k \in 1 .. Len(o) + Len(r) : s[k] = IF k <= Len(o) THEN o[k] ELSE r[k - Len(o)]
      BY <2>1
    <2>3. QED
      BY <1>2, <2>2 DEF P, AnyRun
  <1> HIDE DEF s
  <1>5. ASSUME NEW k \in 1 .. n - b PROVE s[k] = t[k]
    <2>1. CASE k = 1
      <3>1. b + k - 1 = b /\ k \in 1 .. 1 + Len(r) /\ k <= 1
        BY <1>1, <2>1
      <3>2. QED
        BY <1>2, <1>3, <1>4, <2>1, <3>1
    <2>2. CASE k # 1
      <3> DEFINE j == k - 1
      <3>1. j \in 1 .. n - (b + 1) /\ b + 1 + j - 1 = b + k - 1
            /\ k \in 1 .. 1 + Len(r) /\ ~(k <= 1)
        BY <1>1, <2>2
      <3>2. s[k] = r[j]
        BY <1>4, <3>1
      <3>3. r[j] = <<b + 1 + j - 1, b + 1 + j - 1>>
        BY <1>3, <3>1
      <3> HIDE DEF j
      <3>4. QED
        BY <1>3, <3>1, <3>2, <3>3
    <2>3. QED
      BY <2>1, <2>2
  <1>6. Len(s) = n - b
    BY <1>1, <1>4
  <1>7. s = t
    BY <1>1, <1>4, <1>5, <1>6, SeqEqual DEF AnyRun
  <1>8. QED
    BY <1>7 DEF o, r, s, t

LEMMA InitPair == BorrowsInit => PairInv
  <1> SUFFICES ASSUME BorrowsInit PROVE PairInv
    OBVIOUS
  <1>1. /\ pair_slices = [i \in Names |-> SideBySide(1, 0)]
        /\ yielded = [i \in Names |-> Gone(<<>>, <<>>)]
    BY DEF BorrowsInit, PairIter!Init, PairIter!NoSlices, SideBySide, Gone
  <1>2. /\ Gone(<<>>, <<>>) \in {Gone(f, b) : f, b \in AnyRun}
        /\ SideBySide(1, 0) \in {SideBySide(a, b) : a, b \in Nat}
    <2>1. PICK e \in AnyRun : e = <<>>
      <3>1. <<>> \in Seq(Nat \X Nat)
        OBVIOUS
      <3>2. QED
        BY <3>1, Zenon DEF AnyRun
    <2>2. PICK a \in Nat, b \in Nat : a = 1 /\ b = 0
      OBVIOUS
    <2>3. /\ Gone(e, e) \in {Gone(f, g) : f, g \in AnyRun}
          /\ SideBySide(a, b) \in {SideBySide(c, d) : c, d \in Nat}
      OBVIOUS
    <2>4. QED
      BY <2>1, <2>2, <2>3
  <1>3. /\ pair_slices \in [Names -> {SideBySide(a, b) : a, b \in Nat}]
        /\ yielded \in [Names -> {Gone(f, b) : f, b \in AnyRun}]
    BY <1>1, <1>2
  <1>4. ASSUME NEW i \in Names, NEW s, NEW y, IsPair(i, s, y)
        PROVE  s = SideBySide(1, 0) /\ y = Gone(<<>>, <<>>)
    BY <1>1, <1>4 DEF IsPair
  <1>5. QED
    BY <1>3, <1>4 DEF PairInv

\* On a map that stays as it is, one iterator is set and the others stay.
LEMMA SetsPair ==
  ASSUME MapOK, PairInv, Occupants' = Occupants, NEW i \in Names, NEW s, NEW y,
         GoodPair(s, y, Cardinality(Occupants)),
         pair_slices' = [pair_slices EXCEPT ![i] = s], yielded' = [yielded EXCEPT ![i] = y]
  PROVE  PairInv'
  <1> DEFINE N == Cardinality(Occupants)
  <1>1. N \in Nat
    BY SlotSets
  <1>2. PICK a \in 0 .. N, b \in 0 .. N :
          a <= b /\ s = SideBySide(a, b) /\ y = Gone(Run(0, a), Run(b, N))
    BY DEF GoodPair
  <1>3. a \in Nat /\ b \in Nat /\ Run(0, a) \in AnyRun /\ Run(b, N) \in AnyRun
    <2>1. a \in Nat /\ b \in Nat /\ 0 \in Nat /\ 0 <= a /\ b <= N
      BY <1>1, <1>2
    <2> HIDE DEF N
    <2>2. Run(0, a) \in AnyRun
      BY <2>1, Runs
    <2>3. Run(b, N) \in AnyRun
      BY <1>1, <2>1, Runs
    <2>4. QED
      BY <2>1, <2>2, <2>3
  <1>4. /\ s \in {SideBySide(c, d) : c, d \in Nat}
        /\ y \in {Gone(f, g) : f, g \in AnyRun}
    BY <1>2, <1>3
  <1>5. /\ pair_slices' \in [Names -> {SideBySide(c, d) : c, d \in Nat}]
        /\ yielded' \in [Names -> {Gone(f, g) : f, g \in AnyRun}]
    BY <1>4 DEF PairInv
  <1>6. ASSUME NEW j \in Names, NEW t, NEW z, IsPair(j, t, z)'
        PROVE  (t = SideBySide(1, 0) /\ z = Gone(<<>>, <<>>)) \/ GoodPair(t, z, N)
    <2>1. CASE j = i
      BY <1>6, <2>1 DEF IsPair, PairInv
    <2>2. CASE j # i
      <3>1. IsPair(j, t, z)
        BY <1>6, <2>2 DEF IsPair, PairInv
      <3>2. QED
        BY <3>1 DEF PairInv
    <2>3. QED
      BY <2>1, <2>2
  <1>7. QED
    BY <1>5, <1>6 DEF PairInv

\* An iterator that is there.
LEMMA LivePair ==
  ASSUME MapOK, PairInv, NEW i \in Names, PairIter!Exists(i)
  PROVE  /\ GoodPair(pair_slices[i], yielded[i], Cardinality(Occupants))
         /\ Cardinality(Occupants) \in Nat
  BY SlotSets DEF PairIter!Exists, PairIter!NoSlices, PairInv, IsPair, SideBySide

LEMMA PairStart ==
  ASSUME MapOK, PairInv, Occupants' = Occupants, NEW i \in Names, PairIter!Start(i)
  PROVE  PairInv'
  <1> DEFINE N == Cardinality(Occupants)
             s == SideBySide(0, N)
             y == yielded[i]
  <1>1. pair_slices' = [pair_slices EXCEPT ![i] = s] /\ yielded' = yielded
    BY DEF PairIter!Start, SideBySide
  <1>2. y = Gone(<<>>, <<>>)
    <2>1. pair_slices[i] = SideBySide(1, 0)
      BY DEF PairIter!Start, PairIter!Exists, PairIter!NoSlices, SideBySide
    <2>2. \A m : ~GoodPair(SideBySide(1, 0), y, m)
      <3>1. ASSUME NEW m, NEW a \in 0 .. m, NEW b \in 0 .. m, a <= b,
                   SideBySide(1, 0) = SideBySide(a, b)
            PROVE  FALSE
        <4>1. a = 1 /\ b = 0
          BY <3>1 DEF SideBySide
        <4>2. QED
          BY <3>1, <4>1
      <3>2. QED
        BY <3>1 DEF GoodPair
    <2>3. QED
      BY <2>1, <2>2 DEF PairInv, IsPair
  <1>3. N \in Nat
    BY SlotSets
  <1> HIDE DEF N
  <1>4. Run(0, 0) = <<>> /\ Run(N, N) = <<>>
    BY <1>3, NoRun
  <1>5. GoodPair(s, y, N)
    <2>1. 0 \in 0 .. N /\ N \in 0 .. N /\ 0 <= N
      BY <1>3
    <2>2. y = Gone(Run(0, 0), Run(N, N))
      BY <1>2, <1>4
    <2> HIDE DEF y
    <2>3. QED
      BY <2>1, <2>2 DEF GoodPair
  <1>6. yielded' = [yielded EXCEPT ![i] = y]
    BY <1>1 DEF PairInv
  <1> HIDE DEF s, y
  <1>7. QED
    BY <1>1, <1>5, <1>6, SetsPair DEF N

LEMMA PairNext ==
  ASSUME MapOK, PairInv, Occupants' = Occupants, NEW i \in Names, PairIter!Next(i)
  PROVE  PairInv'
  <1> DEFINE N == Cardinality(Occupants)
  <1>1. GoodPair(pair_slices[i], yielded[i], N) /\ N \in Nat
    BY LivePair DEF PairIter!Next
  <1>2. PICK a \in 0 .. N, b \in 0 .. N :
          /\ a <= b /\ pair_slices[i] = SideBySide(a, b)
          /\ yielded[i] = Gone(Run(0, a), Run(b, N))
    BY <1>1 DEF GoodPair
  <1> DEFINE s == SideBySide(a + 1, b)
             y == Gone(Run(0, a + 1), Run(b, N))
  <1>3. a < b /\ a \in Nat /\ b \in Nat
    BY <1>1, <1>2 DEF PairIter!Next, PairIter!Left, SideBySide
  <1>4. pair_slices' = [pair_slices EXCEPT ![i] = s]
    <2>1. DOMAIN pair_slices = Names
      BY DEF PairInv
    <2> DEFINE k == [front |-> a, back |-> b]
               k1 == [front |-> a + 1, back |-> b]
               x == [pair_slices[i] EXCEPT !.keys.front = @ + 1]
    <2>2. pair_slices[i] = [keys |-> k, values |-> k] /\ k.front = a
      BY <1>2 DEF SideBySide
    <2>3. [k EXCEPT !.front = @ + 1] = k1
      OBVIOUS
    <2>4. x = [keys |-> k1, values |-> k]
      BY <2>2, <2>3
    <2>5. pair_slices' = [pair_slices EXCEPT ![i] = [x EXCEPT !.values.front = @ + 1]]
      BY <2>1 DEF PairIter!Next
    <2> HIDE DEF x, k1
    <2>6. [x EXCEPT !.values.front = @ + 1] = [keys |-> k1, values |-> k1]
      BY <2>3, <2>4
    <2>7. s = [keys |-> k1, values |-> k1]
      BY DEF SideBySide, k1
    <2>8. QED
      BY <2>5, <2>6, <2>7
  <1>5. yielded' = [yielded EXCEPT ![i] = y]
    <2>1. DOMAIN yielded = Names
      BY DEF PairInv
    <2>2. PairIter!First(pair_slices[i].keys) = a /\ PairIter!First(pair_slices[i].values) = a
      BY <1>2, <1>3 DEF PairIter!First, PairIter!Left, SideBySide
    <2>3. yielded' = [yielded EXCEPT ![i] =
            [yielded[i] EXCEPT !.fronts = Append(yielded[i].fronts, <<a, a>>)]]
      BY <2>1, <2>2 DEF PairIter!Next
    <2>4. Append(Run(0, a), <<a, a>>) = Run(0, a + 1)
      BY <1>3, RunAppend
    <2>5. yielded[i].fronts = Run(0, a)
      BY <1>2 DEF Gone
    <2>6. [yielded[i] EXCEPT !.fronts = Run(0, a + 1)] = y
      BY <1>2 DEF Gone
    <2>7. QED
      BY <2>3, <2>4, <2>5, <2>6
  <1>6. GoodPair(s, y, N)
    <2>1. a + 1 \in 0 .. N /\ a + 1 <= b
      BY <1>1, <1>2, <1>3
    <2> DEFINE c == a + 1
    <2> HIDE DEF c, N
    <2>2. c \in 0 .. N /\ c <= b /\ s = SideBySide(c, b) /\ y = Gone(Run(0, c), Run(b, N))
      BY <2>1 DEF c
    <2> HIDE DEF s, y
    <2>3. QED
      BY <1>2, <2>2 DEF GoodPair
  <1> HIDE DEF s, y
  <1>7. QED
    BY <1>4, <1>5, <1>6, SetsPair

LEMMA PairNextBack ==
  ASSUME MapOK, PairInv, Occupants' = Occupants, NEW i \in Names, PairIter!NextBack(i)
  PROVE  PairInv'
  <1> DEFINE N == Cardinality(Occupants)
  <1>1. GoodPair(pair_slices[i], yielded[i], N) /\ N \in Nat
    BY LivePair DEF PairIter!NextBack
  <1>2. PICK a \in 0 .. N, b \in 0 .. N :
          /\ a <= b /\ pair_slices[i] = SideBySide(a, b)
          /\ yielded[i] = Gone(Run(0, a), Run(b, N))
    BY <1>1 DEF GoodPair
  <1>3. a < b /\ a \in Nat /\ b \in Nat
    BY <1>1, <1>2 DEF PairIter!NextBack, PairIter!Left, SideBySide
  <1>4. PICK c \in Nat : c = b - 1
    BY <1>3
  <1> DEFINE s == SideBySide(a, c)
             y == Gone(Run(0, a), Run(c, N))
  <1>5. pair_slices' = [pair_slices EXCEPT ![i] = s]
    <2>1. DOMAIN pair_slices = Names
      BY DEF PairInv
    <2> DEFINE k == [front |-> a, back |-> b]
               k1 == [front |-> a, back |-> c]
               x == [pair_slices[i] EXCEPT !.keys.back = @ - 1]
    <2>2. pair_slices[i] = [keys |-> k, values |-> k] /\ k.back = b
      BY <1>2 DEF SideBySide
    <2>3. [k EXCEPT !.back = @ - 1] = k1
      BY <1>4
    <2>4. x = [keys |-> k1, values |-> k]
      BY <2>2, <2>3
    <2>5. pair_slices' = [pair_slices EXCEPT ![i] = [x EXCEPT !.values.back = @ - 1]]
      BY <2>1 DEF PairIter!NextBack
    <2> HIDE DEF x, k1
    <2>6. [x EXCEPT !.values.back = @ - 1] = [keys |-> k1, values |-> k1]
      BY <2>3, <2>4
    <2>7. s = [keys |-> k1, values |-> k1]
      BY DEF SideBySide, k1
    <2>8. QED
      BY <2>5, <2>6, <2>7
  <1>6. yielded' = [yielded EXCEPT ![i] = y]
    <2>1. DOMAIN yielded = Names
      BY DEF PairInv
    <2>2. PairIter!Last(pair_slices[i].keys) = c /\ PairIter!Last(pair_slices[i].values) = c
      BY <1>2, <1>3, <1>4 DEF PairIter!Last, PairIter!Left, SideBySide
    <2>3. yielded' = [yielded EXCEPT ![i] =
            [yielded[i] EXCEPT !.backs = <<<<c, c>>>> \o yielded[i].backs]]
      BY <2>1, <2>2 DEF PairIter!NextBack
    <2>4. <<<<c, c>>>> \o Run(b, N) = Run(c, N)
      <3>1. c < N /\ c + 1 = b
        BY <1>1, <1>2, <1>4
      <3> HIDE DEF N
      <3>2. <<<<c, c>>>> \o Run(c + 1, N) = Run(c, N)
        BY <1>1, <3>1, RunPrepend
      <3>3. QED
        BY <3>1, <3>2
    <2>5. yielded[i].backs = Run(b, N)
      BY <1>2 DEF Gone
    <2>6. [yielded[i] EXCEPT !.backs = Run(c, N)] = y
      BY <1>2 DEF Gone
    <2>7. QED
      BY <2>3, <2>4, <2>5, <2>6
  <1>7. GoodPair(s, y, N)
    <2>1. c \in 0 .. N /\ a <= c
      BY <1>1, <1>2, <1>3, <1>4
    <2>2. s = SideBySide(a, c) /\ y = Gone(Run(0, a), Run(c, N))
      OBVIOUS
    <2> HIDE DEF s, y, N
    <2>3. QED
      BY <1>2, <2>1, <2>2 DEF GoodPair
  <1> HIDE DEF s, y
  <1>8. QED
    BY <1>5, <1>6, <1>7, SetsPair

LEMMA PairClone ==
  ASSUME MapOK, PairInv, Occupants' = Occupants, NEW i \in Names, NEW j \in Names,
         PairIter!Clone(i, j)
  PROVE  PairInv'
  <1> DEFINE s == pair_slices[i]
             y == yielded[i]
  <1>1. GoodPair(s, y, Cardinality(Occupants))
    BY LivePair DEF PairIter!Clone
  <1>2. /\ pair_slices' = [pair_slices EXCEPT ![j] = s]
        /\ yielded' = [yielded EXCEPT ![j] = y]
    BY DEF PairIter!Clone
  <1> HIDE DEF s, y
  <1>3. QED
    BY <1>1, <1>2, SetsPair

LEMMA StepPair ==
  ASSUME MapOK, PairInv, [BorrowsNext]_<<vars, disjoint_vars, pair_iter_vars>>
  PROVE  PairInv'
  <1>1. Occupants' = Occupants
    BY StepMap
  <1>2. CASE UNCHANGED pair_iter_vars
    BY <1>1, <1>2 DEF PairInv, IsPair, pair_iter_vars
  <1>3. CASE PairIter!Step
    BY <1>1, <1>2, <1>3, PairStart, PairNext, PairNextBack, PairClone
      DEF PairIter!Step, PairIter!NextNone, PairIter!vars, pair_iter_vars
  <1>4. QED
    BY <1>2, <1>3 DEF BorrowsNext, SlotIterStep, PairIterStep

\* What the two slice iterators have given away, front and back together.
LEMMA RunsJoined ==
  ASSUME NEW n \in Nat, NEW a \in 0 .. n, NEW b \in 0 .. n, a <= b
  PROVE  LET y == Run(0, a) \o Run(b, n)
         IN  /\ Len(y) = n - (b - a)
             /\ \A k \in 1 .. Len(y) :
                  y[k] = IF k <= a THEN <<k - 1, k - 1>> ELSE <<b - a + k - 1, b - a + k - 1>>
  <1> DEFINE f == Run(0, a)
             g == Run(b, n)
             y == f \o g
  <1>1. f \in AnyRun /\ Len(f) = a /\ g \in AnyRun /\ Len(g) = n - b
    <2>1. 0 \in Nat /\ a \in Nat /\ b \in Nat /\ 0 <= a /\ b <= n /\ a - 0 = a
      OBVIOUS
    <2>2. f \in AnyRun /\ Len(f) = a - 0
      BY <2>1, Runs
    <2>3. g \in AnyRun /\ Len(g) = n - b
      BY <2>1, Runs
    <2>4. QED
      BY <2>1, <2>2, <2>3
  <1>2. /\ \A k \in 1 .. a : f[k] = <<k - 1, k - 1>>
        /\ \A k \in 1 .. n - b : g[k] = <<b + k - 1, b + k - 1>>
    BY DEF Run
  <1> HIDE DEF f, g
  <1>3. /\ Len(y) = Len(f) + Len(g)
        /\ \A k \in 1 .. Len(f) : y[k] = f[k]
        /\ \A k \in 1 .. Len(y) :
             k \in 1 .. Len(f) \/ (k - Len(f) \in 1 .. Len(g) /\ y[k] = g[k - Len(f)])
    <2> DEFINE P == Nat \X Nat
    <2>1. f \in Seq(P) /\ g \in Seq(P)
      BY <1>1 DEF AnyRun
    <2> HIDE DEF P
    <2>2. QED
      BY <2>1, Joined
  <1> HIDE DEF y
  <1>4. ASSUME NEW k \in 1 .. Len(y)
        PROVE  y[k] = IF k <= a THEN <<k - 1, k - 1>> ELSE <<b - a + k - 1, b - a + k - 1>>
    <2>1. CASE k <= a
      <3>1. k \in 1 .. a
        BY <1>1, <1>3, <2>1
      <3>2. QED
        BY <1>1, <1>2, <1>3, <2>1, <3>1
    <2>2. CASE ~(k <= a)
      <3> DEFINE j == k - a
      <3>1. j \in 1 .. n - b /\ y[k] = g[j] /\ b + j - 1 = b - a + k - 1
        BY <1>1, <1>3, <2>2
      <3>2. g[j] = <<b + j - 1, b + j - 1>>
        BY <1>2, <3>1
      <3> HIDE DEF j
      <3>3. QED
        BY <2>2, <3>1, <3>2
    <2>3. QED
      BY <2>1, <2>2
  <1>5. Len(y) = n - (b - a)
    BY <1>1, <1>3
  <1>6. QED
    BY <1>4, <1>5 DEF f, g, y

LEMMA InvPairYields == MapOK /\ PairInv => PairIter!YieldsEachOnce /\ PairIter!SizeHintHolds
  <1> DEFINE N == Cardinality(Occupants)
  <1> SUFFICES ASSUME MapOK, PairInv, NEW i \in Names, PairIter!Exists(i)
               PROVE  LET y == yielded[i].fronts \o yielded[i].backs
                          s == pair_slices[i]
                      IN  /\ \A n \in 1 .. Len(y) : y[n][1] = y[n][2]
                          /\ \A m, n \in 1 .. Len(y) : m < n => y[m][1] < y[n][1]
                          /\ s.keys.back - s.keys.front = 0 => Len(y) = N
                          /\ s.values.back - s.values.front = N - Len(y)
    BY DEF PairIter!YieldsEachOnce, PairIter!SizeHintHolds, PairIter!Yielded, PairIter!Left
  <1>1. GoodPair(pair_slices[i], yielded[i], N) /\ N \in Nat
    BY LivePair
  <1>2. PICK a \in 0 .. N, b \in 0 .. N :
          /\ a <= b /\ pair_slices[i] = SideBySide(a, b)
          /\ yielded[i] = Gone(Run(0, a), Run(b, N))
    BY <1>1 DEF GoodPair
  <1> DEFINE y == yielded[i].fronts \o yielded[i].backs
  <1>3. y = Run(0, a) \o Run(b, N)
    BY <1>2 DEF Gone
  <1> HIDE DEF N, y
  <1>4. /\ Len(y) = N - (b - a)
        /\ \A k \in 1 .. Len(y) :
             y[k] = IF k <= a THEN <<k - 1, k - 1>> ELSE <<b - a + k - 1, b - a + k - 1>>
    BY <1>1, <1>2, <1>3, RunsJoined
  <1>5. /\ pair_slices[i].keys.front = a /\ pair_slices[i].keys.back = b
        /\ pair_slices[i].values.front = a /\ pair_slices[i].values.back = b
    BY <1>2 DEF SideBySide
  <1>6. \A k \in 1 .. Len(y) :
          /\ y[k][1] = IF k <= a THEN k - 1 ELSE b - a + k - 1
          /\ y[k][1] = y[k][2]
    BY <1>4
  <1>7. \A m, n \in 1 .. Len(y) : m < n => y[m][1] < y[n][1]
    <2>1. ASSUME NEW m \in 1 .. Len(y), NEW n \in 1 .. Len(y), m < n
          PROVE  y[m][1] < y[n][1]
      BY <1>2, <1>6, <2>1
    <2>2. QED
      BY <2>1
  <1>8. b - a = N - Len(y) /\ (b - a = 0 => Len(y) = N)
    BY <1>1, <1>2, <1>4
  <1>9. QED
    BY <1>5, <1>6, <1>7, <1>8 DEF y

-----------------------------------------------------------------------------

BorrowsInv == MapOK /\ LentApart /\ IterInv /\ PairInv

LEMMA InitInv == BorrowsInit => BorrowsInv
  <1> SUFFICES ASSUME BorrowsInit PROVE BorrowsInv
    OBVIOUS
  <1>1. MapOK
    BY InitMap
  <1>2. LentApart
    BY DEF BorrowsInit, DisjointInit, LentApart
  <1>3. IterInv
    <2>1. /\ iters = [i \in Names |-> NoIter] /\ fronts = [i \in Names |-> <<>>]
          /\ backs = [i \in Names |-> <<>>]
      BY DEF BorrowsInit, Init
    <2>2. NoIter \in AnyIter /\ <<>> \in Seq(AnyKey)
      BY DEF NoIter, AnyIter
    <2>3. QED
      BY <2>1, <2>2 DEF IterInv, Is
  <1>4. PairInv
    BY InitPair
  <1>5. QED
    BY <1>1, <1>2, <1>3, <1>4 DEF BorrowsInv

LEMMA StepInv ==
  BorrowsInv /\ [BorrowsNext]_<<vars, disjoint_vars, pair_iter_vars>> => BorrowsInv'
  BY StepMap, StepLent, StepIter, StepPair DEF BorrowsInv

LEMMA Always == BorrowsSpec => []BorrowsInv
  BY InitInv, StepInv, PTL DEF BorrowsSpec

\* The references that get_disjoint_mut and get_disjoint_mut_at lend at the same
\* time are to different values, each that of its key, and a call is refused
\* only for a key without a value or for two keys of one slot: for every number
\* of slots, generations and keys.
THEOREM LentOnce == BorrowsSpec => []LentApart
  <1>1. BorrowsInv => LentApart
    BY DEF BorrowsInv
  <1>2. QED
    BY <1>1, Always, PTL

\* The iterators yield every value once, in order, from whichever ends they are
\* asked, and those of the dense maps every key with its own value, for every
\* number of slots and of iterators.
THEOREM YieldedOnce == BorrowsSpec => []EachYieldedOnce
  <1>1. BorrowsInv => EachYieldedOnce
    BY InvYields, InvPairYields DEF BorrowsInv, EachYieldedOnce
  <1>2. QED
    BY <1>1, Always, PTL

\* size_hint is exact where a count is kept, and over pairs, and otherwise it
\* bounds how many values come.
THEOREM HintsHold == BorrowsSpec => []SizeHintsHold
  <1>1. BorrowsInv => SizeHintsHold
    BY InvHints, InvPairYields DEF BorrowsInv, SizeHintsHold
  <1>2. QED
    BY <1>1, Always, PTL

-----------------------------------------------------------------------------
(* clone_from of the maps *)

AnyPair == [key : Slots([slots |-> <<>>, next_free |-> 0])!Keys, value : Values]

\* The fields of a map in the course of a clone_from: any slots, any pairs.
Fields(m) ==
  /\ m = [slots |-> m.slots, next_free |-> m.next_free, len |-> m.len, pairs |-> m.pairs]
  /\ m.slots = [i \in DOMAIN m.slots |-> m.slots[i]]
  /\ m.pairs \in Seq(AnyPair)

\* Any slots from 0 on, with any pairs if the map has some.
Whole(m) ==
  /\ Fields(m) /\ \E n \in Nat : DOMAIN m.slots = 0 .. n - 1
  /\ ~HasPairs => m.pairs = <<>>

\* The map m in the course of a clone_from of s.
CloneInv(m, s) ==
  /\ Whole(s) /\ Rules(s) /\ Fields(m)
  /\ stage \in {"idle", "pairs", "slots"} /\ count \in Nat
  /\ stage # "idle" => m.next_free = NoSlot /\ m.len = 0
  /\ stage = "idle" => /\ Rules(m) /\ count = 0 /\ Whole(m)
                       /\ outcome = "cloned" => m = s
                       /\ outcome = "panicked" => m = EmptyMap
  /\ stage = "pairs" => /\ HasPairs /\ count <= Len(s.pairs) /\ count <= Len(m.pairs)
                        /\ \A p \in 1 .. count : m.pairs[p] = s.pairs[p]
  /\ stage = "slots" => /\ m.pairs = s.pairs
                        /\ \A i \in 0 .. count - 1 : /\ i \in DOMAIN s.slots
                                                     /\ i \in DOMAIN m.slots
                                                     /\ m.slots[i] = s.slots[i]

ClonesInv == \A m, s : m = self /\ s = source => CloneInv(m, s)

\* What from_raw_parts makes is a map.
LEMMA PartsWhole == \A m \in Parts : Rules(m) => Whole(m)
  <1> SUFFICES ASSUME NEW m \in Parts, Rules(m) PROVE Whole(m)
    OBVIOUS
  <1>1. PICK n \in 0 .. MaxIdx + 1 : \E S : m.slots \in [0 .. n - 1 -> S]
    BY DEF Parts
  <1>2. m.slots = [i \in DOMAIN m.slots |-> m.slots[i]] /\ DOMAIN m.slots = 0 .. n - 1 /\ n \in Nat
    BY <1>1
  <1>3. m.pairs \in Seq(AnyPair)
    <2> DEFINE PairLists == UNION {[1 .. k -> AnyPair] : k \in 0 .. MaxIdx + 1}
    <2>1. m.pairs \in IF HasPairs THEN PairLists ELSE {<<>>}
      BY Zenon DEF Parts, AnyPair
    <2>2. CASE m.pairs \in PairLists
      <3>1. PICK k \in 0 .. MaxIdx + 1 : m.pairs \in [1 .. k -> AnyPair]
        BY <2>2
      <3>2. k \in Nat
        OBVIOUS
      <3>3. QED
        BY <3>1, <3>2
    <2>3. CASE m.pairs = <<>>
      BY <2>3
    <2>4. QED
      BY <2>1, <2>2, <2>3
  <1>4. m = [slots |-> m.slots, next_free |-> m.next_free, len |-> m.len, pairs |-> m.pairs]
    BY DEF Parts
  <1>5. ~HasPairs => m.pairs = <<>>
    BY DEF Rules
  <1>6. QED
    BY <1>2, <1>3, <1>4, <1>5 DEF Whole, Fields

\* A new map follows the rules of all four maps.
LEMMA EmptyRules == Rules(EmptyMap) /\ Whole(EmptyMap)
  <1> DEFINE m == EmptyMap
  <1>1. DOMAIN m.slots = {} /\ m.next_free = NoSlot /\ m.len = 0 /\ m.pairs = <<>>
    BY DEF EmptyMap
  <1>2. Cardinality(DOMAIN m.slots) = 0 /\ Cardinality({}) = 0
    BY <1>1, FS_EmptySet
  <1>3. Whole(m)
    <2>1. {} = 0 .. 0 - 1 /\ 0 \in Nat
      OBVIOUS
    <2>2. <<>> \in Seq(AnyPair)
      OBVIOUS
    <2>3. QED
      BY <1>1, <2>1, <2>2 DEF Whole, Fields, EmptyMap
  <1> HIDE DEF m
  <1>4. Slots(m)!KeysFit
    BY <1>1, <1>2 DEF Slots!KeysFit, Slots!Positions
  <1>5. FreeListRule(m)
    <2> DEFINE f == [a \in 1 .. 0 |-> 0]
    <2>1. f \in [1 .. 0 -> DOMAIN m.slots] /\ 0 \in 0 .. Cardinality(DOMAIN m.slots)
      BY <1>2
    <2>2. Slots(m)!FreeList(f, 0)
      BY <1>1 DEF Slots!FreeList
    <2> HIDE DEF f
    <2>3. QED
      BY <2>1, <2>2 DEF FreeListRule
  <1>6. EmptySlotsRule(m)
    BY <1>1 DEF EmptySlotsRule
  <1>7. PairsRule(m)
    BY <1>1, <1>2 DEF PairsRule, Pairs!SlotsPointAtPairs, Pairs!PairsPointAtSlots
  <1>8. LenRule(m)
    BY <1>1, <1>2 DEF LenRule
  <1>9. QED
    BY <1>1, <1>3, <1>4, <1>5, <1>6, <1>7, <1>8 DEF Rules, m

\* The rules depend on which of the four maps it is, and on its fields.
LEMMA SameRules ==
  ASSUME kind' = kind
  PROVE  /\ HasPairs' <=> HasPairs
         /\ \A m : (Rules(m)' <=> Rules(m)) /\ (Fields(m)' <=> Fields(m)) /\ (Whole(m)' <=> Whole(m))
  <1>1. (HasPairs' <=> HasPairs) /\ (HasFreeList' <=> HasFreeList) /\ (HasLen' <=> HasLen)
    BY DEF HasPairs, HasFreeList, HasLen
  <1>2. \A m : (Rules(m)' <=> Rules(m))
    BY <1>1 DEF Rules
  <1>3. \A m : Fields(m)' <=> Fields(m)
    OBVIOUS
  <1>4. \A m : Whole(m)' <=> Whole(m)
    BY <1>1 DEF Whole
  <1>5. QED
    BY <1>1, <1>2, <1>3, <1>4

LEMMA ClonesInitInv == ClonesInit => ClonesInv
  <1> SUFFICES ASSUME ClonesInit, NEW m, NEW s, m = self, s = source
               PROVE  CloneInv(m, s)
    BY DEF ClonesInv
  <1>1. m \in Parts /\ Rules(m) /\ s \in Parts /\ Rules(s)
    BY DEF ClonesInit
  <1>2. Whole(m) /\ Whole(s)
    BY <1>1, PartsWhole
  <1>3. stage = "idle" /\ count = 0 /\ outcome = "none"
    BY DEF ClonesInit
  <1>4. QED
    BY <1>1, <1>2, <1>3 DEF CloneInv, Whole

LEMMA ClonesStepInv ==
  ASSUME ClonesInv, [ClonesNext]_clones_vars
  PROVE  ClonesInv'
  <1> SUFFICES ASSUME NEW m, NEW s, NEW old, m = self', s = source', old = self
               PROVE  CloneInv(m, s)'
    BY DEF ClonesInv
  <1>1. kind' = kind /\ source' = source
    BY DEF ClonesNext, clones_vars, CloneFrom, ClonePair, PairsCloned, CloneSlot, Finish, Panic
  <1>2. /\ HasPairs' <=> HasPairs
        /\ \A x : (Rules(x)' <=> Rules(x)) /\ (Fields(x)' <=> Fields(x)) /\ (Whole(x)' <=> Whole(x))
    BY <1>1, SameRules
  <1>3. CloneInv(old, s) /\ s = source
    BY <1>1 DEF ClonesInv
  <1>4. Whole(s) /\ Rules(s) /\ Fields(old) /\ count \in Nat
    BY <1>3 DEF CloneInv
  <1>5. /\ old = [slots |-> old.slots, next_free |-> old.next_free, len |-> old.len, pairs |-> old.pairs]
        /\ old.slots = [i \in DOMAIN old.slots |-> old.slots[i]] /\ old.pairs \in Seq(AnyPair)
        /\ s.pairs \in Seq(AnyPair)
    BY <1>4 DEF Whole, Fields
  <1>6. PICK n \in Nat : DOMAIN s.slots = 0 .. n - 1
    BY <1>4 DEF Whole
  <1>7. ~HasPairs => s.pairs = <<>>
    BY <1>4 DEF Whole
  <1>w. Whole(s)' /\ Rules(s)'
    BY <1>2, <1>4
  <1>8. CASE CloneFrom
    <2>1. /\ stage = "idle" /\ outcome' = "none" /\ count' = count
          /\ stage' = IF HasPairs THEN "pairs" ELSE "slots"
      BY <1>8 DEF CloneFrom
    <2>2. m = [slots |-> IF in_place \/ HasPairs THEN old.slots ELSE EmptyMap.slots,
               next_free |-> NoSlot, len |-> 0,
               pairs |-> IF in_place THEN old.pairs ELSE <<>>]
      BY <1>5, <1>8 DEF CloneFrom
    <2>3. Fields(m)
      <3>1. m.pairs \in Seq(AnyPair)
        BY <1>5, <2>2
      <3>2. m.slots = [i \in DOMAIN m.slots |-> m.slots[i]]
        BY <1>5, <2>2 DEF EmptyMap
      <3>3. m = [slots |-> m.slots, next_free |-> m.next_free, len |-> m.len, pairs |-> m.pairs]
        BY <2>2
      <3>4. QED
        BY <3>1, <3>2, <3>3 DEF Fields
    <2>4. count = 0 /\ Whole(old)
      BY <1>3, <2>1 DEF CloneInv
    <2>5. ~HasPairs => m.pairs = s.pairs
      BY <1>7, <2>2, <2>4 DEF Whole
    <2>6. 0 <= Len(s.pairs) /\ 0 <= Len(m.pairs)
      BY <1>5, <2>3 DEF Fields
    <2>7. Fields(m)'
      BY <1>2, <2>3
    <2>8. m.next_free = NoSlot /\ m.len = 0
      BY <2>2
    <2>9. CASE HasPairs
      BY <1>2, <1>w, <2>1, <2>4, <2>6, <2>7, <2>8, <2>9 DEF CloneInv
    <2>10. CASE ~HasPairs
      BY <1>2, <1>w, <2>1, <2>4, <2>5, <2>7, <2>8, <2>10 DEF CloneInv
    <2>11. QED
      BY <2>9, <2>10
  <1>9. CASE ClonePair
    <2> DEFINE f == old.pairs
               g == [p \in DOMAIN f \union {count + 1} |-> IF p = count + 1 THEN s.pairs[p] ELSE f[p]]
    <2>1. /\ stage = "pairs" /\ stage' = "pairs" /\ count < Len(s.pairs) /\ count' = count + 1
          /\ m = [slots |-> old.slots, next_free |-> old.next_free, len |-> old.len, pairs |-> g]
      BY <1>3, <1>5, <1>9 DEF ClonePair
    <2>2. /\ HasPairs /\ count <= Len(f) /\ \A p \in 1 .. count : f[p] = s.pairs[p]
      BY <1>3, <2>1 DEF CloneInv
    <2>3. g \in Seq(AnyPair) /\ count + 1 <= Len(g) /\ \A p \in 1 .. count + 1 : g[p] = s.pairs[p]
      <3>1. PICK k \in Nat : k = Len(f) /\ DOMAIN f = 1 .. k /\ \A p \in 1 .. k : f[p] \in AnyPair
        BY <1>5
      <3>2. PICK l \in Nat : DOMAIN f \union {count + 1} = 1 .. l /\ count + 1 <= l
        <4>1. CASE count = k
          <5>1. DOMAIN f \union {count + 1} = 1 .. count + 1
            BY <1>4, <3>1, <4>1
          <5>2. QED
            BY <1>4, <5>1
        <4>2. CASE count # k
          <5>1. DOMAIN f \union {count + 1} = 1 .. k /\ count + 1 <= k
            BY <1>4, <2>2, <3>1, <4>2
          <5>2. QED
            BY <5>1
        <4>3. QED
          BY <4>1, <4>2
      <3>3. s.pairs[count + 1] \in AnyPair
        BY <1>4, <1>5, <2>1
      <3>4. g \in [1 .. l -> AnyPair]
        BY <3>1, <3>2, <3>3
      <3>5. \A p \in 1 .. count + 1 : g[p] = s.pairs[p]
        <4>1. ASSUME NEW p \in 1 .. count + 1 PROVE p \in 1 .. l /\ (p # count + 1 => p \in 1 .. count)
          BY <1>4, <3>2
        <4>2. QED
          BY <2>2, <3>2, <4>1
      <3> HIDE DEF g
      <3>6. g \in Seq(AnyPair) /\ Len(g) = l
        BY <3>4, IsSequence
      <3>7. QED
        BY <3>2, <3>5, <3>6
    <2> HIDE DEF g
    <2>4. Fields(m)
      BY <1>5, <2>1, <2>3 DEF Fields
    <2>5. count + 1 <= Len(s.pairs) /\ count + 1 \in Nat
      BY <1>4, <1>5, <2>1
    <2>6. m.pairs = g
      BY <2>1
    <2>7. Fields(m)' /\ HasPairs' /\ m.next_free = NoSlot /\ m.len = 0
      BY <1>2, <1>3, <2>1, <2>2, <2>4 DEF CloneInv
    <2>8. QED
      BY <1>w, <2>1, <2>3, <2>5, <2>6, <2>7 DEF CloneInv
  <1>10. CASE PairsCloned
    <2> DEFINE f == old.pairs
    <2>1. /\ stage = "pairs" /\ stage' = "slots" /\ count = Len(s.pairs) /\ count' = 0
          /\ m = [slots |-> IF in_place THEN old.slots ELSE EmptyMap.slots,
                  next_free |-> old.next_free, len |-> old.len, pairs |-> SubSeq(f, 1, count)]
      BY <1>3, <1>5, <1>10 DEF PairsCloned
    <2>2. count <= Len(f) /\ \A p \in 1 .. count : f[p] = s.pairs[p]
      BY <1>3, <2>1 DEF CloneInv
    <2>3. SubSeq(f, 1, count) = s.pairs
      <3> DEFINE g == SubSeq(f, 1, count)
      <3>1. g \in Seq(AnyPair) /\ Len(g) = count /\ \A p \in 1 .. count : g[p] = f[p]
        BY <1>4, <1>5, <2>2
      <3> HIDE DEF g
      <3>2. g = s.pairs
        <4>1. Len(s.pairs) = Len(g) /\ \A p \in 1 .. Len(g) : g[p] = s.pairs[p]
          BY <2>1, <2>2, <3>1
        <4>2. QED
          BY <1>5, <3>1, <4>1, SeqEqual, Zenon
      <3>3. QED
        BY <3>2 DEF g
    <2>4. m.pairs = s.pairs
      BY <2>1, <2>3
    <2>5. Fields(m)
      BY <1>5, <2>1, <2>4 DEF Fields, EmptyMap
    <2>6. Fields(m)' /\ m.next_free = NoSlot /\ m.len = 0
      BY <1>2, <1>3, <2>1, <2>5 DEF CloneInv
    <2>7. QED
      BY <1>w, <2>1, <2>4, <2>6 DEF CloneInv
  <1>11. CASE CloneSlot
    <2> DEFINE f == old.slots
               g == [i \in DOMAIN f \union {count} |-> IF i = count THEN s.slots[i] ELSE f[i]]
    <2>1. /\ stage = "slots" /\ stage' = "slots" /\ count \in DOMAIN s.slots /\ count' = count + 1
          /\ m = [slots |-> g, next_free |-> old.next_free, len |-> old.len, pairs |-> old.pairs]
      BY <1>3, <1>5, <1>11 DEF CloneSlot
    <2>2. /\ old.pairs = s.pairs
          /\ \A i \in 0 .. count - 1 : i \in DOMAIN s.slots /\ i \in DOMAIN f /\ f[i] = s.slots[i]
      BY <1>3, <2>1 DEF CloneInv
    <2>3. \A i \in 0 .. count : i \in DOMAIN s.slots /\ i \in DOMAIN g /\ g[i] = s.slots[i]
      <3>1. ASSUME NEW i \in 0 .. count PROVE i # count => i \in 0 .. count - 1
        BY <1>4
      <3>2. QED
        BY <2>1, <2>2, <3>1
    <2>4. g = [i \in DOMAIN g |-> g[i]]
      OBVIOUS
    <2> HIDE DEF g
    <2>5. Fields(m)
      BY <1>5, <2>1, <2>4 DEF Fields
    <2>6. m.slots = g /\ m.pairs = s.pairs /\ count + 1 \in Nat /\ count + 1 - 1 = count
      BY <1>4, <2>1, <2>2
    <2>7. Fields(m)' /\ m.next_free = NoSlot /\ m.len = 0
      BY <1>2, <1>3, <2>1, <2>5 DEF CloneInv
    <2>8. /\ count' \in Nat
          /\ \A i \in 0 .. count' - 1 :
               i \in DOMAIN s.slots /\ i \in DOMAIN m.slots /\ m.slots[i] = s.slots[i]
      <3>1. count' - 1 = count /\ count' \in Nat
        BY <1>4, <2>1
      <3>2. QED
        BY <2>3, <2>6, <3>1
    <2>9. QED
      BY <1>w, <2>1, <2>6, <2>7, <2>8 DEF CloneInv
  <1>12. CASE Finish
    <2>1. /\ stage = "slots" /\ stage' = "idle" /\ count \notin DOMAIN s.slots /\ count' = 0
          /\ m = [slots |-> [i \in DOMAIN s.slots |-> old.slots[i]],
                  next_free |-> s.next_free, len |-> s.len, pairs |-> old.pairs]
          /\ outcome' = "cloned"
      BY <1>3, <1>5, <1>12 DEF Finish
    <2>2. /\ old.pairs = s.pairs
          /\ \A i \in 0 .. count - 1 : i \in DOMAIN s.slots /\ old.slots[i] = s.slots[i]
      BY <1>3, <2>1 DEF CloneInv
    <2>3. \A i \in DOMAIN s.slots : i \in 0 .. count - 1
      BY <1>4, <1>6, <2>1
    <2>4. [i \in DOMAIN s.slots |-> old.slots[i]] = s.slots
      <3>1. s.slots = [i \in DOMAIN s.slots |-> s.slots[i]]
        BY <1>4 DEF Whole, Fields
      <3>2. \A i \in DOMAIN s.slots : old.slots[i] = s.slots[i]
        BY <2>2, <2>3
      <3>3. QED
        BY <3>1, <3>2
    <2>5. s = [slots |-> s.slots, next_free |-> s.next_free, len |-> s.len, pairs |-> s.pairs]
      BY <1>4 DEF Whole, Fields
    <2>6. m = s
      BY <2>1, <2>2, <2>4, <2>5
    <2>7. Fields(s)
      BY <1>4 DEF Whole
    <2>8. Fields(m)' /\ Rules(m)' /\ Whole(m)'
      BY <1>2, <1>4, <2>6, <2>7
    <2>9. QED
      BY <1>w, <2>1, <2>6, <2>8 DEF CloneInv
  <1>13. CASE Panic
    <2>1. /\ stage # "idle" /\ stage' = "idle" /\ count' = 0 /\ outcome' = "panicked"
          /\ m = [slots |-> EmptyMap.slots, next_free |-> old.next_free, len |-> old.len, pairs |-> <<>>]
      BY <1>5, <1>13 DEF Panic
    <2>2. old.next_free = NoSlot /\ old.len = 0
      BY <1>3, <2>1 DEF CloneInv
    <2>3. m = EmptyMap
      BY <2>1, <2>2 DEF EmptyMap
    <2>4. QED
      BY <1>2, <1>4, <2>1, <2>3, EmptyRules DEF CloneInv, Whole
  <1>14. CASE UNCHANGED clones_vars
    <2>1. m = old /\ stage' = stage /\ count' = count /\ outcome' = outcome
      BY <1>14 DEF clones_vars
    <2>2. QED
      BY <1>2, <1>3, <2>1 DEF CloneInv
  <1>15. QED
    BY <1>8, <1>9, <1>10, <1>11, <1>12, <1>13, <1>14 DEF ClonesNext

\* Whatever the two maps hold, and wherever a clone or a drop panics, clone_from
\* leaves the source's contents, or an empty map that can be used on.
THEOREM ClonedWhole == ClonesSpec => []WholeOrEmpty
  <1>1. ClonesInv => WholeOrEmpty
    BY DEF ClonesInv, CloneInv, WholeOrEmpty
  <1>2. QED
    BY <1>1, ClonesInitInv, ClonesStepInv, PTL DEF ClonesSpec

=============================================================================
