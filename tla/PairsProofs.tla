----------------------------- MODULE PairsProofs -----------------------------
(***************************************************************************)
(* Lemmas about the pairs of the dense maps: what each way of changing     *)
(* them does to the positions that slots store, for slots and pairs of any *)
(* number.  DenseGenMapProofs and DenseSecondaryProofs apply them to their *)
(* own slots.                                                              *)
(***************************************************************************)
EXTENDS Pairs, FiniteSetTheorems, TLAPS

CONSTANTS
  Values,  \* the values
  KeySet   \* the keys, each an index with an odd generation

Odd(g) == g % 2 = 1
OddKeys == [idx : Nat, gen : {g \in Nat : Odd(g)}]
AnyPair == [key : KeySet, value : Values]
SlotsOK ==
  slots_len \in Nat /\ slots \in [0 .. slots_len - 1 -> [gen : Nat, item : Nat]]
PairsOK == SlotsOK /\ KeySet \subseteq OddKeys /\ pairs \in Seq(AnyPair)

Holds(i) == Odd(slots[i].gen)

\* A step leaves slot j and its value alone, wherever the value is.
Keeps(j) ==
  /\ slots'[j].gen = slots[j].gen
  /\ IF Holds(j) THEN pairs'[slots'[j].item + 1] = At(slots[j].item)
     ELSE slots'[j] = slots[j]

LEMMA ItemOf ==
  ASSUME NEW S, NEW s \in Seq(S), NEW p \in 0 .. Len(s) - 1
  PROVE  s[p + 1] \in S
  OBVIOUS

LEMMA Appended ==
  ASSUME NEW S, NEW s \in Seq(S), NEW x \in S
  PROVE  /\ Append(s, x) \in Seq(S) /\ Len(Append(s, x)) = Len(s) + 1
         /\ Append(s, x)[Len(s) + 1] = x
         /\ \A p \in 0 .. Len(s) - 1 : Append(s, x)[p + 1] = s[p + 1]
  OBVIOUS

\* The types of a slot and of a pair, by position.
LEMMA Types ==
  ASSUME PairsOK
  PROVE  /\ slots_len \in Nat /\ Len(pairs) \in Nat
         /\ \A i \in 0 .. slots_len - 1 : slots[i].gen \in Nat /\ slots[i].item \in Nat
         /\ \A p \in 0 .. Len(pairs) - 1 :
              /\ At(p) = Pair(At(p).key, At(p).value) /\ At(p).key \in KeySet
              /\ At(p).key = [idx |-> At(p).key.idx, gen |-> At(p).key.gen]
              /\ At(p).key.idx \in Nat /\ At(p).key.gen \in Nat
              /\ Odd(At(p).key.gen) /\ At(p).value \in Values
  <1>1. /\ slots_len \in Nat /\ Len(pairs) \in Nat
        /\ \A i \in 0 .. slots_len - 1 : slots[i].gen \in Nat /\ slots[i].item \in Nat
    BY DEF PairsOK, SlotsOK
  <1>2. \A p \in 0 .. Len(pairs) - 1 : At(p) \in AnyPair
    BY ItemOf DEF PairsOK, At
  <1>3. ASSUME NEW p \in 0 .. Len(pairs) - 1
        PROVE  /\ At(p) = Pair(At(p).key, At(p).value) /\ At(p).key \in KeySet
               /\ At(p).key = [idx |-> At(p).key.idx, gen |-> At(p).key.gen]
               /\ At(p).key.idx \in Nat /\ At(p).key.gen \in Nat
               /\ Odd(At(p).key.gen) /\ At(p).value \in Values
    <2> DEFINE k == At(p).key
    <2>1. At(p) = Pair(k, At(p).value) /\ k \in KeySet /\ At(p).value \in Values
      BY <1>2 DEF Pair, AnyPair
    <2> HIDE DEF k
    <2>2. /\ k = [idx |-> k.idx, gen |-> k.gen]
          /\ k.idx \in Nat /\ k.gen \in Nat /\ Odd(k.gen)
      BY <2>1 DEF OddKeys, PairsOK
    <2>3. QED
      BY <2>1, <2>2 DEF k
  <1>4. QED
    BY <1>1, <1>3

\* An injection from k positions to n slots: there are no more positions.
LEMMA NoMore ==
  ASSUME NEW n \in Nat, NEW k \in Nat, NEW f \in [0 .. k - 1 -> 0 .. n - 1],
         \A p, q \in 0 .. k - 1 : f[p] = f[q] => p = q
  PROVE  k <= n
  <1>1. f \in Injection(0 .. k - 1, 0 .. n - 1)
    BY DEF Injection, IsInjective
  <1>2. IsFiniteSet(0 .. n - 1) /\ Cardinality(0 .. n - 1) = n
    BY FS_Interval
  <1>3. Cardinality(0 .. k - 1) = k
    BY FS_Interval
  <1>4. QED
    BY <1>1, <1>2, <1>3, FS_Injection

\* The slot of a pair's key stores its position: one position, one key.
LEMMA OneKeyEach ==
  ASSUME PairsOK, PairsPointAtSlots
  PROVE  /\ \A p \in 0 .. Len(pairs) - 1 :
              /\ At(p).key.idx \in 0 .. slots_len - 1
              /\ Holds(At(p).key.idx) /\ slots[At(p).key.idx].item = p
              /\ slots[At(p).key.idx].gen = At(p).key.gen
              /\ slots[At(p).key.idx] = [gen |-> At(p).key.gen, item |-> p]
         /\ \A p, q \in 0 .. Len(pairs) - 1 : At(p).key.idx = At(q).key.idx => p = q
  <1>1. ASSUME NEW p \in 0 .. Len(pairs) - 1
        PROVE  /\ At(p).key.idx \in 0 .. slots_len - 1
               /\ Holds(At(p).key.idx) /\ slots[At(p).key.idx].item = p
               /\ slots[At(p).key.idx].gen = At(p).key.gen
               /\ slots[At(p).key.idx] = [gen |-> At(p).key.gen, item |-> p]
    <2> DEFINE i == At(p).key.idx
               g == At(p).key.gen
    <2>1. i < slots_len /\ slots[i] = [gen |-> g, item |-> p]
      BY DEF PairsPointAtSlots
    <2>2. i \in Nat /\ slots_len \in Nat /\ g \in Nat /\ Odd(g)
      BY Types
    <2> HIDE DEF i, g
    <2>3. /\ i \in 0 .. slots_len - 1
          /\ Holds(i) /\ slots[i].item = p /\ slots[i].gen = g
      BY <2>1, <2>2 DEF Holds
    <2>4. QED
      BY <2>1, <2>3 DEF i, g
  <1>2. QED
    BY <1>1

\* The position that a slot stores is that of a pair.
LEMMA OnePairEach ==
  ASSUME PairsOK, SlotsPointAtPairs, NEW i \in 0 .. slots_len - 1, Holds(i)
  PROVE  /\ slots[i].item \in 0 .. Len(pairs) - 1
         /\ At(slots[i].item).key = [idx |-> i, gen |-> slots[i].gen]
         /\ At(slots[i].item).key.idx = i /\ At(slots[i].item).key.gen = slots[i].gen
  <1> DEFINE p == slots[i].item
             g == slots[i].gen
  <1>1. p < Len(pairs) /\ At(p).key = [idx |-> i, gen |-> g]
    BY DEF SlotsPointAtPairs, Holds, Odd
  <1>2. p \in Nat /\ Len(pairs) \in Nat
    BY Types
  <1> HIDE DEF p, g
  <1>3. p \in 0 .. Len(pairs) - 1 /\ At(p).key.idx = i /\ At(p).key.gen = g
    BY <1>1, <1>2
  <1>4. QED
    BY <1>1, <1>3 DEF p, g

\* There are no more pairs than slots.
LEMMA PairsFit ==
  ASSUME PairsOK, PairsPointAtSlots
  PROVE  Len(pairs) <= slots_len
  <1> DEFINE f == [p \in 0 .. Len(pairs) - 1 |-> At(p).key.idx]
  <1>1. f \in [0 .. Len(pairs) - 1 -> 0 .. slots_len - 1]
    BY OneKeyEach
  <1>2. \A p, q \in 0 .. Len(pairs) - 1 : f[p] = f[q] => p = q
    BY OneKeyEach
  <1>3. slots_len \in Nat /\ Len(pairs) \in Nat
    BY Types
  <1>4. QED
    BY <1>1, <1>2, <1>3, NoMore

\* ... nor in the next state, if they match there.
Fit == Len(pairs) <= slots_len
LEMMA PairsFitNext ==
  PairsOK' /\ PairsPointAtSlots' => Len(pairs') <= slots_len'
  <1>1. PairsOK /\ PairsPointAtSlots => Fit
    BY PairsFit DEF Fit
  <1>2. PairsOK' /\ PairsPointAtSlots' => Fit'
    BY <1>1, PTL
  <1>3. QED
    BY <1>2 DEF Fit

\* A slot that is as it was and whose pair is where it was keeps its value.
LEMMA KeptInPlace ==
  ASSUME PairsOK, SlotsPointAtPairs, NEW j \in 0 .. slots_len - 1, slots'[j] = slots[j],
         Holds(j) => pairs'[slots[j].item + 1] = At(slots[j].item)
  PROVE  Keeps(j)
  BY DEF Keeps

-----------------------------------------------------------------------------
(* A value comes *)

\* The slot i, which held no value or is new, gets generation g and the value v
\* at the end of the pairs; other new slots hold none.
Appends(i, g, v) ==
  /\ i \in Nat /\ Odd(g) /\ [idx |-> i, gen |-> g] \in KeySet /\ v \in Values
  /\ i < slots_len => ~Holds(i)
  /\ pairs' = Append(pairs, Pair([idx |-> i, gen |-> g], v))
  /\ slots_len' \in Nat /\ slots_len' >= slots_len /\ i < slots_len'
  /\ slots'[i] = [gen |-> g, item |-> Len(pairs)]
  /\ \A j \in 0 .. slots_len - 1 : j # i => slots'[j] = slots[j]
  /\ \A j \in slots_len .. slots_len' - 1 : j # i => ~Odd(slots'[j].gen)

LEMMA AppendsKeeps ==
  ASSUME PairsOK, SlotsPointAtPairs, PairsPointAtSlots, NEW i, NEW g, NEW v, Appends(i, g, v)
  PROVE  /\ SlotsPointAtPairs' /\ PairsPointAtSlots'
         /\ slots'[i].gen = g /\ pairs'[slots'[i].item + 1] = Pair([idx |-> i, gen |-> g], v)
         /\ \A j \in 0 .. slots_len - 1 : j # i => Keeps(j)
         /\ pairs' \in Seq(AnyPair)
         /\ Len(pairs') = Len(pairs) + 1
         /\ \A p \in 0 .. Len(pairs) - 1 : pairs'[p + 1] = At(p)
  <1> DEFINE k == [idx |-> i, gen |-> g]
             n == Len(pairs)
  <1>1. Pair(k, v) \in AnyPair
    BY DEF Pair, AnyPair, Appends
  <1>0. PICK m \in Nat : m = slots_len' /\ m >= slots_len /\ i < m
    BY DEF Appends
  <1>10. /\ i < slots_len => ~Holds(i)
        /\ \A j \in slots_len .. m - 1 : j # i => ~Odd(slots'[j].gen)
    BY <1>0 DEF Appends
  <1>2. slots_len \in Nat /\ n \in Nat /\ i \in Nat
    BY Types DEF Appends
  <1>3. /\ pairs' \in Seq(AnyPair) /\ Len(pairs') = n + 1
        /\ pairs'[n + 1] = Pair(k, v)
        /\ \A p \in 0 .. n - 1 : pairs'[p + 1] = At(p)
    BY <1>1, Appended DEF PairsOK, Appends, At
  <1>4. slots'[i] = [gen |-> g, item |-> n] /\ k.idx = i /\ k.gen = g
    BY DEF Appends
  <1> HIDE DEF k, n
  <1>5. slots'[i].gen = g /\ slots'[i].item = n /\ Pair(k, v).key = k
    BY <1>4 DEF Pair
  <1>6. ASSUME NEW j \in 0 .. slots_len - 1, j # i
        PROVE  slots'[j] = slots[j] /\ Keeps(j)
    <2>1. slots'[j] = slots[j]
      BY <1>6 DEF Appends
    <2>2. Holds(j) => slots[j].item \in 0 .. n - 1
      BY OnePairEach DEF n
    <2>3. QED
      BY <1>3, <2>1, <2>2, KeptInPlace
  <1>7. SlotsPointAtPairs'
    <2>1. ASSUME NEW j \in 0 .. m - 1, Odd(slots'[j].gen)
          PROVE  /\ slots'[j].item < Len(pairs')
                 /\ pairs'[slots'[j].item + 1].key = [idx |-> j, gen |-> slots'[j].gen]
      <3>1. CASE j = i
        BY <1>2, <1>3, <1>5, <3>1 DEF k
      <3>2. CASE j # i
        <4>1. j \in 0 .. slots_len - 1
          BY <1>10, <1>2, <2>1, <3>2
        <4>2. slots'[j] = slots[j] /\ Holds(j)
          BY <1>6, <2>1, <3>2, <4>1 DEF Holds
        <4>3. /\ slots[j].item \in 0 .. n - 1
              /\ At(slots[j].item).key = [idx |-> j, gen |-> slots[j].gen]
          BY <4>1, <4>2, OnePairEach DEF n
        <4>4. QED
          BY <1>2, <1>3, <4>2, <4>3
      <3>3. QED
        BY <3>1, <3>2
    <2>2. QED
      BY <1>0, <2>1 DEF SlotsPointAtPairs, Odd, At
  <1>8. PairsPointAtSlots'
    <2>1. ASSUME NEW p \in 0 .. Len(pairs') - 1
          PROVE  /\ pairs'[p + 1].key.idx < m
                 /\ slots'[pairs'[p + 1].key.idx] = [gen |-> pairs'[p + 1].key.gen, item |-> p]
      <3>1. CASE p = n
        <4>1. pairs'[p + 1].key.idx = i /\ pairs'[p + 1].key.gen = g
          BY <1>3, <1>4, <1>5, <3>1
        <4>2. QED
          BY <1>0, <1>4, <3>1, <4>1
      <3>2. CASE p # n
        <4>1. p \in 0 .. n - 1 /\ pairs'[p + 1] = At(p)
          BY <1>2, <1>3, <3>2
        <4> DEFINE j == At(p).key.idx
        <4>2. j \in 0 .. slots_len - 1 /\ Holds(j)
          BY <4>1, OneKeyEach DEF n
        <4>3. slots[j] = [gen |-> At(p).key.gen, item |-> p]
          BY <4>1, OneKeyEach DEF n
        <4>4. j # i /\ j < m
          BY <1>0, <1>10, <1>2, <4>2
        <4>5. QED
          BY <1>6, <4>1, <4>2, <4>3, <4>4
      <3>3. QED
        BY <3>1, <3>2
    <2>2. QED
      BY <1>0, <2>1 DEF PairsPointAtSlots, At
  <1>9. QED
    BY <1>3, <1>5, <1>6, <1>7, <1>8 DEF k, n

-----------------------------------------------------------------------------
(* A value goes *)

LEMMA FunctionIsSeq ==
  ASSUME NEW S, NEW n \in Nat, NEW f \in [1 .. n -> S]
  PROVE  f \in Seq(S) /\ Len(f) = n
  OBVIOUS

\* The slot i, whose value is at position p, becomes s and holds none, and the
\* last pair takes its place.
SwapsOut(i, s, p) ==
  /\ i \in 0 .. slots_len - 1 /\ Holds(i) /\ slots[i].item = p
  /\ s \in [gen : Nat, item : Nat] /\ ~Odd(s.gen)
  /\ swap_remove(i, s, p)

\* What swap_remove makes of the pairs and the slots, by position.
LEMMA SwapEffect ==
  ASSUME PairsOK, SlotsPointAtPairs, PairsPointAtSlots, NEW i, NEW s, NEW p,
         SwapsOut(i, s, p), NEW last, last = Len(pairs) - 1, NEW moved,
         moved = At(last).key.idx
  PROVE  /\ last \in Nat /\ p \in 0 .. last /\ At(p).key.idx = i
         /\ moved \in 0 .. slots_len - 1 /\ Holds(moved)
         /\ At(last).key = [idx |-> moved, gen |-> slots[moved].gen]
         /\ moved = i <=> p = last
         /\ slots[i].item = p /\ slots[moved].item = last
         /\ pairs' \in Seq(AnyPair) /\ Len(pairs') = last
         /\ \A q \in 0 .. last - 1 : pairs'[q + 1] = IF q = p THEN At(last) ELSE At(q)
         /\ slots'[i] = s /\ slots_len' = slots_len
         /\ moved # i => slots'[moved] = [gen |-> slots[moved].gen, item |-> p]
         /\ \A j \in 0 .. slots_len - 1 : j # i /\ j # moved => slots'[j] = slots[j]
         /\ slots' \in [0 .. slots_len - 1 -> [gen : Nat, item : Nat]]
  <1>1. p \in 0 .. Len(pairs) - 1 /\ At(p).key.idx = i /\ i \in 0 .. slots_len - 1
    BY OnePairEach DEF SwapsOut
  <1>2. last \in Nat /\ p \in 0 .. last /\ Len(pairs) \in Nat /\ slots_len \in Nat
    BY <1>1, Types
  <1>3. /\ moved \in 0 .. slots_len - 1 /\ Holds(moved)
        /\ moved = i <=> p = last
        /\ slots[moved].gen = At(last).key.gen
        /\ slots[moved].item = last
        /\ At(last).key = [idx |-> moved, gen |-> At(last).key.gen]
    <2>1. last \in 0 .. Len(pairs) - 1
      BY <1>2
    <2>2. /\ At(last).key.idx \in 0 .. slots_len - 1 /\ Holds(At(last).key.idx)
          /\ slots[At(last).key.idx].item = last
          /\ slots[At(last).key.idx].gen = At(last).key.gen
      BY <2>1, OneKeyEach
    <2>3. At(last).key = [idx |-> At(last).key.idx, gen |-> At(last).key.gen]
      BY <2>1, Types
    <2>4. moved = i => p = last
      BY <2>2 DEF SwapsOut
    <2>5. p = last => moved = i
      BY <1>1
    <2>6. QED
      BY <2>2, <2>3, <2>4, <2>5
  <1>4. \A q \in 0 .. last : At(q) \in AnyPair
    BY ItemOf DEF PairsOK, At
  <1> DEFINE S == AnyPair
             f == [q \in 1 .. last |-> IF q = p + 1 THEN At(last) ELSE pairs[q]]
  <1>5. pairs' = f
    BY DEF SwapsOut, swap_remove
  <1>6. \A q \in 1 .. last : q - 1 \in 0 .. last /\ pairs[q] = At(q - 1)
    BY <1>2 DEF At
  <1>7. f \in [1 .. last -> S]
    <2>1. \A q \in 0 .. last : At(q) \in S
      BY <1>4
    <2>2. last \in 0 .. last
      BY <1>2
    <2> HIDE DEF S
    <2>3. QED
      BY <1>6, <2>1, <2>2
  <1>8. pairs' \in Seq(S) /\ Len(pairs') = last
    <2> HIDE DEF S, f
    <2>1. QED
      BY <1>2, <1>5, <1>7, FunctionIsSeq
  <1>9. ASSUME NEW q \in 0 .. last - 1
        PROVE  pairs'[q + 1] = IF q = p THEN At(last) ELSE At(q)
    <2>1. q + 1 \in 1 .. last /\ (q + 1 = p + 1 <=> q = p)
      BY <1>2
    <2>2. QED
      BY <1>5, <2>1 DEF At
  <1> HIDE DEF f
  <1> DEFINE g == [j \in 0 .. slots_len - 1 |->
                     IF j = i THEN s
                     ELSE IF p # last /\ j = moved THEN [slots[j] EXCEPT !.item = p]
                     ELSE slots[j]]
  <1>10. slots' = g /\ slots_len' = slots_len
    BY DEF SwapsOut, swap_remove
  <1>11. \A j \in 0 .. slots_len - 1 :
           /\ slots[j] \in [gen : Nat, item : Nat]
           /\ [slots[j] EXCEPT !.item = p] = [gen |-> slots[j].gen, item |-> p]
    BY DEF PairsOK, SlotsOK
  <1>12. slots'[i] = s
    BY <1>1, <1>10
  <1>13. moved # i => slots'[moved] = [gen |-> slots[moved].gen, item |-> p]
    BY <1>3, <1>10, <1>11
  <1>14. \A j \in 0 .. slots_len - 1 : j # i /\ j # moved => slots'[j] = slots[j]
    BY <1>10
  <1>15. g \in [0 .. slots_len - 1 -> [gen : Nat, item : Nat]]
    BY <1>2, <1>11 DEF SwapsOut
  <1>16. QED
    BY <1>1, <1>2, <1>3, <1>8, <1>9, <1>10, <1>12, <1>13, <1>14, <1>15 DEF SwapsOut

LEMMA SwapKeeps ==
  ASSUME PairsOK, SlotsPointAtPairs, PairsPointAtSlots, NEW i, NEW s, NEW p,
         SwapsOut(i, s, p)
  PROVE  /\ SlotsPointAtPairs' /\ PairsPointAtSlots'
         /\ slots'[i] = s /\ slots_len' = slots_len
         /\ slots' \in [0 .. slots_len - 1 -> [gen : Nat, item : Nat]]
         /\ \A j \in 0 .. slots_len - 1 : j # i => Keeps(j)
         /\ pairs' \in Seq(AnyPair)
         /\ Len(pairs') = Len(pairs) - 1
         /\ \A q \in 0 .. Len(pairs) - 2 :
              pairs'[q + 1] = IF q = p THEN At(Len(pairs) - 1) ELSE At(q)
  <1> DEFINE last == Len(pairs) - 1
             moved == At(last).key.idx
  <1> HIDE DEF last, moved
  <1>1. /\ last \in Nat /\ p \in 0 .. last /\ At(p).key.idx = i
        /\ moved \in 0 .. slots_len - 1 /\ Holds(moved)
        /\ At(last).key = [idx |-> moved, gen |-> slots[moved].gen]
        /\ moved = i <=> p = last
        /\ slots[i].item = p /\ slots[moved].item = last
        /\ pairs' \in Seq(AnyPair) /\ Len(pairs') = last
        /\ \A q \in 0 .. last - 1 : pairs'[q + 1] = IF q = p THEN At(last) ELSE At(q)
        /\ slots'[i] = s /\ slots_len' = slots_len
        /\ moved # i => slots'[moved] = [gen |-> slots[moved].gen, item |-> p]
        /\ \A j \in 0 .. slots_len - 1 : j # i /\ j # moved => slots'[j] = slots[j]
        /\ slots' \in [0 .. slots_len - 1 -> [gen : Nat, item : Nat]]
    BY SwapEffect DEF last, moved
  <1>2. ~Odd(s.gen) /\ slots_len \in Nat /\ Len(pairs) \in Nat
    BY Types DEF SwapsOut
  <1>3. ASSUME NEW j \in 0 .. slots_len - 1, j # i, j # moved, Holds(j)
        PROVE  /\ slots'[j] = slots[j] /\ slots[j].item \in 0 .. last - 1
               /\ pairs'[slots[j].item + 1] = At(slots[j].item)
    <2>1. slots[j].item \in 0 .. last /\ At(slots[j].item).key.idx = j
      BY <1>3, OnePairEach DEF last
    <2>2. slots[j].item # p
      BY <1>1, <1>3, <2>1
    <2>3. slots[j].item # last
      BY <1>3, <2>1 DEF moved
    <2>4. QED
      BY <1>1, <1>3, <2>1, <2>2, <2>3
  <1>4. p # last => p \in 0 .. last - 1 /\ pairs'[p + 1] = At(last)
    BY <1>1
  <1>5. ASSUME NEW j \in 0 .. slots_len - 1, j # i PROVE Keeps(j)
    <2>1. CASE j # moved
      BY <1>1, <1>3, <1>5, <2>1 DEF Keeps
    <2>2. CASE j = moved
      <3>1. slots'[j].gen = slots[j].gen /\ slots'[j].item = p /\ Holds(j)
        BY <1>1, <1>5, <2>2
      <3>2. p # last
        BY <1>1, <1>5, <2>2
      <3>3. QED
        BY <1>1, <1>4, <2>2, <3>1, <3>2 DEF Keeps
    <2>3. QED
      BY <2>1, <2>2
  <1>6. ASSUME NEW j \in 0 .. slots_len - 1, Odd(slots'[j].gen)
        PROVE  /\ slots'[j].item < last
               /\ pairs'[slots'[j].item + 1].key = [idx |-> j, gen |-> slots'[j].gen]
    <2>1. j # i
      BY <1>1, <1>2, <1>6
    <2>2. CASE j # moved
      <3>1. slots'[j] = slots[j] /\ Holds(j)
        BY <1>1, <1>6, <2>1, <2>2 DEF Holds
      <3>2. At(slots[j].item).key = [idx |-> j, gen |-> slots[j].gen]
        BY <3>1, OnePairEach
      <3>3. slots[j].item \in 0 .. last - 1 /\ pairs'[slots[j].item + 1] = At(slots[j].item)
        BY <1>3, <2>1, <2>2, <3>1
      <3>4. QED
        BY <1>1, <3>1, <3>2, <3>3
    <2>3. CASE j = moved
      <3>1. slots'[j].gen = slots[j].gen /\ slots'[j].item = p
        BY <1>1, <2>1, <2>3
      <3>2. QED
        BY <1>1, <1>4, <2>1, <2>3, <3>1
    <2>4. QED
      BY <2>2, <2>3
  <1>7. ASSUME NEW q \in 0 .. last - 1
        PROVE  /\ pairs'[q + 1].key.idx < slots_len
               /\ slots'[pairs'[q + 1].key.idx] = [gen |-> pairs'[q + 1].key.gen, item |-> q]
    <2>1. CASE q = p
      <3>1. pairs'[q + 1].key = [idx |-> moved, gen |-> slots[moved].gen] /\ moved # i
        BY <1>1, <1>7, <2>1
      <3>2. QED
        BY <1>1, <1>2, <2>1, <3>1
    <2>2. CASE q # p
      <3>0. pairs'[q + 1] = At(q) /\ slots[i].item = p /\ slots[moved].item = last
        BY <1>1, <2>2
      <3>1. q \in 0 .. Len(pairs) - 1 /\ q # last
        BY <1>2 DEF last
      <3>2. /\ At(q).key.idx \in 0 .. slots_len - 1 /\ slots[At(q).key.idx].item = q
            /\ slots[At(q).key.idx] = [gen |-> At(q).key.gen, item |-> q]
        BY <3>1, OneKeyEach
      <3> DEFINE j == At(q).key.idx
      <3> HIDE DEF j
      <3>3. j \in 0 .. slots_len - 1 /\ j # i /\ j # moved
        BY <2>2, <3>0, <3>1, <3>2 DEF j
      <3>4. slots'[j] = slots[j] /\ j < slots_len
        BY <1>1, <1>2, <3>3
      <3>5. QED
        BY <3>0, <3>2, <3>4 DEF j
    <2>3. QED
      BY <2>1, <2>2
  <1>8. SlotsPointAtPairs'
    BY <1>1, <1>6 DEF SlotsPointAtPairs, Odd, At
  <1>9. PairsPointAtSlots'
    BY <1>1, <1>7 DEF PairsPointAtSlots, At
  <1>10. Len(pairs) - 2 = last - 1
    BY <1>2 DEF last
  <1>11. QED
    BY <1>1, <1>5, <1>8, <1>9, <1>10 DEF last

\* Taking out the last pair, whose slot i becomes s, is a swap with itself.
LEMMA LastIsSwap ==
  ASSUME PairsOK, SlotsPointAtPairs, NEW i \in 0 .. slots_len - 1, Holds(i), NEW s,
         slots[i].item = Len(pairs) - 1, slots' = [slots EXCEPT ![i] = s],
         pairs' = SubSeq(pairs, 1, Len(pairs) - 1), slots_len' = slots_len
  PROVE  swap_remove(i, s, Len(pairs) - 1)
  <1> DEFINE last == Len(pairs) - 1
  <1>0. slots[i].item \in 0 .. Len(pairs) - 1 /\ Len(pairs) \in Nat
    BY OnePairEach, Types
  <1>1. last \in Nat
    BY <1>0
  <1>2. pairs \in Seq(AnyPair) /\ DOMAIN slots = 0 .. slots_len - 1
    BY DEF PairsOK, SlotsOK
  <1>3. pairs' = [q \in 1 .. last |-> IF q = last + 1 THEN At(last) ELSE pairs[q]]
    <2>1. SubSeq(pairs, 1, last) = [q \in 1 .. last |-> pairs[q]]
      <3> HIDE DEF last
      <3>1. QED
        BY <1>1, <1>2
    <2> HIDE DEF last
    <2>2. \A q \in 1 .. last : q # last + 1
      BY <1>1
    <2>3. QED
      BY <2>1, <2>2 DEF last
  <1>4. slots' = [j \in 0 .. slots_len - 1 |-> IF j = i THEN s ELSE slots[j]]
    BY <1>2
  <1>5. QED
    BY <1>3, <1>4 DEF swap_remove

-----------------------------------------------------------------------------
(* The pairs stay *)

\* The slot i becomes s and holds no value; other new slots hold none either.
Vacates(i, s) ==
  /\ i \in Nat /\ ~Odd(s.gen) /\ pairs' = pairs
  /\ slots_len' \in Nat /\ slots_len' >= slots_len /\ i < slots_len'
  /\ slots'[i] = s
  /\ \A j \in 0 .. slots_len - 1 : j # i => slots'[j] = slots[j]
  /\ \A j \in slots_len .. slots_len' - 1 : j # i => ~Odd(slots'[j].gen)

LEMMA VacatesKeeps ==
  ASSUME PairsOK, SlotsPointAtPairs, NEW i, NEW s, Vacates(i, s)
  PROVE  /\ SlotsPointAtPairs'
         /\ PairsPointAtSlots /\ (i < slots_len => ~Holds(i)) => PairsPointAtSlots'
         /\ slots'[i] = s
         /\ \A j \in 0 .. slots_len - 1 : j # i => Keeps(j)
  <1>1. PICK m \in Nat : m = slots_len' /\ m >= slots_len /\ i < m
    BY DEF Vacates
  <1>2. /\ slots_len \in Nat /\ pairs' = pairs /\ slots'[i] = s /\ ~Odd(s.gen)
        /\ \A j \in 0 .. slots_len - 1 : j # i => slots'[j] = slots[j]
        /\ \A j \in slots_len .. m - 1 : j # i => ~Odd(slots'[j].gen)
    BY <1>1, Types DEF Vacates
  <1>3. ASSUME NEW j \in 0 .. slots_len - 1, j # i PROVE Keeps(j)
    BY <1>2, <1>3, KeptInPlace DEF At
  <1>4. ASSUME NEW j \in 0 .. m - 1, Odd(slots'[j].gen)
        PROVE  /\ slots'[j].item < Len(pairs)
               /\ At(slots'[j].item).key = [idx |-> j, gen |-> slots'[j].gen]
    <2>0. j # i
      BY <1>2, <1>4
    <2>1. j \in 0 .. slots_len - 1
      <3>1. j \notin slots_len .. m - 1
        BY <1>2, <1>4, <2>0
      <3>2. slots_len \in Nat
        BY Types
      <3>3. QED
        BY <3>1, <3>2
    <2>2. slots'[j] = slots[j] /\ Holds(j)
      BY <1>2, <1>4, <2>0, <2>1 DEF Holds
    <2>3. QED
      BY <2>1, <2>2 DEF SlotsPointAtPairs, Holds, Odd
  <1>5. SlotsPointAtPairs'
    BY <1>1, <1>2, <1>4 DEF SlotsPointAtPairs, Odd, At
  <1>6. ASSUME PairsPointAtSlots, i < slots_len => ~Holds(i)
        PROVE  PairsPointAtSlots'
    <2>1. ASSUME NEW p \in 0 .. Len(pairs) - 1
          PROVE  /\ At(p).key.idx < m
                 /\ slots'[At(p).key.idx] = [gen |-> At(p).key.gen, item |-> p]
      <3>1. /\ At(p).key.idx \in 0 .. slots_len - 1 /\ Holds(At(p).key.idx)
            /\ slots[At(p).key.idx] = [gen |-> At(p).key.gen, item |-> p]
        BY <1>6, OneKeyEach
      <3> DEFINE j == At(p).key.idx
      <3> HIDE DEF j
      <3>2. j \in 0 .. slots_len - 1 /\ j # i
        BY <1>2, <1>6, <3>1 DEF j
      <3>3. slots'[j] = slots[j] /\ j < m
        BY <1>1, <1>2, <3>2
      <3>4. QED
        BY <3>1, <3>3 DEF j
    <2>2. QED
      BY <1>1, <1>2, <2>1 DEF PairsPointAtSlots, At
  <1>7. QED
    BY <1>2, <1>3, <1>5, <1>6

\* The value of slot i becomes v, under the key of index i and generation g.
Overwrites(i, g, v) ==
  /\ i \in 0 .. slots_len - 1 /\ Holds(i)
  /\ Odd(g) /\ [idx |-> i, gen |-> g] \in KeySet /\ v \in Values
  /\ pairs' = [pairs EXCEPT ![slots[i].item + 1] = Pair([idx |-> i, gen |-> g], v)]
  /\ slots_len' = slots_len /\ slots'[i] = [gen |-> g, item |-> slots[i].item]
  /\ \A j \in 0 .. slots_len - 1 : j # i => slots'[j] = slots[j]

LEMMA OverwritesKeeps ==
  ASSUME PairsOK, SlotsPointAtPairs, PairsPointAtSlots, NEW i, NEW g, NEW v, Overwrites(i, g, v)
  PROVE  /\ SlotsPointAtPairs' /\ PairsPointAtSlots'
         /\ slots'[i].gen = g /\ pairs'[slots'[i].item + 1] = Pair([idx |-> i, gen |-> g], v)
         /\ \A j \in 0 .. slots_len - 1 : j # i => Keeps(j)
         /\ pairs' \in Seq(AnyPair) /\ Len(pairs') = Len(pairs)
         /\ \A q \in 0 .. Len(pairs) - 1 : q # slots[i].item => pairs'[q + 1] = At(q)
  <1> DEFINE p == slots[i].item
             k == [idx |-> i, gen |-> g]
             n == Len(pairs)
  <1>1. i \in 0 .. slots_len - 1 /\ Holds(i) /\ slots_len' = slots_len
    BY DEF Overwrites
  <1>2. slots_len \in Nat /\ n \in Nat
    BY Types
  <1>3. p \in 0 .. n - 1 /\ At(p).key.idx = i
    BY <1>1, OnePairEach
  <1>4. Pair(k, v) \in AnyPair /\ Pair(k, v).key = k /\ Odd(g)
    BY DEF Overwrites, Pair, AnyPair
  <1>5. slots'[i] = [gen |-> g, item |-> p]
        /\ pairs' = [pairs EXCEPT ![p + 1] = Pair(k, v)]
    BY DEF Overwrites
  <1>6. \A j \in 0 .. slots_len - 1 : j # i => slots'[j] = slots[j]
    BY DEF Overwrites
  <1>7. slots'[i].gen = g /\ slots'[i].item = p /\ k.idx = i /\ k.gen = g
    BY <1>5
  <1> HIDE DEF k, p, n
  <1>8. /\ pairs' \in Seq(AnyPair) /\ Len(pairs') = n /\ pairs'[p + 1] = Pair(k, v)
        /\ \A q \in 0 .. n - 1 : q # p => pairs'[q + 1] = At(q)
    <2> DEFINE S == AnyPair
               x == Pair(k, v)
    <2>1. pairs \in Seq(S) /\ x \in S /\ pairs' = [pairs EXCEPT ![p + 1] = x]
      BY <1>4, <1>5 DEF PairsOK
    <2> HIDE DEF S, x
    <2>2. /\ pairs' \in Seq(S) /\ Len(pairs') = n /\ pairs'[p + 1] = x
          /\ \A q \in 0 .. n - 1 : q # p => pairs'[q + 1] = pairs[q + 1]
      BY <1>2, <1>3, <2>1 DEF n
    <2>3. QED
      BY <2>2 DEF S, x, At
  <1>9. ASSUME NEW j \in 0 .. slots_len - 1, j # i, Holds(j)
        PROVE  /\ slots[j].item \in 0 .. n - 1 /\ slots[j].item # p
               /\ At(slots[j].item).key = [idx |-> j, gen |-> slots[j].gen]
               /\ pairs'[slots[j].item + 1] = At(slots[j].item)
    <2>1. /\ slots[j].item \in 0 .. n - 1 /\ At(slots[j].item).key.idx = j
          /\ At(slots[j].item).key = [idx |-> j, gen |-> slots[j].gen]
      BY <1>9, OnePairEach DEF n
    <2>2. slots[j].item # p
      BY <1>3, <1>9, <2>1
    <2>3. QED
      BY <1>8, <2>1, <2>2
  <1>10. ASSUME NEW j \in 0 .. slots_len - 1, j # i PROVE Keeps(j)
    BY <1>6, <1>9, <1>10, KeptInPlace
  <1>11. ASSUME NEW j \in 0 .. slots_len - 1, Odd(slots'[j].gen)
        PROVE  /\ slots'[j].item < n
               /\ pairs'[slots'[j].item + 1].key = [idx |-> j, gen |-> slots'[j].gen]
    <2>1. CASE j = i
      BY <1>2, <1>3, <1>4, <1>7, <1>8, <2>1 DEF k
    <2>2. CASE j # i
      <3>1. slots'[j] = slots[j] /\ Holds(j)
        BY <1>6, <1>11, <2>2 DEF Holds
      <3>2. QED
        BY <1>2, <1>9, <2>2, <3>1
    <2>3. QED
      BY <2>1, <2>2
  <1>12. SlotsPointAtPairs'
    BY <1>1, <1>8, <1>11 DEF SlotsPointAtPairs, Odd, At
  <1>13. ASSUME NEW q \in 0 .. n - 1
         PROVE  /\ pairs'[q + 1].key.idx < slots_len
                /\ slots'[pairs'[q + 1].key.idx] = [gen |-> pairs'[q + 1].key.gen, item |-> q]
    <2>1. CASE q = p
      <3>1. pairs'[q + 1].key.idx = i /\ pairs'[q + 1].key.gen = g
        BY <1>4, <1>7, <1>8, <2>1
      <3>2. QED
        BY <1>1, <1>2, <1>5, <2>1, <3>1
    <2>2. CASE q # p
      <3>1. /\ At(q).key.idx \in 0 .. slots_len - 1 /\ slots[At(q).key.idx].item = q
            /\ slots[At(q).key.idx] = [gen |-> At(q).key.gen, item |-> q]
        BY OneKeyEach DEF n
      <3>2. pairs'[q + 1] = At(q)
        BY <1>8, <2>2
      <3> DEFINE j == At(q).key.idx
      <3> HIDE DEF j
      <3>3. j \in 0 .. slots_len - 1 /\ j # i
        BY <2>2, <3>1 DEF j, p
      <3>4. slots'[j] = slots[j] /\ j < slots_len
        BY <1>2, <1>6, <3>3
      <3>5. QED
        BY <3>1, <3>2, <3>4 DEF j
    <2>3. QED
      BY <2>1, <2>2
  <1>14. PairsPointAtSlots'
    BY <1>1, <1>8, <1>13 DEF PairsPointAtSlots, At
  <1>15. QED
    BY <1>7, <1>8, <1>10, <1>12, <1>14 DEF k, p, n
=============================================================================
