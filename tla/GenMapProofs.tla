---------------------------- MODULE GenMapProofs ----------------------------
(***************************************************************************)
(* Theorems about GenMap, for every key type, value type and storage.      *)
(*                                                                         *)
(* First the inductive invariant, IInv, and with it the types and the free *)
(* list.  Then what the callers rely on from one call to the next:         *)
(*                                                                         *)
(* The kept count is exact in every state, the ones between two steps of   *)
(* clear, retain and Drain included.  The argument: every action adds one  *)
(* position to the set of those that hold a value and increments the       *)
(* count, or removes one and decrements it, or does neither; and the count *)
(* cannot wrap, because a map has at most NoSlot slots.                    *)
(*                                                                         *)
(* The room that try_reserve made is still there when it is needed, and    *)
(* the size that a Drain reports is what it has still to yield.            *)
(*                                                                         *)
(* Unless generations wrap, no key is handed out twice, and a key that has *)
(* become stale never matches anything again.  The argument: every slot is *)
(* at least as old as every key that was handed out for it (KeyBound), and *)
(* the next key for it has a larger generation.                            *)
(*                                                                         *)
(* Then all raw parts that follow the rules (GenMapParts): the methods     *)
(* keep the rules, and a slot that is out of use stays out of use.  Any    *)
(* such parts satisfy the inductive invariant of a new map, so its lemmas  *)
(* apply to every step.                                                    *)
(*                                                                         *)
(* Last: GenMap implements KeyedMap, from a new map and from all such      *)
(* parts.  The argument: a step replaces one slot, or adds one, and at its *)
(* index no more than one key is in use, by a value or a reservation.      *)
(* What the slot becomes (Filled, Detached, Vacated) says what becomes of  *)
(* that key, and the keys of other indexes are as before.                  *)
(***************************************************************************)
EXTENDS GenMapParts, FiniteSetTheorems, TLAPS

-----------------------------------------------------------------------------
(* Arithmetic of generations *)

\* The generation after an even one below the largest key generation is one
\* that a key can hold (Even::next in next_target).
LEMMA NextOfEven ==
  ASSUME ConfigAssumption, NEW g \in Nat, ~Odd(g), g < MaxGen
  PROVE  g + 1 \in OddGens
  BY DEF OddGens, Odd, ConfigAssumption

\* The generation after an odd one is even and of the generation type, and
\* unless it wraps it is one more.
LEMMA NextOfOdd ==
  ASSUME ConfigAssumption, NEW g \in OddGens
  PROVE  /\ wrapping_next(g) \in 0 .. GenMax
         /\ ~Odd(wrapping_next(g))
         /\ g < MaxGen => wrapping_next(g) = g + 1 /\ g + 1 < MaxGen
  BY DEF wrapping_next, OddGens, Odd, ConfigAssumption

\* Zero is an even generation below the largest one a key can hold.
LEMMA ZeroIsEven ==
  ASSUME ConfigAssumption
  PROVE  ~Odd(0) /\ 0 < MaxGen /\ 1 \in OddGens
  BY DEF OddGens, Odd, ConfigAssumption

-----------------------------------------------------------------------------
(* The free list *)

\* The fields of the map have their types.
FieldsOK ==
  /\ slots_len \in 0 .. MaxIdx + 1
  /\ slots \in [Positions -> [gen : 0 .. GenMax, item : Values \union 0 .. NoSlot]]
  /\ \A i \in Positions :
       slots[i].item \in IF HoldsValue(i) THEN Values ELSE 0 .. NoSlot
  /\ next_free \in 0 .. NoSlot
  /\ retired \subseteq Positions

\* A list without repetition over the positions 0 .. n - 1 has at most n
\* members.
LEMMA ListFits ==
  ASSUME NEW n \in Nat, NEW k \in Nat, NEW f \in [1 .. k -> 0 .. n - 1],
         \A a, b \in 1 .. k : f[a] = f[b] => a = b
  PROVE  k \in 0 .. n
  <1>1. f \in Injection(1 .. k, 0 .. n - 1)
    BY DEF Injection, IsInjective
  <1>2. IsFiniteSet(0 .. n - 1) /\ Cardinality(0 .. n - 1) = n
    BY FS_Interval
  <1>3. Cardinality(1 .. k) = k
    BY FS_Interval
  <1>4. Cardinality(1 .. k) <= Cardinality(0 .. n - 1)
    BY <1>1, <1>2, FS_Injection
  <1>5. QED
    BY <1>2, <1>3, <1>4

\* Slot i is not on any free list: it holds a value or is detached.
OffList(i) == HoldsValue(i) \/ slots[i].item = i

LEMMA OffListIsOff ==
  ASSUME ConfigAssumption, FieldsOK, NEW i \in Positions, OffList(i),
         NEW k \in Nat, NEW f \in [1 .. k -> Positions], FreeList(f, k),
         NEW a \in 1 .. k
  PROVE  f[a] # i
  <1>1. SUFFICES ASSUME f[a] = i, slots[i].item = i PROVE FALSE
    BY DEF OffList, FreeList
  <1>2. i < NoSlot /\ i \in Nat
    BY DEF FieldsOK, Positions, ConfigAssumption
  <1>3. CASE a = 1
    BY <1>1, <1>2, <1>3 DEF FreeList
  <1>4. CASE a # 1
    <2>1. a - 1 \in 1 .. k /\ a - 1 # a
      BY <1>4
    <2>2. f[a - 1] = f[a]
      BY <1>1, <1>4 DEF FreeList
    <2>3. QED
      BY <2>1, <2>2 DEF FreeList
  <1>5. QED
    BY <1>3, <1>4

\* A slot that is not on the free list is rewritten: it holds a value, is
\* detached or is retired afterwards (attach, detach, retire, a value written,
\* a slot whose generation ran out).
LEMMA KeepList ==
  ASSUME ConfigAssumption, FieldsOK, FreeListComplete,
         NEW i \in Positions, OffList(i), NEW s,
         slots' = [slots EXCEPT ![i] = s],
         slots_len' = slots_len, next_free' = next_free,
         \/ retired' = retired /\ (Odd(s.gen) \/ s.item = i)
         \/ retired' = retired \union {i}
  PROVE  FreeListComplete'
  <1>0. PICK k \in 0 .. slots_len :
          \E f \in [1 .. k -> Positions] : FreeList(f, k) /\ Lists(f, k)
    BY DEF FreeListComplete
  <1>1. PICK f \in [1 .. k -> Positions] : FreeList(f, k) /\ Lists(f, k)
    BY <1>0
  <1>2. slots_len \in Nat /\ Positions' = Positions
        /\ DOMAIN slots = Positions
    BY DEF FieldsOK, Positions
  <1>3. \A a \in 1 .. k : f[a] \in Positions /\ f[a] # i
                          /\ slots'[f[a]] = slots[f[a]]
    BY <1>1, <1>2, OffListIsOff
  <1>4. slots'[i] = s /\ \A j \in Positions : j # i => slots'[j] = slots[j]
    BY <1>2
  <1>5. FreeList(f, k)'
    BY <1>1, <1>3 DEF FreeList, HoldsValue
  <1>6. Lists(f, k)'
    BY <1>1, <1>2, <1>3, <1>4 DEF Lists, HoldsValue
  <1>7. QED
    BY <1>1, <1>2, <1>5, <1>6 DEF FreeListComplete

\* A new slot that holds a value or is detached is pushed.
LEMMA GrowList ==
  ASSUME ConfigAssumption, FieldsOK, FreeListComplete,
         NEW s, Odd(s.gen) \/ s.item = slots_len,
         push(s), next_free' = next_free, retired' = retired
  PROVE  FreeListComplete'
  <1>0. PICK k \in 0 .. slots_len :
          \E f \in [1 .. k -> Positions] : FreeList(f, k) /\ Lists(f, k)
    BY DEF FreeListComplete
  <1>1. PICK f \in [1 .. k -> Positions] : FreeList(f, k) /\ Lists(f, k)
    BY <1>0
  <1>2. slots_len \in Nat /\ Positions' = Positions \union {slots_len}
        /\ slots_len \notin Positions
    BY DEF FieldsOK, Positions, push
  <1>3. slots'[slots_len] = s /\ \A j \in Positions : slots'[j] = slots[j]
    BY <1>2 DEF push, Positions
  <1>4. FreeList(f, k)'
    BY <1>1, <1>3 DEF FreeList, HoldsValue
  <1>5. Lists(f, k)'
    BY <1>1, <1>2, <1>3 DEF Lists, HoldsValue
  <1>6. k \in 0 .. slots_len' /\ f \in [1 .. k -> Positions']
    BY <1>1, <1>2 DEF push
  <1>7. QED
    BY <1>4, <1>5, <1>6 DEF FreeListComplete

\* A slot that is not on the list becomes its head (freed_parts when the slot
\* does not retire).
LEMMA PushList ==
  ASSUME ConfigAssumption, FieldsOK, FreeListComplete,
         NEW i \in Positions, OffList(i), i \notin retired,
         NEW g \in Nat, ~Odd(g), g < MaxGen,
         slots' = [slots EXCEPT ![i] = Slot(g, next_free)],
         slots_len' = slots_len, next_free' = i, retired' = retired
  PROVE  FreeListComplete'
  <1>0. PICK k \in 0 .. slots_len :
          \E f \in [1 .. k -> Positions] : FreeList(f, k) /\ Lists(f, k)
    BY DEF FreeListComplete
  <1>1. PICK f \in [1 .. k -> Positions] : FreeList(f, k) /\ Lists(f, k)
    BY <1>0
  <1>2. slots_len \in Nat /\ Positions' = Positions
        /\ DOMAIN slots = Positions
    BY DEF FieldsOK, Positions
  <1> DEFINE h == [a \in 1 .. k + 1 |-> IF a = k + 1 THEN i ELSE f[a]]
  <1>3. \A a \in 1 .. k : f[a] \in Positions /\ f[a] # i
                          /\ slots'[f[a]] = slots[f[a]] /\ h[a] = f[a]
    BY <1>1, <1>2, OffListIsOff
  <1>4. slots'[i] = Slot(g, next_free) /\ h[k + 1] = i
        /\ \A j \in Positions : j # i => slots'[j] = slots[j]
    BY <1>1, <1>2
  <1>5. k + 1 \in Nat /\ \A a \in 1 .. k + 1 : a \in 1 .. k \/ a = k + 1
    BY <1>1
  <1>6. \A a, b \in 1 .. k + 1 : h[a] = h[b] => a = b
    BY <1>1, <1>3, <1>4, <1>5 DEF FreeList
  <1>7. h \in [1 .. k + 1 -> Positions]
    BY <1>1
  <1>8. k + 1 \in 0 .. slots_len
    BY <1>2, <1>5, <1>6, <1>7, ListFits DEF Positions
  <1>9. FreeList(h, k + 1)'
    <2>1. next_free' = h[k + 1] /\ k + 1 # 0
      BY <1>1, <1>4
    <2>2. ASSUME NEW a \in 1 .. k + 1
          PROVE  /\ slots'[h[a]].gen < MaxGen /\ ~Odd(slots'[h[a]].gen)
                 /\ slots'[h[a]].item = IF a = 1 THEN NoSlot ELSE h[a - 1]
      <3>1. CASE a \in 1 .. k
        <4>1. slots'[h[a]] = slots[f[a]]
          BY <1>3, <3>1
        <4>2. /\ slots[f[a]].gen < MaxGen /\ ~Odd(slots[f[a]].gen)
              /\ slots[f[a]].item = IF a = 1 THEN NoSlot ELSE f[a - 1]
          BY <1>1, <3>1 DEF FreeList, HoldsValue
        <4>3. a # 1 => h[a - 1] = f[a - 1]
          BY <1>3, <3>1
        <4>4. QED
          BY <4>1, <4>2, <4>3
      <3>2. CASE a = k + 1
        <4>1. slots'[h[a]].gen = g /\ slots'[h[a]].item = next_free
          BY <1>4, <3>2 DEF Slot
        <4>2. next_free = IF a = 1 THEN NoSlot ELSE h[a - 1]
          <5>1. CASE k = 0
            BY <1>1, <3>2, <5>1 DEF FreeList
          <5>2. CASE k # 0
            <6>1. k \in 1 .. k /\ a # 1 /\ a - 1 = k
              BY <3>2, <5>2, <1>1
            <6>2. QED
              BY <1>1, <1>3, <5>2, <6>1 DEF FreeList
          <5>3. QED
            BY <5>1, <5>2
        <4>3. QED
          BY <4>1, <4>2
      <3>3. QED
        BY <1>5, <3>1, <3>2
    <2>3. QED
      BY <1>6, <2>1, <2>2 DEF FreeList, HoldsValue
  <1>10. Lists(h, k + 1)'
    <2>1. ASSUME NEW j \in Positions, ~Odd(slots'[j].gen)
          PROVE  \/ \E a \in 1 .. k + 1 : h[a] = j
                 \/ slots'[j].item = j
                 \/ j \in retired
      <3>1. CASE j = i
        BY <1>1, <1>4, <3>1
      <3>2. CASE j # i
        <4>1. \/ \E a \in 1 .. k : f[a] = j
              \/ slots[j].item = j
              \/ j \in retired
          BY <1>1, <1>4, <2>1, <3>2 DEF Lists, HoldsValue
        <4>2. QED
          BY <1>1, <1>3, <1>4, <3>2, <4>1
      <3>3. QED
        BY <3>1, <3>2
    <2>2. \A a \in 1 .. k + 1 : h[a] \notin retired
      BY <1>1, <1>3, <1>4, <1>5 DEF Lists
    <2>3. QED
      BY <1>2, <2>1, <2>2 DEF Lists, HoldsValue
  <1>11. QED
    BY <1>2, <1>7, <1>8, <1>9, <1>10 DEF FreeListComplete

\* The head of the list leaves it: it holds a value or is detached afterwards
\* (fill and try_reserve_key from the free list).
LEMMA PopList ==
  ASSUME ConfigAssumption, FieldsOK, FreeListComplete, next_free # NoSlot,
         NEW s, Odd(s.gen) \/ s.item = next_free,
         slots' = [slots EXCEPT ![next_free] = s],
         slots_len' = slots_len, next_free' = slots[next_free].item,
         retired' = retired
  PROVE  FreeListComplete'
  <1>0. PICK k \in 0 .. slots_len :
          \E f \in [1 .. k -> Positions] : FreeList(f, k) /\ Lists(f, k)
    BY DEF FreeListComplete
  <1>1. PICK f \in [1 .. k -> Positions] : FreeList(f, k) /\ Lists(f, k)
    BY <1>0
  <1>2. slots_len \in Nat /\ Positions' = Positions
        /\ DOMAIN slots = Positions
    BY DEF FieldsOK, Positions
  <1> DEFINE h == [a \in 1 .. k - 1 |-> f[a]]
  <1>3. k \in 1 .. k /\ k - 1 \in 0 .. slots_len /\ next_free = f[k]
        /\ next_free \in Positions
    BY <1>1, <1>2 DEF FreeList
  <1>4. \A a \in 1 .. k - 1 : a \in 1 .. k /\ f[a] \in Positions
                              /\ f[a] # next_free /\ h[a] = f[a]
    BY <1>1, <1>3 DEF FreeList
  <1>5. slots'[next_free] = s
        /\ \A j \in Positions : j # next_free => slots'[j] = slots[j]
    BY <1>2, <1>3
  <1>6. FreeList(h, k - 1)'
    <2>1. next_free' = IF k - 1 = 0 THEN NoSlot ELSE h[k - 1]
      <3>1. next_free' = IF k = 1 THEN NoSlot ELSE f[k - 1]
        BY <1>1, <1>3 DEF FreeList
      <3>2. k # 1 => k - 1 \in 1 .. k - 1
        BY <1>3
      <3>3. QED
        BY <1>3, <1>4, <3>1, <3>2
    <2>2. \A a, b \in 1 .. k - 1 : h[a] = h[b] => a = b
      BY <1>1, <1>4 DEF FreeList
    <2>3. ASSUME NEW a \in 1 .. k - 1
          PROVE  /\ slots'[h[a]].gen < MaxGen /\ ~Odd(slots'[h[a]].gen)
                 /\ slots'[h[a]].item = IF a = 1 THEN NoSlot ELSE h[a - 1]
      <3>1. slots'[h[a]] = slots[f[a]]
        BY <1>4, <1>5
      <3>2. /\ slots[f[a]].gen < MaxGen /\ ~Odd(slots[f[a]].gen)
            /\ slots[f[a]].item = IF a = 1 THEN NoSlot ELSE f[a - 1]
        BY <1>1, <1>4 DEF FreeList, HoldsValue
      <3>3. a # 1 => a - 1 \in 1 .. k - 1
        BY <1>3
      <3>4. QED
        BY <1>4, <3>1, <3>2, <3>3
    <2>4. QED
      BY <2>1, <2>2, <2>3 DEF FreeList, HoldsValue
  <1>7. Lists(h, k - 1)'
    <2>1. ASSUME NEW j \in Positions, ~Odd(slots'[j].gen)
          PROVE  \/ \E a \in 1 .. k - 1 : h[a] = j
                 \/ slots'[j].item = j
                 \/ j \in retired
      <3>1. CASE j = next_free
        BY <1>5, <2>1, <3>1
      <3>2. CASE j # next_free
        <4>1. \/ \E a \in 1 .. k : f[a] = j
              \/ slots[j].item = j
              \/ j \in retired
          BY <1>1, <1>5, <2>1, <3>2 DEF Lists, HoldsValue
        <4>2. ASSUME NEW a \in 1 .. k, f[a] = j PROVE a \in 1 .. k - 1
          BY <1>3, <3>2, <4>2
        <4>3. QED
          BY <1>4, <1>5, <3>2, <4>1, <4>2
      <3>3. QED
        BY <3>1, <3>2
    <2>2. \A a \in 1 .. k - 1 : h[a] \notin retired
      BY <1>1, <1>4 DEF Lists
    <2>3. QED
      BY <1>2, <2>1, <2>2 DEF Lists, HoldsValue
  <1>8. h \in [1 .. k - 1 -> Positions]
    BY <1>4
  <1>9. QED
    BY <1>2, <1>3, <1>6, <1>7, <1>8 DEF FreeListComplete

\* The head of the list is a vacant slot whose next generation a key can hold,
\* it is not retired, and its link is of the index type.
LEMMA HeadOfList ==
  ASSUME ConfigAssumption, FieldsOK, FreeListComplete, next_free # NoSlot
  PROVE  /\ next_free \in Positions
         /\ ~HoldsValue(next_free) /\ slots[next_free].gen < MaxGen
         /\ slots[next_free].gen + 1 \in OddGens
         /\ slots[next_free].item \in 0 .. NoSlot
         /\ slots[next_free].item # next_free
         /\ next_free \notin retired
  <1>0. PICK k \in 0 .. slots_len :
          \E f \in [1 .. k -> Positions] : FreeList(f, k) /\ Lists(f, k)
    BY DEF FreeListComplete
  <1>1. PICK f \in [1 .. k -> Positions] : FreeList(f, k) /\ Lists(f, k)
    BY <1>0
  <1>2. k \in Nat /\ k \in 1 .. k /\ next_free = f[k]
    BY <1>1 DEF FreeList, FieldsOK
  <1>3. /\ next_free \in Positions /\ ~HoldsValue(next_free)
        /\ slots[next_free].gen < MaxGen /\ next_free \notin retired
    BY <1>1, <1>2 DEF FreeList, Lists
  <1>4. slots[next_free].gen \in Nat /\ slots[next_free].item \in 0 .. NoSlot
    BY <1>3 DEF FieldsOK
  <1>5. slots[next_free].item # next_free
    BY <1>1, <1>2, <1>3, OffListIsOff DEF OffList
  <1>6. QED
    BY <1>3, <1>4, <1>5, NextOfEven DEF HoldsValue

-----------------------------------------------------------------------------
(* The inductive invariant *)

\* A retired slot holds no value and is not detached.
RetiredInert == \A i \in retired : ~HoldsValue(i) /\ slots[i].item # i

\* The fields of the map are in order.
DataOK == FieldsOK /\ FreeListComplete /\ KeysFit /\ RetiredInert

\* The count, the storage and the method in progress: the target a VacantEntry
\* holds is what next_target would pick, and a new slot has index and room.
CallOK ==
  /\ len \in 0 .. NoSlot
  /\ capacity \in slots_len .. StorageMax
  /\ mode \in {"idle", "entry", "clear", "retain", "drain"}
  /\ IF mode = "entry"
     THEN /\ target = Target
          /\ next_free = NoSlot => slots_len <= MaxIdx /\ slots_len < capacity
     ELSE target = NoTarget
  /\ position \in 0 .. MaxIdx + 1
  /\ issued \subseteq Keys
  /\ promised \in 0 .. ReserveMax

IInv == DataOK /\ CallOK

\* What the slot at position i may become once it leaves the free list, or
\* while it stays off it.
GoodSlot(s, i) ==
  /\ s \in [gen : 0 .. GenMax, item : Values \union 0 .. NoSlot]
  /\ Odd(s.gen) => s.gen \in OddGens /\ s.item \in Values
  /\ ~Odd(s.gen) => s.item = i

\* The target next_target picks has an index and a generation of a key.
LEMMA TargetIsKey ==
  ASSUME ConfigAssumption, FieldsOK, FreeListComplete,
         next_free = NoSlot => slots_len <= MaxIdx
  PROVE  /\ Target.idx \in 0 .. MaxIdx /\ Target.gen \in OddGens
         /\ Target.from_free_list <=> next_free # NoSlot
         /\ Target \in [idx : 0 .. NoSlot, gen : OddGens, from_free_list : BOOLEAN]
  <1>1. CASE next_free # NoSlot
    <2>1. next_free \in 0 .. MaxIdx /\ slots[next_free].gen + 1 \in OddGens
      BY <1>1, HeadOfList DEF FieldsOK, Positions
    <2>2. Target = [idx |-> next_free, gen |-> slots[next_free].gen + 1,
                    from_free_list |-> TRUE]
      BY <1>1 DEF Target
    <2>3. QED
      BY <1>1, <2>1, <2>2 DEF ConfigAssumption
  <1>2. CASE next_free = NoSlot
    <2>1. Target = [idx |-> slots_len, gen |-> 1, from_free_list |-> FALSE]
      BY <1>2 DEF Target
    <2>2. slots_len \in 0 .. MaxIdx /\ 1 \in OddGens
      BY <1>2, ZeroIsEven DEF FieldsOK, ConfigAssumption
    <2>3. QED
      BY <1>2, <2>1, <2>2 DEF ConfigAssumption
  <1>3. QED
    BY <1>1, <1>2

\* The inductive invariant implies the type invariant of the module.
LEMMA InvImpliesTypes ==
  ASSUME ConfigAssumption, IInv
  PROVE  TypeOK
  <1>1. target \in [idx : 0 .. NoSlot, gen : OddGens, from_free_list : BOOLEAN]
    <2>1. CASE mode # "entry"
      <3>1. target = NoTarget
        BY <2>1 DEF IInv, CallOK
      <3>2. NoSlot \in 0 .. NoSlot /\ 1 \in OddGens
        BY ZeroIsEven DEF ConfigAssumption
      <3>3. QED
        BY <3>1, <3>2 DEF NoTarget
    <2>2. CASE mode = "entry"
      BY <2>2, TargetIsKey DEF IInv, DataOK, CallOK
    <2>3. QED
      BY <2>1, <2>2
  <1>2. QED
    BY <1>1 DEF IInv, DataOK, FieldsOK, CallOK, TypeOK

\* A slot off the free list is rewritten (attach, detach, retire, get_mut).
LEMMA RewriteKeepsData ==
  ASSUME ConfigAssumption, IInv, NEW i \in Positions, OffList(i), i \notin retired,
         NEW s,
         slots' = [slots EXCEPT ![i] = s],
         slots_len' = slots_len, next_free' = next_free,
         \/ GoodSlot(s, i) /\ retired' = retired
         \/ s = Slot(0, NoSlot) /\ retired' = retired \union {i}
  PROVE  DataOK'
  <1>1. FieldsOK /\ FreeListComplete
    BY DEF IInv, DataOK
  <1>2. Positions' = Positions /\ slots'[i] = s
        /\ \A j \in Positions : j # i => slots'[j] = slots[j]
    BY DEF Positions, IInv, DataOK, FieldsOK
  <1>3. FreeListComplete'
    <2>1. \/ retired' = retired /\ (Odd(s.gen) \/ s.item = i)
          \/ retired' = retired \union {i}
      BY DEF GoodSlot
    <2>2. QED
      BY <1>1, <2>1, KeepList
  <1>4. /\ s \in [gen : 0 .. GenMax, item : Values \union 0 .. NoSlot]
        /\ Odd(s.gen) => s.gen <= MaxGen /\ s.item \in Values
        /\ ~Odd(s.gen) => s.item \in 0 .. NoSlot
    <2>1. i \in 0 .. NoSlot
      BY DEF IInv, DataOK, FieldsOK, Positions, ConfigAssumption
    <2>2. QED
      BY <2>1, ZeroIsEven DEF GoodSlot, Slot, OddGens, ConfigAssumption
  <1>5. /\ slots' \in [Positions -> [gen : 0 .. GenMax, item : Values \union 0 .. NoSlot]]
        /\ \A j \in Positions :
             slots'[j].item \in IF Odd(slots'[j].gen) THEN Values ELSE 0 .. NoSlot
    BY <1>2, <1>4 DEF IInv, DataOK, FieldsOK, HoldsValue
  <1>6. KeysFit'
    BY <1>2, <1>4 DEF IInv, DataOK, FieldsOK, KeysFit, HoldsValue
  <1>7. RetiredInert' /\ retired' \subseteq Positions
    <2>1. i # NoSlot /\ ~Odd(Slot(0, NoSlot).gen) /\ Slot(0, NoSlot).item = NoSlot
      BY ZeroIsEven DEF IInv, DataOK, FieldsOK, Positions, Slot, ConfigAssumption
    <2>2. QED
      BY <1>2, <2>1 DEF IInv, DataOK, FieldsOK, RetiredInert, HoldsValue
  <1>8. QED
    BY <1>2, <1>3, <1>5, <1>6, <1>7 DEF IInv, DataOK, FieldsOK, HoldsValue

\* A slot off the free list is freed or retires (remove, release, and the
\* steps of clear, retain and Drain).
LEMMA FreeKeepsData ==
  ASSUME ConfigAssumption, IInv, NEW i \in Positions, OffList(i), i \notin retired,
         NEW g \in OddGens, Free(i, g)
  PROVE  DataOK'
  <1>1. FieldsOK /\ FreeListComplete
    BY DEF IInv, DataOK
  <1>2. CASE RunsOut(g)
    <2>1. freed_parts(i, g) = [slot |-> Slot(0, NoSlot), head |-> next_free]
      BY <1>2 DEF freed_parts, RunsOut
    <2>2. /\ slots' = [slots EXCEPT ![i] = Slot(0, NoSlot)]
          /\ next_free' = next_free /\ slots_len' = slots_len
          /\ retired' = retired \union {i}
      BY <1>2, <2>1 DEF Free
    <2>3. QED
      BY <2>2, RewriteKeepsData
  <1>3. CASE ~RunsOut(g)
    <2> DEFINE n == IF g = MaxGen THEN 0 ELSE wrapping_next(g)
    <2>1. freed_parts(i, g) = [slot |-> Slot(n, next_free), head |-> i]
      BY <1>3 DEF freed_parts
    <2>2. /\ slots' = [slots EXCEPT ![i] = Slot(n, next_free)]
          /\ next_free' = i /\ slots_len' = slots_len /\ retired' = retired
      BY <1>3, <2>1 DEF Free
    <2>3. g <= MaxGen /\ g \in Nat
      BY DEF OddGens
    <2>4. n \in 0 .. GenMax /\ n \in Nat /\ ~Odd(n) /\ n < MaxGen
      BY <2>3, NextOfOdd, ZeroIsEven DEF ConfigAssumption
    <2> HIDE DEF n
    <2>5. FreeListComplete'
      BY <1>1, <2>2, <2>4, PushList
    <2>6. Positions' = Positions /\ slots'[i] = Slot(n, next_free)
          /\ \A j \in Positions : j # i => slots'[j] = slots[j]
      BY <1>1, <2>2 DEF Positions, FieldsOK
    <2>7. i \in 0 .. NoSlot
      BY <1>1 DEF FieldsOK, Positions, ConfigAssumption
    <2>8. Slot(n, next_free) \in [gen : 0 .. GenMax, item : Values \union 0 .. NoSlot]
      BY <1>1, <2>4 DEF FieldsOK, Slot
    <2>9. FieldsOK'
      <3>1. slots' \in [Positions -> [gen : 0 .. GenMax, item : Values \union 0 .. NoSlot]]
        BY <1>1, <2>2, <2>8 DEF FieldsOK
      <3>2. \A j \in Positions :
              slots'[j].item \in IF Odd(slots'[j].gen) THEN Values ELSE 0 .. NoSlot
        BY <1>1, <2>4, <2>6 DEF FieldsOK, HoldsValue, Slot
      <3>3. QED
        BY <1>1, <2>2, <2>6, <2>7, <3>1, <3>2 DEF FieldsOK, HoldsValue
    <2>10. KeysFit'
      BY <2>4, <2>6 DEF IInv, DataOK, KeysFit, HoldsValue, Slot
    <2>11. RetiredInert'
      BY <1>1, <2>2, <2>6 DEF IInv, DataOK, RetiredInert, FieldsOK, HoldsValue
    <2>12. QED
      BY <2>5, <2>9, <2>10, <2>11 DEF DataOK
  <1>4. QED
    BY <1>2, <1>3

\* The slot next_target picked, free or new, leaves the free list or is pushed
\* (fill, try_reserve_key).
LEMMA OccupyKeepsData ==
  ASSUME ConfigAssumption, IInv, next_free = NoSlot => slots_len <= MaxIdx,
         NEW s, GoodSlot(s, Target.idx), Occupy(Target, s), retired' = retired
  PROVE  DataOK'
  <1>1. FieldsOK /\ FreeListComplete /\ KeysFit /\ RetiredInert
    BY DEF IInv, DataOK
  <1>2. s.gen \in 0 .. GenMax /\ s \in [gen : 0 .. GenMax, item : Values \union 0 .. NoSlot]
    BY DEF GoodSlot
  <1>3. CASE next_free # NoSlot
    <2>1. /\ Target.from_free_list /\ Target.idx = next_free
      BY <1>3 DEF Target
    <2>2. /\ next_free' = slots[next_free].item
          /\ slots' = [slots EXCEPT ![next_free] = s]
          /\ slots_len' = slots_len
      BY <2>1 DEF Occupy
    <2>3. Odd(s.gen) \/ s.item = next_free
      BY <2>1 DEF GoodSlot
    <2>4. FreeListComplete'
      BY <1>1, <1>3, <2>2, <2>3, PopList
    <2>5. /\ next_free \in Positions /\ slots[next_free].item \in 0 .. NoSlot
          /\ next_free \notin retired /\ next_free \in 0 .. NoSlot
      BY <1>1, <1>3, HeadOfList DEF FieldsOK
    <2>6. Positions' = Positions /\ slots'[next_free] = s
          /\ \A j \in Positions : j # next_free => slots'[j] = slots[j]
      BY <1>1, <2>2, <2>5 DEF Positions, FieldsOK
    <2>7. FieldsOK'
      <3>1. slots' \in [Positions -> [gen : 0 .. GenMax, item : Values \union 0 .. NoSlot]]
        BY <1>1, <1>2, <2>2 DEF FieldsOK
      <3>2. \A j \in Positions :
              slots'[j].item \in IF Odd(slots'[j].gen) THEN Values ELSE 0 .. NoSlot
        BY <1>1, <2>1, <2>5, <2>6 DEF FieldsOK, HoldsValue, GoodSlot
      <3>3. QED
        BY <1>1, <2>2, <2>5, <2>6, <3>1, <3>2 DEF FieldsOK, HoldsValue
    <2>8. KeysFit'
      BY <1>1, <2>6 DEF KeysFit, HoldsValue, GoodSlot, OddGens
    <2>9. RetiredInert'
      BY <1>1, <2>5, <2>6 DEF RetiredInert, FieldsOK, HoldsValue
    <2>10. QED
      BY <2>4, <2>7, <2>8, <2>9 DEF DataOK
  <1>4. CASE next_free = NoSlot
    <2>1. ~Target.from_free_list /\ Target.idx = slots_len
      BY <1>4 DEF Target
    <2>2. push(s) /\ next_free' = next_free
      BY <2>1 DEF Occupy
    <2>3. Odd(s.gen) \/ s.item = slots_len
      BY <2>1 DEF GoodSlot
    <2>4. FreeListComplete'
      BY <1>1, <2>2, <2>3, GrowList
    <2>5. /\ slots_len \in Nat /\ slots_len' \in 0 .. MaxIdx + 1
          /\ Positions' = Positions \union {slots_len}
          /\ slots_len \notin Positions /\ slots_len \in 0 .. NoSlot
      BY <1>1, <1>4, <2>2 DEF FieldsOK, Positions, push, ConfigAssumption
    <2>6. slots'[slots_len] = s /\ \A j \in Positions : slots'[j] = slots[j]
      BY <2>2, <2>5 DEF push, Positions
    <2>7. FieldsOK'
      <3>1. slots' \in [Positions' -> [gen : 0 .. GenMax, item : Values \union 0 .. NoSlot]]
        <4>1. slots' = [i \in Positions' |-> IF i = slots_len THEN s ELSE slots[i]]
          BY <2>2, <2>5 DEF push, Positions
        <4>2. QED
          BY <1>1, <1>2, <2>5, <4>1 DEF FieldsOK
      <3>2. \A j \in Positions' :
              slots'[j].item \in IF Odd(slots'[j].gen) THEN Values ELSE 0 .. NoSlot
        BY <1>1, <2>1, <2>5, <2>6 DEF FieldsOK, HoldsValue, GoodSlot
      <3>3. QED
        BY <1>1, <2>2, <2>5, <3>1, <3>2 DEF FieldsOK, HoldsValue
    <2>8. KeysFit'
      BY <1>1, <2>5, <2>6 DEF KeysFit, HoldsValue, GoodSlot, OddGens
    <2>9. RetiredInert'
      BY <1>1, <2>5, <2>6 DEF RetiredInert, FieldsOK, HoldsValue
    <2>10. QED
      BY <2>4, <2>7, <2>8, <2>9 DEF DataOK
  <1>5. QED
    BY <1>3, <1>4

\* A step that leaves the fields alone leaves them in order.
LEMMA SameData ==
  ASSUME DataOK, UNCHANGED <<data, retired>>
  PROVE  DataOK' /\ Target' = Target
  BY DEF data, DataOK, FieldsOK, FreeListComplete, FreeList, Lists, HoldsValue,
         Positions, KeysFit, RetiredInert, Target

\* A slot that holds a value or is detached is not retired, and the index and
\* the generation of its key are those of a key.
LEMMA OffListNotRetired ==
  ASSUME ConfigAssumption, DataOK, NEW i \in Positions, OffList(i)
  PROVE  /\ i \notin retired
         /\ i \in 0 .. MaxIdx /\ i < NoSlot
         /\ HoldsValue(i) => slots[i].gen \in OddGens
  <1>1. i \in 0 .. MaxIdx /\ i < NoSlot /\ i \in Nat
    BY DEF DataOK, FieldsOK, Positions, ConfigAssumption
  <1>2. i \notin retired
    BY <1>1, ZeroIsEven DEF DataOK, RetiredInert, OffList, HoldsValue, Slot
  <1>3. HoldsValue(i) => slots[i].gen \in OddGens
    BY DEF DataOK, FieldsOK, KeysFit, HoldsValue, OddGens
  <1>4. QED
    BY <1>1, <1>2, <1>3

\* The count stays in the index type.
LEMMA LenInRange ==
  ASSUME ConfigAssumption, len \in 0 .. NoSlot, increment_len \/ decrement_len
  PROVE  len' \in 0 .. NoSlot
  BY DEF increment_len, decrement_len, ConfigAssumption

\* next_target finds an index and makes room for the slot it picks.
LEMMA RoomForTarget ==
  ASSUME ConfigAssumption, IInv, next_target
  PROVE  /\ next_free = NoSlot => slots_len <= MaxIdx /\ slots_len < capacity'
         /\ capacity' \in slots_len .. StorageMax
  BY DEF IInv, CallOK, DataOK, FieldsOK, next_target, ensure_room, ConfigAssumption

\* The target is occupied within the room there is.
LEMMA OccupyFits ==
  ASSUME ConfigAssumption, IInv, NEW s, Occupy(Target, s),
         next_free = NoSlot => slots_len < capacity',
         capacity' \in slots_len .. StorageMax
  PROVE  capacity' \in slots_len' .. StorageMax
  BY DEF IInv, DataOK, FieldsOK, Occupy, push, Target, ConfigAssumption

\* The key of the target is handed out.
LEMMA IssueKeepsTypes ==
  ASSUME ConfigAssumption, IInv, next_free = NoSlot => slots_len <= MaxIdx,
         Issue(Target)
  PROVE  issued' \subseteq Keys /\ promised' \in 0 .. ReserveMax
  <1>1. Key(Target.idx, Target.gen) \in Keys
    BY TargetIsKey DEF IInv, DataOK, Key, Keys
  <1>2. QED
    BY <1>1, ReserveAssumption DEF Issue, HandOut, IInv, CallOK, ConfigAssumption

\* The slot of an inserted value, and that of a reserved key.
LEMMA FilledIsGood ==
  ASSUME ConfigAssumption, IInv, next_free = NoSlot => slots_len <= MaxIdx
  PROVE  /\ \A v \in Values : GoodSlot(Slot(Target.gen, v), Target.idx)
         /\ GoodSlot(Slot(detached_generation(Target.gen), Target.idx), Target.idx)
  <1>1. Target.idx \in 0 .. NoSlot /\ Target.gen \in OddGens
    BY TargetIsKey DEF IInv, DataOK, ConfigAssumption
  <1>2. Target.gen \in 0 .. GenMax /\ Odd(Target.gen)
    BY <1>1 DEF OddGens, ConfigAssumption
  <1>3. /\ detached_generation(Target.gen) \in 0 .. GenMax
        /\ ~Odd(detached_generation(Target.gen))
    BY <1>1, NextOfOdd DEF detached_generation
  <1>4. QED
    BY <1>1, <1>2, <1>3 DEF GoodSlot, Slot

LEMMA InitInv ==
  ASSUME ConfigAssumption, Init
  PROVE  IInv
  <1>1. Positions = {}
    BY DEF Init, Positions
  <1>2. FreeListComplete
    <2> DEFINE f == [a \in 1 .. 0 |-> 0]
    <2>1. f \in [1 .. 0 -> Positions]
      OBVIOUS
    <2>2. FreeList(f, 0) /\ Lists(f, 0)
      BY <1>1 DEF Init, FreeList, Lists
    <2>3. 0 \in 0 .. slots_len
      BY DEF Init
    <2>4. QED
      BY <2>1, <2>2, <2>3 DEF FreeListComplete
  <1>3. DataOK
    BY <1>1, <1>2 DEF Init, DataOK, FieldsOK, KeysFit, RetiredInert, ConfigAssumption
  <1>4. CallOK
    BY ReserveAssumption DEF Init, CallOK, ConfigAssumption
  <1>5. QED
    BY <1>3, <1>4 DEF IInv

\* Every step keeps the inductive invariant.
LEMMA StepInv ==
  ASSUME ConfigAssumption, IInv, [Next]_vars
  PROVE  IInv'
  <1> USE DEF IInv
  <1>0. /\ DataOK /\ slots_len \in Nat /\ slots_len <= MaxIdx + 1
        /\ capacity \in slots_len .. StorageMax
    BY DEF DataOK, FieldsOK, CallOK, ConfigAssumption
  <1>1. ASSUME NEW v \in Values, Insert(v) PROVE IInv'
    <2>1. next_target /\ mode = "idle" /\ Occupy(Target, Slot(Target.gen, v))
          /\ increment_len /\ Issue(Target) /\ UNCHANGED <<call, retired>>
      BY <1>1 DEF Insert, fill
    <2>2. DataOK'
      BY <2>1, RoomForTarget, FilledIsGood, OccupyKeepsData
    <2>3. capacity' \in slots_len' .. StorageMax
      BY <2>1, RoomForTarget, OccupyFits
    <2>4. issued' \subseteq Keys /\ promised' \in 0 .. ReserveMax
      BY <2>1, RoomForTarget, IssueKeepsTypes
    <2>5. len' \in 0 .. NoSlot
      BY <2>1, LenInRange DEF CallOK
    <2>6. QED
      BY <2>1, <2>2, <2>3, <2>4, <2>5 DEF CallOK, call
  <1>2. CASE VacantEntry
    <2>1. next_target /\ mode' = "entry" /\ target' = Target
          /\ UNCHANGED <<data, position, issued, retired, promised>>
      BY <1>2 DEF VacantEntry
    <2>2. DataOK' /\ Target' = Target
      BY <1>0, <2>1, SameData
    <2>3. QED
      BY <2>1, <2>2, RoomForTarget DEF CallOK, data
  <1>3. ASSUME NEW v \in Values, EntryInsert(v) PROVE IInv'
    <2>1. /\ target = Target
          /\ next_free = NoSlot => slots_len <= MaxIdx /\ slots_len < capacity
      BY <1>3 DEF EntryInsert, CallOK
    <2>2. Occupy(Target, Slot(Target.gen, v)) /\ increment_len /\ Issue(Target)
          /\ mode' = "idle" /\ target' = NoTarget
          /\ UNCHANGED <<capacity, position, retired>>
      BY <1>3, <2>1 DEF EntryInsert, fill
    <2>3. DataOK'
      BY <2>1, <2>2, FilledIsGood, OccupyKeepsData
    <2>4. capacity' \in slots_len' .. StorageMax
      BY <1>0, <2>1, <2>2, OccupyFits
    <2>5. issued' \subseteq Keys /\ promised' \in 0 .. ReserveMax
      BY <2>1, <2>2, IssueKeepsTypes
    <2>6. len' \in 0 .. NoSlot
      BY <2>2, LenInRange DEF CallOK
    <2>7. QED
      BY <2>2, <2>3, <2>4, <2>5, <2>6 DEF CallOK
  <1>4. CASE ReserveKey
    <2>1. next_target /\ mode = "idle"
          /\ Occupy(Target, Slot(detached_generation(Target.gen), Target.idx))
          /\ Issue(Target) /\ UNCHANGED <<len, call, retired>>
      BY <1>4 DEF ReserveKey
    <2>2. DataOK'
      BY <2>1, RoomForTarget, FilledIsGood, OccupyKeepsData
    <2>3. capacity' \in slots_len' .. StorageMax
      BY <2>1, RoomForTarget, OccupyFits
    <2>4. issued' \subseteq Keys /\ promised' \in 0 .. ReserveMax
      BY <2>1, RoomForTarget, IssueKeepsTypes
    <2>5. QED
      BY <2>1, <2>2, <2>3, <2>4 DEF CallOK, call
  <1>5. ASSUME NEW n \in 1 .. ReserveMax, Reserve(n) PROVE IInv'
    <2>1. mode = "idle" /\ ensure_room(n) /\ UNCHANGED <<data, call, issued, retired>>
          /\ promised' = IF n > promised THEN n ELSE promised
      BY <1>5 DEF Reserve
    <2>2. DataOK' /\ slots_len' = slots_len
      BY <1>0, <2>1, SameData DEF data
    <2>3. capacity' \in slots_len' .. StorageMax
      BY <1>0, <2>1, <2>2 DEF ensure_room, ConfigAssumption
    <2>4. QED
      BY <2>1, <2>2, <2>3 DEF CallOK, call, data
  <1>6. ASSUME NEW k \in Keys, KeyStep(k) PROVE IInv'
    <2>1. ASSUME contains_key(k) \/ detached_slot(k)
          PROVE  /\ k.idx \in Positions /\ OffList(k.idx) /\ k.idx \notin retired
                 /\ k.gen \in OddGens /\ Odd(k.gen) /\ k.gen \in 0 .. GenMax
                 /\ k.idx \in 0 .. NoSlot /\ k.idx < NoSlot
      <3>1. k.gen \in OddGens /\ Odd(k.gen) /\ k.gen \in 0 .. GenMax
        BY DEF Keys, OddGens, ConfigAssumption
      <3>2. k.idx \in Positions /\ OffList(k.idx)
        BY <2>1, <3>1 DEF contains_key, detached_slot, OffList, HoldsValue, Slot
      <3>3. QED
        BY <1>0, <3>1, <3>2, OffListNotRetired DEF ConfigAssumption
    <2>2. ASSUME DataOK', len' \in 0 .. NoSlot, UNCHANGED <<slots_len, capacity, call,
                 issued, promised>>, mode = "idle"
          PROVE  IInv'
      BY <2>2 DEF CallOK, call
    <2>3. CASE Remove(k)
      <3>1. contains_key(k) /\ decrement_len /\ Free(k.idx, k.gen) /\ mode = "idle"
            /\ UNCHANGED <<capacity, call, issued, promised>>
        BY <2>3 DEF Remove, take, contains_key
      <3>2. DataOK' /\ slots_len' = slots_len
        BY <2>1, <3>1, FreeKeepsData DEF Free
      <3>3. QED
        BY <2>2, <3>1, <3>2, LenInRange DEF CallOK
    <2>4. CASE Retire(k)
      <3>1. DataOK'
        BY <2>1, <2>4, RewriteKeepsData DEF Retire
      <3>2. len' \in 0 .. NoSlot
        BY <2>4, LenInRange DEF Retire, CallOK
      <3>3. QED
        BY <2>2, <2>4, <3>1, <3>2 DEF Retire
    <2>5. CASE Detach(k)
      <3>1. GoodSlot(Slot(detached_generation(k.gen), k.idx), k.idx)
        BY <2>1, <2>5, NextOfOdd DEF Detach, GoodSlot, Slot, detached_generation
      <3>2. DataOK'
        BY <2>1, <2>5, <3>1, RewriteKeepsData DEF Detach
      <3>3. len' \in 0 .. NoSlot
        BY <2>5, LenInRange DEF Detach, CallOK
      <3>4. QED
        BY <2>2, <2>5, <3>2, <3>3 DEF Detach
    <2>6. CASE Release(k)
      <3>1. DataOK' /\ slots_len' = slots_len
        BY <2>1, <2>6, FreeKeepsData DEF Release, Free
      <3>2. QED
        BY <2>2, <2>6, <3>1 DEF Release, CallOK
    <2>7. ASSUME NEW v \in Values, Attach(k, v) PROVE IInv'
      <3>1. GoodSlot(Slot(k.gen, v), k.idx)
        BY <2>1, <2>7 DEF Attach, GoodSlot, Slot
      <3>2. DataOK'
        BY <2>1, <2>7, <3>1, RewriteKeepsData DEF Attach
      <3>3. len' \in 0 .. NoSlot
        BY <2>7, LenInRange DEF Attach, CallOK
      <3>4. QED
        BY <2>2, <2>7, <3>2, <3>3 DEF Attach
    <2>8. ASSUME NEW v \in Values, Write(k, v) PROVE IInv'
      <3>1. slots' = [slots EXCEPT ![k.idx] = Slot(k.gen, v)]
        BY <2>8 DEF Write
      <3>2. GoodSlot(Slot(k.gen, v), k.idx)
        BY <2>1, <2>8 DEF Write, GoodSlot, Slot
      <3>3. DataOK'
        BY <2>1, <2>8, <3>1, <3>2, RewriteKeepsData DEF Write
      <3>4. QED
        BY <2>2, <2>8, <3>3 DEF Write, CallOK
    <2>9. QED
      BY <1>6, <2>3, <2>4, <2>5, <2>6, <2>7, <2>8 DEF KeyStep
  <1>7. ASSUME NEW m \in {"clear", "retain", "drain"}, Begin(m) PROVE IInv'
    <2>1. DataOK' /\ UNCHANGED data
      BY <1>0, <1>7, SameData DEF Begin
    <2>2. QED
      BY <1>7, <2>1 DEF Begin, CallOK, data, ConfigAssumption
  <1>8. ASSUME mode \in {"clear", "retain", "drain"}, NEW i \in Positions, Reaches(i),
               take(i), position' = i + 1,
               UNCHANGED <<capacity, mode, target, issued, promised>>
        PROVE  IInv'
    <2>1. /\ OffList(i) /\ i \notin retired /\ slots[i].gen \in OddGens
          /\ i + 1 \in 0 .. MaxIdx + 1
      BY <1>0, <1>8, OffListNotRetired DEF Reaches, OffList, ConfigAssumption
    <2>2. DataOK' /\ slots_len' = slots_len
      BY <1>8, <2>1, FreeKeepsData DEF take, Free
    <2>3. len' \in 0 .. NoSlot
      BY <1>8, LenInRange DEF take, CallOK
    <2>4. QED
      BY <1>8, <2>1, <2>2, <2>3 DEF CallOK
  <1>9. ASSUME NEW v \in Values, RetainKeep(v) PROVE IInv'
    <2>1. PICK i \in Positions :
            /\ Reaches(i) /\ position' = i + 1
            /\ slots' = [slots EXCEPT ![i] = Slot(slots[i].gen, v)]
      BY <1>9 DEF RetainKeep
    <2>2. /\ OffList(i) /\ i \notin retired /\ slots[i].gen \in OddGens
          /\ i + 1 \in 0 .. MaxIdx + 1 /\ i \in 0 .. NoSlot
      BY <1>0, <2>1, OffListNotRetired DEF Reaches, OffList, ConfigAssumption
    <2>4. GoodSlot(Slot(slots[i].gen, v), i)
      BY <2>2 DEF GoodSlot, Slot, OddGens, ConfigAssumption
    <2>5. DataOK'
      BY <1>9, <2>1, <2>2, <2>4, RewriteKeepsData DEF RetainKeep
    <2>6. QED
      BY <1>9, <2>1, <2>2, <2>5 DEF RetainKeep, CallOK
  <1>10. CASE Finish
    <2>1. DataOK' /\ UNCHANGED data
      BY <1>0, <1>10, SameData DEF Finish
    <2>2. QED
      BY <1>10, <2>1 DEF Finish, CallOK, data, ConfigAssumption
  <1>11. CASE Abandon
    <2>1. DataOK' /\ UNCHANGED data
      BY <1>0, <1>11, SameData DEF Abandon
    <2>2. QED
      BY <1>11, <2>1 DEF Abandon, CallOK, data, ConfigAssumption
  <1>12. CASE Reset
    <2>1. /\ slots_len' = 0 /\ Positions' = {} /\ next_free' = NoSlot /\ len' = 0
          /\ slots' = [i \in {} |-> Slot(0, NoSlot)] /\ retired' = {} /\ issued' = {}
          /\ UNCHANGED <<capacity, call, promised>> /\ mode = "idle"
      BY <1>12 DEF Reset, Positions
    <2>2. FreeListComplete'
      <3> DEFINE f == [a \in 1 .. 0 |-> 0]
      <3>1. f \in [1 .. 0 -> Positions']
        OBVIOUS
      <3>2. FreeList(f, 0)' /\ Lists(f, 0)'
        BY <2>1 DEF FreeList, Lists
      <3>3. 0 \in 0 .. slots_len'
        BY <2>1
      <3>4. QED
        BY <3>1, <3>2, <3>3 DEF FreeListComplete
    <2>3. DataOK'
      BY <2>1, <2>2 DEF DataOK, FieldsOK, KeysFit, RetiredInert, ConfigAssumption
    <2>4. QED
      BY <1>0, <2>1, <2>3 DEF CallOK, call, ConfigAssumption
  <1>13. CASE UNCHANGED vars
    <2>1. DataOK' /\ Target' = Target
      BY <1>0, <1>13, SameData DEF vars, data
    <2>2. QED
      BY <1>13, <2>1 DEF vars, CallOK
  <1>14. QED
    BY <1>1, <1>2, <1>3, <1>4, <1>5, <1>6, <1>7, <1>8, <1>9, <1>10, <1>11, <1>12, <1>13
    DEF Next, TakeNext, RetainDrop

LEMMA Invariance == Spec => []IInv
  <1>1. Init => IInv
    BY ConfigAssumption, InitInv
  <1>2. IInv /\ [Next]_vars => IInv'
    BY ConfigAssumption, StepInv
  <1>3. QED
    BY <1>1, <1>2, PTL DEF Spec

-----------------------------------------------------------------------------
(* The theorems *)

\* Every variable always has its type.
THEOREM TypeCorrect == Spec => []TypeOK
  <1>1. IInv => TypeOK
    BY ConfigAssumption, InvImpliesTypes
  <1>2. QED
    BY <1>1, Invariance, PTL

\* The free list is always linked as GenMapRawParts demands, and no vacant slot
\* is lost from it, whatever is called and wherever a call is abandoned.
THEOREM FreeListSound == Spec => []FreeListComplete
  <1>1. IInv => FreeListComplete
    BY DEF IInv, DataOK
  <1>2. QED
    BY <1>1, Invariance, PTL

-----------------------------------------------------------------------------
(* The kept count *)

\* The positions that hold a value.
Held == {i \in Positions : HoldsValue(i)}

\* A set of positions below n has at most n members.
LEMMA PositionsBounded ==
  ASSUME NEW n \in Nat, NEW S \in SUBSET (0 .. n - 1)
  PROVE  IsFiniteSet(S) /\ Cardinality(S) \in 0 .. n
  <1>1. IsFiniteSet(0 .. n - 1) /\ Cardinality(0 .. n - 1) = n
    BY FS_Interval
  <1>2. IsFiniteSet(S) /\ Cardinality(S) <= n
    BY <1>1, FS_Subset
  <1>3. Cardinality(S) \in Nat
    BY <1>2, FS_CardinalityType
  <1>4. QED
    BY <1>2, <1>3

\* At most as many slots hold a value as the largest value of the index type.
LEMMA HeldBounded ==
  ASSUME ConfigAssumption, FieldsOK
  PROVE  IsFiniteSet(Held) /\ Cardinality(Held) \in 0 .. NoSlot
  <1>1. slots_len \in Nat /\ slots_len <= NoSlot /\ Held \in SUBSET (0 .. slots_len - 1)
    BY DEF FieldsOK, ConfigAssumption, Held, Positions
  <1>2. QED
    BY <1>1, PositionsBounded DEF ConfigAssumption

\* A value more and the count incremented.
LEMMA GainOne ==
  ASSUME ConfigAssumption, FieldsOK, FieldsOK', LenExact, increment_len,
         NEW x, x \notin Held, Held' = Held \union {x}
  PROVE  LenExact'
  <1>1. IsFiniteSet(Held) /\ Cardinality(Held) \in 0 .. NoSlot
    BY HeldBounded
  <1>2. Cardinality(Held') \in 0 .. NoSlot
    <2>1. slots_len' \in Nat /\ slots_len' <= NoSlot
          /\ Held' \in SUBSET (0 .. slots_len' - 1)
      BY DEF FieldsOK, ConfigAssumption, Held, Positions
    <2>2. QED
      BY <2>1, PositionsBounded DEF ConfigAssumption
  <1>3. Cardinality(Held') = Cardinality(Held) + 1
    BY <1>1, FS_AddElement
  <1>4. len = Cardinality(Held)
    BY DEF LenExact, Held
  <1>5. len' = Cardinality(Held')
    BY <1>1, <1>2, <1>3, <1>4 DEF increment_len, ConfigAssumption
  <1>6. QED
    BY <1>5 DEF LenExact, Held

\* A value less and the count decremented.
LEMMA LoseOne ==
  ASSUME ConfigAssumption, FieldsOK, LenExact, decrement_len,
         NEW x \in Held, Held' = Held \ {x}
  PROVE  LenExact'
  <1>1. IsFiniteSet(Held) /\ Cardinality(Held) \in 0 .. NoSlot
    BY HeldBounded
  <1>2. Cardinality(Held') = Cardinality(Held) - 1 /\ Cardinality(Held) # 0
    BY <1>1, FS_RemoveElement, FS_EmptySet
  <1>3. len = Cardinality(Held)
    BY DEF LenExact, Held
  <1>4. len' = Cardinality(Held')
    BY <1>1, <1>2, <1>3 DEF decrement_len, ConfigAssumption
  <1>5. QED
    BY <1>4 DEF LenExact, Held

\* No value more or less, and the count unchanged.
LEMMA SameHeld ==
  ASSUME LenExact, len' = len, Held' = Held
  PROVE  LenExact'
  BY DEF LenExact, Held

\* A slot that held a value, or did not, is rewritten.
LEMMA HeldAfterRewrite ==
  ASSUME FieldsOK, NEW i \in Positions, NEW s,
         slots' = [slots EXCEPT ![i] = s], slots_len' = slots_len
  PROVE  /\ Odd(s.gen) => Held' = Held \union {i}
         /\ ~Odd(s.gen) => Held' = Held \ {i}
  <1>1. Positions' = Positions /\ slots'[i] = s
        /\ \A j \in Positions : j # i => slots'[j] = slots[j]
    BY DEF FieldsOK, Positions
  <1>2. Held' = {j \in Positions : Odd(slots'[j].gen)}
    BY <1>1 DEF Held, HoldsValue
  <1>3. QED
    BY <1>1, <1>2 DEF Held, HoldsValue

\* The slot next_target picked is occupied: no value was there.
LEMMA HeldAfterOccupy ==
  ASSUME ConfigAssumption, IInv, NEW s, Occupy(Target, s),
         next_free = NoSlot => slots_len <= MaxIdx
  PROVE  /\ Target.idx \notin Held
         /\ Odd(s.gen) => Held' = Held \union {Target.idx}
         /\ ~Odd(s.gen) => Held' = Held
  <1>1. FieldsOK /\ FreeListComplete
    BY DEF IInv, DataOK
  <1>2. CASE next_free # NoSlot
    <2>1. Target.from_free_list /\ Target.idx = next_free
      BY <1>2 DEF Target
    <2>2. next_free \in Positions /\ next_free \notin Held
      BY <1>1, <1>2, HeadOfList DEF Held
    <2>3. slots' = [slots EXCEPT ![next_free] = s] /\ slots_len' = slots_len
      BY <2>1 DEF Occupy
    <2>4. /\ Odd(s.gen) => Held' = Held \union {next_free}
          /\ ~Odd(s.gen) => Held' = Held \ {next_free}
      BY <1>1, <2>2, <2>3, HeldAfterRewrite
    <2>5. ~Odd(s.gen) => Held' = Held
      BY <2>2, <2>4
    <2>6. QED
      BY <2>1, <2>2, <2>4, <2>5
  <1>3. CASE next_free = NoSlot
    <2>1. ~Target.from_free_list /\ Target.idx = slots_len
      BY <1>3 DEF Target
    <2>2. push(s) /\ slots_len \in Nat
      BY <1>1, <2>1 DEF Occupy, FieldsOK
    <2>3. Positions' = Positions \union {slots_len} /\ slots_len \notin Positions
      BY <2>2 DEF push, Positions
    <2>4. slots'[slots_len] = s /\ \A j \in Positions : slots'[j] = slots[j]
      BY <2>2, <2>3 DEF push, Positions
    <2>5. QED
      BY <2>1, <2>3, <2>4 DEF Held, HoldsValue
  <1>4. QED
    BY <1>2, <1>3

\* A slot is freed or retires: it holds no value afterwards.
LEMMA HeldAfterFree ==
  ASSUME ConfigAssumption, FieldsOK, NEW i \in Positions, NEW g \in OddGens, Free(i, g)
  PROVE  Held' = Held \ {i}
  <1>1. ~Odd(freed_parts(i, g).slot.gen)
    BY NextOfOdd, ZeroIsEven DEF freed_parts, Slot
  <1>2. QED
    BY <1>1, HeldAfterRewrite DEF Free

LEMMA StepLen ==
  ASSUME ConfigAssumption, IInv, IInv', LenExact, [Next]_vars
  PROVE  LenExact'
  <1>0. DataOK /\ FieldsOK /\ FieldsOK'
    BY DEF IInv, DataOK
  <1>1. ASSUME NEW v, next_free = NoSlot => slots_len <= MaxIdx,
               Occupy(Target, Slot(Target.gen, v)), increment_len
        PROVE  LenExact'
    <2>1. Odd(Slot(Target.gen, v).gen)
      BY <1>1, TargetIsKey DEF IInv, DataOK, Slot, OddGens
    <2>2. QED
      BY <1>0, <1>1, <2>1, HeldAfterOccupy, GainOne
  <1>2. ASSUME NEW v \in Values, Insert(v) PROVE LenExact'
    BY <1>1, <1>2, RoomForTarget DEF Insert, fill
  <1>3. ASSUME NEW v \in Values, EntryInsert(v) PROVE LenExact'
    BY <1>1, <1>3 DEF EntryInsert, fill, IInv, CallOK
  <1>4. CASE ReserveKey
    <2>1. next_free = NoSlot => slots_len <= MaxIdx
      BY <1>4, RoomForTarget DEF ReserveKey
    <2>2. ~Odd(Slot(detached_generation(Target.gen), Target.idx).gen)
      BY <2>1, TargetIsKey, NextOfOdd DEF IInv, DataOK, Slot, detached_generation
    <2>3. QED
      BY <1>4, <2>1, <2>2, HeldAfterOccupy, SameHeld DEF ReserveKey
  <1>5. ASSUME NEW i \in Positions, HoldsValue(i), take(i) PROVE LenExact'
    <2>1. slots[i].gen \in OddGens /\ i \in Held
      BY <1>0, <1>5, OffListNotRetired DEF OffList, Held
    <2>2. QED
      BY <1>0, <1>5, <2>1, HeldAfterFree, LoseOne DEF take
  <1>6. ASSUME NEW i \in Positions, NEW s, slots' = [slots EXCEPT ![i] = s],
               slots_len' = slots_len,
               \/ HoldsValue(i) /\ ~Odd(s.gen) /\ decrement_len
               \/ ~HoldsValue(i) /\ Odd(s.gen) /\ increment_len
               \/ HoldsValue(i) /\ Odd(s.gen) /\ len' = len
               \/ ~HoldsValue(i) /\ ~Odd(s.gen) /\ len' = len
        PROVE  LenExact'
    <2>1. /\ Odd(s.gen) => Held' = Held \union {i}
          /\ ~Odd(s.gen) => Held' = Held \ {i}
      BY <1>0, <1>6, HeldAfterRewrite
    <2>2. HoldsValue(i) <=> i \in Held
      BY DEF Held
    <2>3. CASE HoldsValue(i) /\ ~Odd(s.gen) /\ decrement_len
      BY <1>0, <2>1, <2>2, <2>3, LoseOne
    <2>4. CASE ~HoldsValue(i) /\ Odd(s.gen) /\ increment_len
      BY <1>0, <2>1, <2>2, <2>4, GainOne
    <2>5. CASE HoldsValue(i) /\ Odd(s.gen) /\ len' = len
      <3>1. Held' = Held
        BY <2>1, <2>2, <2>5
      <3>2. QED
        BY <2>5, <3>1, SameHeld
    <2>6. CASE ~HoldsValue(i) /\ ~Odd(s.gen) /\ len' = len
      <3>1. Held' = Held
        BY <2>1, <2>2, <2>6
      <3>2. QED
        BY <2>6, <3>1, SameHeld
    <2>7. QED
      BY <1>6, <2>3, <2>4, <2>5, <2>6
  <1>7. ASSUME NEW k \in Keys, KeyStep(k) PROVE LenExact'
    <2>1. k.gen \in OddGens /\ Odd(k.gen)
      BY DEF Keys, OddGens
    <2>2. contains_key(k) => k.idx \in Positions /\ HoldsValue(k.idx)
      BY <2>1 DEF contains_key, HoldsValue
    <2>3. detached_slot(k) => k.idx \in Positions /\ ~HoldsValue(k.idx)
      BY <2>1, NextOfOdd DEF detached_slot, HoldsValue, Slot, detached_generation
    <2>4. CASE Remove(k)
      BY <1>5, <2>2, <2>4 DEF Remove
    <2>5. CASE Retire(k)
      <3>1. ~Odd(Slot(0, NoSlot).gen)
        BY ZeroIsEven DEF Slot
      <3>2. QED
        BY <1>6, <2>2, <2>5, <3>1 DEF Retire
    <2>6. CASE Detach(k)
      <3>1. ~Odd(Slot(detached_generation(k.gen), k.idx).gen)
        BY <2>1, NextOfOdd DEF Slot, detached_generation
      <3>2. QED
        BY <1>6, <2>2, <2>6, <3>1 DEF Detach
    <2>7. CASE Release(k)
      <3>1. Held' = Held \ {k.idx} /\ k.idx \notin Held
        BY <1>0, <2>1, <2>3, <2>7, HeldAfterFree DEF Release, Held
      <3>2. Held' = Held
        BY <3>1
      <3>3. QED
        BY <2>7, <3>2, SameHeld DEF Release
    <2>8. ASSUME NEW v \in Values, Attach(k, v) PROVE LenExact'
      <3>1. Odd(Slot(k.gen, v).gen)
        BY <2>1 DEF Slot
      <3>2. QED
        BY <1>6, <2>3, <2>8, <3>1 DEF Attach
    <2>9. ASSUME NEW v \in Values, Write(k, v) PROVE LenExact'
      <3>1. Odd(Slot(k.gen, v).gen)
        BY <2>1 DEF Slot
      <3>2. QED
        BY <1>6, <2>2, <2>9, <3>1 DEF Write
    <2>10. QED
      BY <1>7, <2>4, <2>5, <2>6, <2>7, <2>8, <2>9 DEF KeyStep
  <1>8. CASE TakeNext \/ RetainDrop
    BY <1>5, <1>8 DEF TakeNext, RetainDrop, Reaches
  <1>9. ASSUME NEW v \in Values, RetainKeep(v) PROVE LenExact'
    <2>1. PICK i \in Positions :
            HoldsValue(i) /\ slots' = [slots EXCEPT ![i] = Slot(slots[i].gen, v)]
      BY <1>9 DEF RetainKeep, Reaches
    <2>2. Odd(Slot(slots[i].gen, v).gen)
      BY <2>1 DEF Slot, HoldsValue
    <2>3. QED
      BY <1>6, <1>9, <2>1, <2>2 DEF RetainKeep
  <1>10. CASE Reset
    <2>1. Held' = {} /\ len' = 0
      BY <1>10 DEF Reset, Held, Positions
    <2>2. QED
      BY <2>1, FS_EmptySet DEF LenExact, Held
  <1>11. CASE UNCHANGED data
    <2>1. Held' = Held /\ len' = len
      BY <1>11 DEF data, Held, HoldsValue, Positions
    <2>2. QED
      BY <2>1, SameHeld
  <1>12. QED
    BY <1>2, <1>3, <1>4, <1>7, <1>8, <1>9, <1>10, <1>11
    DEF Next, VacantEntry, Reserve, Begin, Finish, Abandon, vars, data

\* The kept count is the number of values in every reachable state.
THEOREM CountExact == Spec => []LenExact
  <1>1. Init => LenExact
    <2>1. Init => Held = {} /\ len = 0
      BY DEF Init, Held, Positions
    <2>2. QED
      BY <2>1, FS_EmptySet DEF LenExact, Held
  <1>2. IInv /\ IInv' /\ LenExact /\ [Next]_vars => LenExact'
    BY ConfigAssumption, StepLen
  <1>3. QED
    BY <1>1, <1>2, Invariance, PTL DEF Spec

-----------------------------------------------------------------------------
(* The promise of try_reserve *)

\* A slot is occupied, and one of the promised insertions is made: either the
\* slot was a free one, or it took the room for one.
LEMMA OccupyKeepsPromise ==
  ASSUME ConfigAssumption, IInv, PromiseKept, NEW s, Occupy(Target, s), Issue(Target),
         capacity' >= capacity, capacity' \in Nat,
         next_free = NoSlot => slots_len < capacity'
  PROVE  PromiseKept'
  <1>1. slots_len \in Nat /\ promised \in Nat /\ capacity \in Nat
    BY ReserveAssumption DEF IInv, DataOK, FieldsOK, CallOK, ConfigAssumption
  <1>2. promised' = IF promised = 0 THEN 0 ELSE promised - 1
    BY DEF Issue
  <1>3. slots_len' = IF next_free # NoSlot THEN slots_len ELSE slots_len + 1
    BY DEF Occupy, push, Target
  <1>4. QED
    BY <1>1, <1>2, <1>3 DEF PromiseKept

\* next_target and ensure_room never give room back.
LEMMA RoomGrows ==
  ASSUME ConfigAssumption, IInv, NEW n \in Nat, next_target \/ ensure_room(n)
  PROVE  capacity' >= capacity /\ capacity' \in Nat
  BY DEF IInv, DataOK, FieldsOK, CallOK, next_target, ensure_room, ConfigAssumption

LEMMA StepPromise ==
  ASSUME ConfigAssumption, IInv, PromiseKept, [Next]_vars
  PROVE  PromiseKept'
  <1>0. slots_len \in Nat /\ promised \in Nat /\ capacity \in Nat
    BY ReserveAssumption DEF IInv, DataOK, FieldsOK, CallOK, ConfigAssumption
  <1>1. ASSUME NEW v, Insert(v) PROVE PromiseKept'
    <2>1. next_target /\ Occupy(Target, Slot(Target.gen, v)) /\ Issue(Target)
      BY <1>1 DEF Insert, fill
    <2>2. QED
      BY <2>1, RoomForTarget, RoomGrows, OccupyKeepsPromise
  <1>2. ASSUME NEW v, EntryInsert(v) PROVE PromiseKept'
    <2>1. /\ Occupy(Target, Slot(Target.gen, v)) /\ Issue(Target) /\ capacity' = capacity
          /\ next_free = NoSlot => slots_len < capacity
      BY <1>2 DEF EntryInsert, fill, IInv, CallOK
    <2>2. QED
      BY <1>0, <2>1, OccupyKeepsPromise
  <1>3. CASE ReserveKey
    <2>1. next_target /\ Issue(Target)
          /\ Occupy(Target, Slot(detached_generation(Target.gen), Target.idx))
      BY <1>3 DEF ReserveKey
    <2>2. QED
      BY <2>1, RoomForTarget, RoomGrows, OccupyKeepsPromise
  <1>4. CASE VacantEntry
    <2>1. capacity' >= capacity /\ capacity' \in Nat
      BY <1>4, RoomGrows DEF VacantEntry
    <2>2. QED
      BY <1>0, <1>4, <2>1 DEF VacantEntry, data, PromiseKept
  <1>5. ASSUME NEW n \in 1 .. ReserveMax, Reserve(n) PROVE PromiseKept'
    <2>1. n \in Nat /\ slots_len' = slots_len /\ ensure_room(n)
          /\ promised' = IF n > promised THEN n ELSE promised
      BY <1>5, ReserveAssumption DEF Reserve, data
    <2>2. capacity' >= capacity /\ capacity' \in Nat /\ slots_len + n <= capacity'
      BY <1>0, <2>1, RoomGrows DEF ensure_room, ConfigAssumption
    <2>3. QED
      BY <1>0, <2>1, <2>2 DEF PromiseKept
  <1>6. ASSUME NEW k, KeyStep(k) PROVE PromiseKept'
    BY <1>6 DEF KeyStep, Remove, Retire, Detach, Release, Attach, Write, take, Free, PromiseKept
  <1>7. CASE Reset
    BY <1>0, <1>7 DEF Reset, PromiseKept
  <1>8. QED
    BY <1>1, <1>2, <1>3, <1>4, <1>5, <1>6, <1>7
    DEF Next, Begin, TakeNext, RetainKeep, RetainDrop, Finish, Abandon, take, Free, data,
        vars, PromiseKept

\* After try_reserve(n), and whatever else is called in between, the next n
\* insertions find room in the storage.
THEOREM ReservePromise == Spec => []PromiseKept
  <1>1. Init => PromiseKept
    BY DEF Init, PromiseKept, ConfigAssumption
  <1>2. IInv /\ PromiseKept /\ [Next]_vars => PromiseKept'
    BY ConfigAssumption, StepPromise
  <1>3. QED
    BY <1>1, <1>2, Invariance, PTL DEF Spec

-----------------------------------------------------------------------------
(* What clear and Drain leave behind them *)

LEMMA StepDrained ==
  ASSUME ConfigAssumption, IInv, DrainedBehind, [Next]_vars
  PROVE  DrainedBehind'
  <1>0. SUFFICES ASSUME mode' \in {"clear", "drain"}, NEW j \in Positions', j < position'
                 PROVE  ~HoldsValue(j)'
    BY DEF DrainedBehind
  <1>1. CASE TakeNext
    <2>1. PICK i \in Positions : Reaches(i) /\ take(i) /\ position' = i + 1
      BY <1>1 DEF TakeNext
    <2>2. /\ mode \in {"clear", "drain"} /\ Positions' = Positions /\ j \in Positions
          /\ \A p \in Positions : p # i => slots'[p] = slots[p]
          /\ slots'[i] = freed_parts(i, slots[i].gen).slot
      BY <1>1, <2>1 DEF TakeNext, take, Free, Positions, IInv, DataOK, FieldsOK
    <2>3. slots[i].gen \in OddGens
      BY <2>1, OffListNotRetired DEF IInv, OffList, Reaches
    <2>4. CASE j = i
      BY <2>2, <2>3, <2>4, NextOfOdd, ZeroIsEven DEF freed_parts, Slot, HoldsValue
    <2>5. CASE j # i
      <3>0. i \in Nat /\ j \in Nat /\ position \in Nat
        BY <2>2 DEF Positions, IInv, CallOK, ConfigAssumption
      <3>1. j < position \/ j \in position .. i - 1
        BY <1>0, <2>1, <2>5, <3>0
      <3>2. ~HoldsValue(j)
        BY <2>1, <2>2, <3>1 DEF DrainedBehind, Reaches
      <3>3. QED
        BY <2>2, <2>5, <3>2 DEF HoldsValue
    <2>6. QED
      BY <2>4, <2>5
  <1>2. ASSUME NEW m, Begin(m) PROVE FALSE
    BY <1>0, <1>2 DEF Begin, Positions, data, IInv, DataOK, FieldsOK, ConfigAssumption
  <1>3. CASE UNCHANGED vars
    BY <1>0, <1>3 DEF vars, DrainedBehind, Positions, HoldsValue
  <1>4. mode = "idle" /\ UNCHANGED call => FALSE
    BY <1>0 DEF call
  <1>5. ASSUME NEW k, KeyStep(k) PROVE FALSE
    BY <1>4, <1>5 DEF KeyStep, Remove, Retire, Detach, Release, Attach, Write
  <1>6. QED
    BY <1>0, <1>1, <1>2, <1>3, <1>4, <1>5
    DEF Next, Insert, VacantEntry, EntryInsert, ReserveKey, Reserve, RetainKeep, RetainDrop,
        Finish, Abandon, Reset

\* While clear or a Drain is under way, the slots it has passed are vacant.
THEOREM DrainExact == Spec => []DrainedBehind
  <1>1. Init => DrainedBehind
    BY DEF Init, DrainedBehind
  <1>2. IInv /\ DrainedBehind /\ [Next]_vars => DrainedBehind'
    BY ConfigAssumption, StepDrained
  <1>3. QED
    BY <1>1, <1>2, Invariance, PTL DEF Spec

-----------------------------------------------------------------------------
(* The keys *)

\* What a slot at position i becomes when its last key is detached: its
\* generation may start over there, although generations do not wrap.
LastDetached(i) == Slot(wrapping_next(MaxGen), i)

\* A key that was handed out is no newer than its slot.
Bounds(k, s) == k.gen <= s.gen \/ s = LastDetached(k.idx)
KeyBound ==
  ~Wrap => \A k \in issued :
             k.idx \in Positions /\ (k.idx \in retired \/ Bounds(k, slots[k.idx]))

\* The next generation tells odd generations apart, and is even; unless the key
\* is the last one, it is one more.
LEMMA NextInjective ==
  ASSUME ConfigAssumption, NEW g \in OddGens, NEW h \in OddGens,
         wrapping_next(g) = wrapping_next(h)
  PROVE  g = h
  BY DEF wrapping_next, OddGens, Odd, ConfigAssumption

\* The slot s may replace the slot at i: no key is newer than it that was not
\* newer before.
Ages(i, s) ==
  \/ s.gen = MaxGen
  \/ s = LastDetached(i)
  \/ /\ slots[i] # LastDetached(i)
     /\ \A h \in OddGens : h <= slots[i].gen => h <= s.gen

\* A slot is replaced, and keys of other slots keep their bounds.
LEMMA RewriteKeepsBound ==
  ASSUME ConfigAssumption, IInv, KeyBound, NEW i \in Positions, NEW s,
         slots' = [slots EXCEPT ![i] = s], slots_len' = slots_len,
         retired \subseteq retired', ~Wrap => i \in retired' \/ Ages(i, s),
         issued' = issued
  PROVE  KeyBound'
  <1>1. SUFFICES ASSUME ~Wrap, NEW k \in issued
                 PROVE  k.idx \in Positions' /\ (k.idx \in retired' \/ Bounds(k, slots'[k.idx]))
    BY DEF KeyBound, Bounds, LastDetached
  <1>2. /\ Positions' = Positions /\ slots'[i] = s
        /\ \A j \in Positions : j # i => slots'[j] = slots[j]
    BY DEF Positions, IInv, DataOK, FieldsOK
  <1>3. k.idx \in Positions /\ (k.idx \in retired \/ Bounds(k, slots[k.idx]))
    BY <1>1 DEF KeyBound
  <1>4. k.gen \in OddGens /\ k.gen <= MaxGen
    BY <1>1 DEF IInv, CallOK, Keys, OddGens
  <1>5. CASE k.idx # i
    BY <1>2, <1>3, <1>5
  <1>6. CASE k.idx = i /\ i \notin retired'
    BY <1>1, <1>2, <1>3, <1>4, <1>6 DEF Ages, Bounds
  <1>7. QED
    BY <1>2, <1>3, <1>5, <1>6

\* The slot of target t becomes s, and its key is handed out.
LEMMA OccupyKeepsBound ==
  ASSUME ConfigAssumption, IInv, KeyBound, NEW s,
         next_free = NoSlot => slots_len <= MaxIdx,
         Occupy(Target, s), HandOut(Target), retired' = retired,
         s.gen = Target.gen \/ s = Slot(wrapping_next(Target.gen), Target.idx)
  PROVE  KeyBound'
  <1>1. SUFFICES ASSUME ~Wrap, NEW k \in issued'
                 PROVE  k.idx \in Positions' /\ (k.idx \in retired' \/ Bounds(k, slots'[k.idx]))
    BY DEF KeyBound, Bounds, LastDetached
  <1>2. Target.gen \in OddGens /\ Target.gen <= MaxGen /\ Target.gen \in Nat
    BY TargetIsKey DEF IInv, DataOK, OddGens
  <1>3. s.gen >= Target.gen \/ s = LastDetached(Target.idx)
    <2>1. CASE s = Slot(wrapping_next(Target.gen), Target.idx) /\ Target.gen < MaxGen
      BY <1>2, <2>1, NextOfOdd DEF Slot
    <2>2. CASE s = Slot(wrapping_next(Target.gen), Target.idx) /\ Target.gen = MaxGen
      BY <2>2 DEF LastDetached
    <2>3. QED
      BY <1>2, <2>1, <2>2 DEF ConfigAssumption
  <1>4. k \in issued \/ k = Key(Target.idx, Target.gen)
    BY <1>1 DEF HandOut
  <1>5. k \in issued => k.idx \in Positions /\ (k.idx \in retired \/ Bounds(k, slots[k.idx]))
    BY <1>1 DEF KeyBound
  <1>6. k \in issued => k.gen \in OddGens
    BY DEF IInv, CallOK, Keys
  <1>7. CASE next_free # NoSlot
    <2>1. /\ next_free \in Positions /\ slots[next_free].item # next_free
          /\ next_free \notin retired /\ slots[next_free].gen \in Nat
      BY <1>7, HeadOfList DEF IInv, DataOK, FieldsOK
    <2>2. /\ Target.idx = next_free /\ Target.gen = slots[next_free].gen + 1
          /\ Target.from_free_list
      BY <1>7 DEF Target
    <2>3. Positions' = Positions /\ slots'[next_free] = s
          /\ \A j \in Positions : j # next_free => slots'[j] = slots[j]
      BY <2>1, <2>2 DEF Occupy, Positions, IInv, DataOK, FieldsOK
    <2>4. CASE k.idx # next_free
      BY <1>4, <1>5, <2>2, <2>3, <2>4 DEF Key
    <2>5. CASE k.idx = next_free /\ k \in issued
      <3>1. k.gen <= slots[next_free].gen
        BY <1>5, <2>1, <2>5 DEF Bounds, LastDetached, Slot
      <3>2. k.gen <= Target.gen /\ k.gen \in Nat
        BY <1>6, <2>1, <2>2, <2>5, <3>1 DEF OddGens
      <3>3. s = LastDetached(k.idx) \/ k.gen <= s.gen
        <4>1. CASE s.gen = Target.gen
          BY <3>2, <4>1
        <4>2. CASE s = Slot(wrapping_next(Target.gen), Target.idx) /\ Target.gen < MaxGen
          BY <1>2, <3>2, <4>2, NextOfOdd DEF Slot
        <4>3. CASE s = Slot(wrapping_next(Target.gen), Target.idx) /\ Target.gen = MaxGen
          BY <2>2, <2>5, <4>3 DEF LastDetached
        <4>4. QED
          BY <1>2, <4>1, <4>2, <4>3 DEF ConfigAssumption
      <3>4. QED
        BY <2>1, <2>3, <2>5, <3>3 DEF Bounds
    <2>6. CASE k = Key(Target.idx, Target.gen)
      BY <1>3, <2>1, <2>2, <2>3, <2>6 DEF Key, Bounds
    <2>7. QED
      BY <1>4, <2>4, <2>5, <2>6
  <1>8. CASE next_free = NoSlot
    <2>1. ~Target.from_free_list /\ Target.idx = slots_len
      BY <1>8 DEF Target
    <2>2. /\ slots_len \in Nat /\ Positions' = Positions \union {slots_len}
          /\ slots_len \notin Positions
      BY <2>1 DEF Occupy, push, Positions, IInv, DataOK, FieldsOK, ConfigAssumption
    <2>3. slots'[slots_len] = s /\ \A j \in Positions : slots'[j] = slots[j]
      BY <2>1, <2>2 DEF Occupy, push, Positions
    <2>4. CASE k \in issued
      BY <1>5, <2>2, <2>3, <2>4
    <2>5. CASE k = Key(Target.idx, Target.gen)
      BY <1>3, <2>1, <2>2, <2>3, <2>5 DEF Key, Bounds
    <2>6. QED
      BY <1>4, <2>4, <2>5
  <1>9. QED
    BY <1>7, <1>8

-----------------------------------------------------------------------------
(* What the steps do to a slot *)

\* The key of index i and generation g has a value, or is detached, in slot s.
Matches(i, s, g) == s.gen = g \/ s = Slot(wrapping_next(g), i)

\* A step replaces the slot at i by s, for which no key is in use that was not
\* in use before, and which is old enough for its keys.
Rewrites(i, s) ==
  /\ slots' = [slots EXCEPT ![i] = s] /\ slots_len' = slots_len
  /\ retired \subseteq retired' /\ issued' = issued
  /\ ~Wrap => i \in retired' \/ Ages(i, s)
  /\ \A g \in OddGens : Matches(i, s, g) => Matches(i, slots[i], g)

\* A step occupies the slot of the target and hands its key out.
Occupies(s) ==
  /\ next_free = NoSlot => slots_len <= MaxIdx
  /\ Occupy(Target, s) /\ HandOut(Target) /\ retired' = retired
  /\ s.gen = Target.gen \/ s = Slot(wrapping_next(Target.gen), Target.idx)

Quiet == UNCHANGED <<slots, slots_len, retired, issued>>

\* No key is in use in a slot on the free list, nor in one that retired.
LEMMA NoMatch ==
  ASSUME ConfigAssumption, NEW i, NEW s, ~Odd(s.gen), s.item # i, NEW g \in OddGens
  PROVE  ~Matches(i, s, g)
  BY DEF Matches, Slot, OddGens

\* A slot whose key was in use is freed.
LEMMA FreeRewrites ==
  ASSUME ConfigAssumption, IInv, NEW i \in Positions, NEW g \in OddGens,
         Matches(i, slots[i], g), Free(i, g), issued' = issued
  PROVE  Rewrites(i, freed_parts(i, g).slot)
  <1> DEFINE s == freed_parts(i, g).slot
  <1>1. OffList(i) /\ Odd(g) /\ g \in Nat /\ g <= MaxGen
    BY DEF Matches, OffList, HoldsValue, Slot, OddGens
  <1>2. i # NoSlot /\ i # next_free
    <2>1. i < NoSlot /\ i \in Nat
      BY DEF IInv, DataOK, FieldsOK, Positions, ConfigAssumption
    <2>2. CASE next_free # NoSlot
      BY <1>1, <2>1, <2>2, HeadOfList DEF IInv, DataOK, OffList, HoldsValue, ConfigAssumption
    <2>3. QED
      BY <2>1, <2>2 DEF ConfigAssumption
  <1>3. ~Odd(s.gen) /\ s.item # i
    BY <1>2, NextOfOdd, ZeroIsEven DEF freed_parts, Slot
  <1>4. ~Wrap => i \in retired' \/ Ages(i, s)
    <2>1. CASE RunsOut(g)
      BY <2>1 DEF Free
    <2>2. CASE ~Wrap /\ g < MaxGen
      <3>1. wrapping_next(g) = g + 1 /\ g + 1 < MaxGen
        BY <2>2, NextOfOdd
      <3>2. s.gen = g + 1
        BY <2>2, <3>1 DEF freed_parts, Slot, ConfigAssumption, OddGens
      <3>3. slots[i].gen = g \/ slots[i].gen = g + 1
        BY <3>1 DEF Matches, Slot
      <3>4. slots[i] # LastDetached(i)
        <4>1. /\ wrapping_next(MaxGen) = 0 \/ wrapping_next(MaxGen) = MaxGen + 1
              /\ ~Odd(wrapping_next(MaxGen))
          BY DEF wrapping_next, Odd, ConfigAssumption
        <4>2. QED
          BY <1>1, <2>2, <3>1, <3>3, <4>1 DEF LastDetached, Slot, ConfigAssumption
      <3>5. QED
        BY <1>1, <3>2, <3>3, <3>4 DEF Ages, OddGens
    <2>3. QED
      BY <1>1, <2>1, <2>2 DEF RunsOut, ConfigAssumption
  <1>5. QED
    BY <1>3, <1>4, NoMatch DEF Free, Rewrites

\* The steps of the methods that take a key, which is in use.
LEMMA KeyStepRewrites ==
  ASSUME ConfigAssumption, IInv, NEW k \in Keys, KeyStep(k)
  PROVE  \E s : k.idx \in Positions /\ Rewrites(k.idx, s)
  <1> DEFINE i == k.idx
             g == k.gen
  <1>1. /\ i \in Positions /\ i \in Nat /\ i < NoSlot
        /\ g \in OddGens /\ Odd(g) /\ g \in Nat /\ g <= MaxGen
        /\ Matches(i, slots[i], g)
    <2>1. contains_key(k) \/ detached_slot(k)
      BY DEF KeyStep, Remove, Retire, Detach, Release, Attach, Write
    <2>2. g \in OddGens
      BY DEF Keys
    <2>3. i \in Positions /\ Matches(i, slots[i], g)
      BY <2>1 DEF contains_key, detached_slot, detached_generation, Matches
    <2>4. QED
      BY <2>2, <2>3 DEF OddGens, IInv, DataOK, FieldsOK, Positions, ConfigAssumption
  <1>2. /\ ~Odd(wrapping_next(g))
        /\ g < MaxGen => wrapping_next(g) = g + 1
        /\ ~Odd(wrapping_next(MaxGen))
    BY <1>1, NextOfOdd DEF OddGens, wrapping_next, Odd, ConfigAssumption
  <1>3. CASE Remove(k) \/ Release(k)
    <2>1. Free(i, g) /\ issued' = issued
      BY <1>3 DEF Remove, Release, take, contains_key
    <2>2. QED
      BY <1>1, <2>1, FreeRewrites
  <1>4. CASE Retire(k)
    <2>1. \A h \in OddGens : ~Matches(i, Slot(0, NoSlot), h)
      BY <1>1, NoMatch, ZeroIsEven DEF Slot
    <2>2. Rewrites(i, Slot(0, NoSlot))
      BY <1>4, <2>1 DEF Retire, Rewrites
    <2>3. QED
      BY <1>1, <2>2
  <1>5. CASE Detach(k)
    <2> DEFINE s == Slot(wrapping_next(g), i)
    <2>1. slots[i].gen = g /\ slots' = [slots EXCEPT ![i] = s]
          /\ slots_len' = slots_len /\ retired' = retired /\ issued' = issued
      BY <1>5 DEF Detach, contains_key, detached_generation
    <2>2. ASSUME NEW h \in OddGens, Matches(i, s, h) PROVE h = g
      <3>1. Odd(h) /\ s.gen = wrapping_next(g)
        BY DEF OddGens, Slot
      <3>2. wrapping_next(g) = wrapping_next(h)
        BY <1>2, <2>2, <3>1 DEF Matches, Slot
      <3>3. QED
        BY <1>1, <3>2, NextInjective
    <2>3. Ages(i, s)
      <3>1. CASE g = MaxGen
        BY <3>1 DEF Ages, LastDetached
      <3>2. CASE g < MaxGen
        <4>1. slots[i] # LastDetached(i)
          BY <1>1, <1>2, <2>1 DEF LastDetached, Slot
        <4>2. s.gen = g + 1
          BY <1>2, <3>2 DEF Slot
        <4>3. \A h \in OddGens : h <= g => h <= g + 1
          BY <1>1 DEF OddGens
        <4>4. QED
          BY <2>1, <4>1, <4>2, <4>3 DEF Ages
      <3>3. QED
        BY <1>1, <3>1, <3>2 DEF ConfigAssumption
    <2>4. Rewrites(i, s)
      BY <1>1, <2>1, <2>2, <2>3 DEF Rewrites
    <2>5. QED
      BY <1>1, <2>4
  <1>6. ASSUME NEW v \in Values, Attach(k, v) PROVE \E s : Rewrites(i, s)
    <2> DEFINE s == Slot(g, v)
    <2>1. slots[i] = Slot(wrapping_next(g), i) /\ slots' = [slots EXCEPT ![i] = s]
          /\ slots_len' = slots_len /\ retired' = retired /\ issued' = issued
      BY <1>6 DEF Attach, detached_slot, detached_generation
    <2>2. \A h \in OddGens : Matches(i, s, h) => h = g
      BY <1>1, <1>2, NextOfOdd DEF Matches, Slot
    <2>3. Ages(i, s)
      <3>1. CASE g = MaxGen
        BY <3>1 DEF Ages, Slot
      <3>2. CASE g < MaxGen
        <4>1. g + 1 < MaxGen /\ slots[i].gen = g + 1
          BY <1>1, <2>1, <3>2, NextOfOdd DEF Slot
        <4>2. \A h \in OddGens : h <= g + 1 => h <= g
          BY <1>1, <1>2, <3>2 DEF OddGens, Odd
        <4>3. wrapping_next(MaxGen) # g + 1
          BY <1>1, <4>1 DEF wrapping_next, ConfigAssumption
        <4>4. QED
          BY <4>1, <4>2, <4>3 DEF Ages, LastDetached, Slot
      <3>3. QED
        BY <1>1, <3>1, <3>2 DEF ConfigAssumption
    <2>4. QED
      BY <1>1, <2>1, <2>2, <2>3 DEF Rewrites
  <1>7. ASSUME NEW v \in Values, Write(k, v) PROVE \E s : Rewrites(i, s)
    <2> DEFINE s == Slot(g, v)
    <2>1. slots[i].gen = g /\ slots' = [slots EXCEPT ![i] = s]
          /\ slots_len' = slots_len /\ retired' = retired /\ issued' = issued
      BY <1>7 DEF Write, contains_key
    <2>2. \A h \in OddGens : Matches(i, s, h) => h = g
      BY <1>1, <1>2, NextOfOdd DEF Matches, Slot
    <2>3. Ages(i, s)
      BY <1>1, <1>2, <2>1 DEF Ages, LastDetached, Slot
    <2>4. QED
      BY <1>1, <2>1, <2>2, <2>3 DEF Rewrites
  <1>8. QED
    BY <1>1, <1>3, <1>4, <1>5, <1>6, <1>7 DEF KeyStep

\* retain leaves the next value, with its key.
LEMMA KeepRewrites ==
  ASSUME ConfigAssumption, IInv, NEW v \in Values, RetainKeep(v)
  PROVE  \E i \in Positions : \E s : Rewrites(i, s)
  <1>1. PICK i \in Positions :
          HoldsValue(i) /\ slots' = [slots EXCEPT ![i] = Slot(slots[i].gen, v)]
    BY DEF RetainKeep, Reaches
  <1> DEFINE s == Slot(slots[i].gen, v)
  <1>2. slots_len' = slots_len /\ retired' = retired /\ issued' = issued
    BY DEF RetainKeep
  <1>3. Odd(slots[i].gen) /\ slots[i].gen \in OddGens
    BY <1>1, OffListNotRetired DEF IInv, HoldsValue, OffList, OddGens
  <1>4. \A h \in OddGens : Matches(i, s, h) => slots[i].gen = h
    BY <1>3, NextOfOdd DEF Matches, Slot
  <1>5. Ages(i, s)
    <2>1. ~Odd(wrapping_next(MaxGen))
      BY DEF wrapping_next, Odd, ConfigAssumption
    <2>2. QED
      BY <1>3, <2>1 DEF Ages, LastDetached, Slot
  <1>6. Rewrites(i, s)
    BY <1>1, <1>2, <1>4, <1>5 DEF Rewrites, Matches
  <1>7. QED
    BY <1>6

\* Every step but a reset does one of three things to the slots and the keys.
LEMMA StepKinds ==
  ASSUME ConfigAssumption, IInv, [Next]_vars
  PROVE  \/ Reset
         \/ Quiet
         \/ \E s : Occupies(s)
         \/ \E i \in Positions : \E s : Rewrites(i, s)
  <1>1. ASSUME NEW v \in Values, Insert(v) PROVE Occupies(Slot(Target.gen, v))
    BY <1>1, RoomForTarget DEF Insert, fill, Issue, Occupies, Slot
  <1>2. ASSUME NEW v \in Values, EntryInsert(v) PROVE Occupies(Slot(Target.gen, v))
    BY <1>2 DEF EntryInsert, fill, Issue, Occupies, Slot, IInv, CallOK
  <1>3. CASE ReserveKey
    <2>1. Occupies(Slot(detached_generation(Target.gen), Target.idx))
      BY <1>3, RoomForTarget DEF ReserveKey, Issue, Occupies, detached_generation
    <2>2. QED
      BY <2>1
  <1>4. ASSUME NEW k \in Keys, KeyStep(k) PROVE \E i \in Positions : \E s : Rewrites(i, s)
    BY <1>4, KeyStepRewrites
  <1>5. CASE TakeNext \/ RetainDrop
    <2>1. PICK i \in Positions : Reaches(i) /\ take(i)
      BY <1>5 DEF TakeNext, RetainDrop
    <2>2. issued' = issued
      BY <1>5 DEF TakeNext, RetainDrop
    <2>3. slots[i].gen \in OddGens
      BY <2>1, OffListNotRetired DEF IInv, OffList, Reaches
    <2>4. Rewrites(i, freed_parts(i, slots[i].gen).slot)
      BY <2>1, <2>2, <2>3, FreeRewrites DEF take, Matches
    <2>5. QED
      BY <2>4
  <1>6. ASSUME NEW v \in Values, RetainKeep(v) PROVE \E i \in Positions : \E s : Rewrites(i, s)
    BY <1>6, KeepRewrites
  <1>7. CASE UNCHANGED vars
    BY <1>7 DEF vars, Quiet
  <1>8. ASSUME \/ VacantEntry \/ Finish \/ Abandon
               \/ \E n \in 1 .. ReserveMax : Reserve(n)
               \/ \E m \in {"clear", "retain", "drain"} : Begin(m)
        PROVE  Quiet
    BY <1>8 DEF VacantEntry, Finish, Abandon, Reserve, Begin, data, Quiet
  <1>9. QED
    BY <1>1, <1>2, <1>3, <1>4, <1>5, <1>6, <1>7, <1>8 DEF Next

-----------------------------------------------------------------------------
(* The theorems *)

LEMMA StepBound ==
  ASSUME ConfigAssumption, IInv, KeyBound, [Next]_vars
  PROVE  KeyBound'
  <1>1. CASE Reset
    BY <1>1 DEF Reset, KeyBound
  <1>2. CASE Quiet
    BY <1>2 DEF Quiet, KeyBound, Bounds, LastDetached, Positions
  <1>3. ASSUME NEW s, Occupies(s) PROVE KeyBound'
    BY <1>3, OccupyKeepsBound DEF Occupies
  <1>4. ASSUME NEW i \in Positions, NEW s, Rewrites(i, s) PROVE KeyBound'
    BY <1>4, RewriteKeepsBound DEF Rewrites
  <1>5. QED
    BY <1>1, <1>2, <1>3, <1>4, StepKinds

LEMMA BoundInvariance == Spec => [](IInv /\ KeyBound)
  <1>1. Init => IInv /\ KeyBound
    BY ConfigAssumption, InitInv DEF Init, KeyBound
  <1>2. IInv /\ KeyBound /\ [Next]_vars => IInv' /\ KeyBound'
    BY ConfigAssumption, StepInv, StepBound
  <1>3. QED
    BY <1>1, <1>2, PTL DEF Spec

\* The next key for the slot that next_target picks matches nothing and, unless
\* generations wrap, was not handed out.
LEMMA TargetUnused ==
  ASSUME ConfigAssumption, IInv, KeyBound, next_free = NoSlot => slots_len <= MaxIdx
  PROVE  /\ ~contains_key(Key(Target.idx, Target.gen))
         /\ ~detached_slot(Key(Target.idx, Target.gen))
         /\ ~Wrap => Key(Target.idx, Target.gen) \notin issued
  <1>1. CASE next_free # NoSlot
    <2>1. /\ next_free \in Positions /\ slots[next_free].item # next_free
          /\ next_free \notin retired /\ slots[next_free].gen \in Nat
      BY <1>1, HeadOfList DEF IInv, DataOK, FieldsOK
    <2>2. Target.idx = next_free /\ Target.gen = slots[next_free].gen + 1
      BY <1>1 DEF Target
    <2>3. ~contains_key(Key(Target.idx, Target.gen))
      BY <2>1, <2>2 DEF contains_key, Key
    <2>4. ~detached_slot(Key(Target.idx, Target.gen))
      BY <2>1, <2>2 DEF detached_slot, Key, Slot
    <2>5. ASSUME ~Wrap, Key(Target.idx, Target.gen) \in issued PROVE FALSE
      <3>1. Bounds(Key(Target.idx, Target.gen), slots[next_free])
        BY <2>1, <2>2, <2>5 DEF KeyBound, Key
      <3>2. QED
        BY <2>1, <2>2, <3>1 DEF Bounds, LastDetached, Key, Slot
    <2>6. QED
      BY <2>3, <2>4, <2>5
  <1>2. CASE next_free = NoSlot
    <2>1. Target.idx \notin Positions
      BY <1>2 DEF Target, Positions
    <2>2. QED
      BY <2>1 DEF contains_key, detached_slot, Key, KeyBound
  <1>3. QED
    BY <1>1, <1>2

\* The key that a VacantEntry shows, or a closure gets, is unused, and the slot
\* it will take has room.
THEOREM EntryKeyFresh == Spec => []EntryKeyUnused
  <1>1. IInv /\ KeyBound => EntryKeyUnused
    <2> SUFFICES ASSUME IInv, KeyBound, mode = "entry" PROVE EntryKeyUnused
      BY DEF EntryKeyUnused
    <2>1. target = Target /\ (next_free = NoSlot => slots_len <= MaxIdx /\ slots_len < capacity)
      BY DEF IInv, CallOK
    <2>2. ~target.from_free_list => next_free = NoSlot
      BY <2>1 DEF Target
    <2>3. QED
      BY <2>1, <2>2, TargetUnused, ConfigAssumption DEF EntryKeyUnused
  <1>2. QED
    BY <1>1, BoundInvariance, PTL

\* A stale key does not come to match, whatever the step.
LEMMA StepStale ==
  ASSUME ConfigAssumption, IInv, KeyBound, [Next]_vars, ~Wrap, slots_len' >= slots_len,
         NEW k \in issued, Stale(k)
  PROVE  Stale(k)'
  <1>1. k.idx \in Positions /\ (k.idx \in retired \/ Bounds(k, slots[k.idx]))
    BY DEF KeyBound
  <1>2. k.gen \in OddGens
    BY DEF IInv, CallOK, Keys
  <1>3. ~Matches(k.idx, slots[k.idx], k.gen)
    BY <1>1 DEF Stale, contains_key, detached_slot, detached_generation, Matches
  <1>4. CASE Reset
    BY <1>1, <1>4 DEF Reset, Positions, IInv, DataOK, FieldsOK, ConfigAssumption
  <1>5. CASE Quiet
    BY <1>5 DEF Quiet, Stale, contains_key, detached_slot, Positions
  <1>6. ASSUME NEW i \in Positions, NEW s, Rewrites(i, s) PROVE Stale(k)'
    <2>1. /\ Positions' = Positions /\ slots'[i] = s /\ issued' = issued
          /\ \A j \in Positions : j # i => slots'[j] = slots[j]
      BY <1>6 DEF Rewrites, Positions, IInv, DataOK, FieldsOK
    <2>2. ~Matches(k.idx, slots'[k.idx], k.gen)
      BY <1>1, <1>2, <1>3, <1>6, <2>1 DEF Rewrites
    <2>3. QED
      BY <2>1, <2>2 DEF Stale, contains_key, detached_slot, detached_generation, Matches
  <1>7. ASSUME NEW s, Occupies(s) PROVE Stale(k)'
    <2>1. issued \subseteq issued'
      BY <1>7 DEF Occupies, HandOut
    <2>2. ~Matches(k.idx, slots'[k.idx], k.gen)
      <3>1. CASE next_free # NoSlot
        <4>1. /\ next_free \in Positions /\ slots[next_free].item # next_free
              /\ next_free \notin retired /\ slots[next_free].gen \in Nat
              /\ slots[next_free].gen + 1 \in OddGens
          BY <3>1, HeadOfList DEF IInv, DataOK, FieldsOK
        <4>2. /\ Target.idx = next_free /\ Target.gen = slots[next_free].gen + 1
              /\ Target.from_free_list
          BY <3>1 DEF Target
        <4>3. slots'[next_free] = s /\ \A j \in Positions : j # next_free => slots'[j] = slots[j]
          BY <1>7, <4>1, <4>2 DEF Occupies, Occupy, IInv, DataOK, FieldsOK
        <4>4. CASE k.idx = next_free
          <5>1. k.gen # Target.gen
            BY <1>1, <4>1, <4>2, <4>4 DEF Bounds, LastDetached, Slot
          <5>2. s.gen # k.gen
            <6>1. Odd(k.gen) /\ ~Odd(wrapping_next(Target.gen))
              BY <1>2, <4>1, <4>2, NextOfOdd DEF OddGens
            <6>2. QED
              BY <1>7, <5>1, <6>1 DEF Occupies, Slot
          <5>3. s # Slot(wrapping_next(k.gen), k.idx)
            <6>1. wrapping_next(k.gen) # wrapping_next(Target.gen)
              BY <1>2, <4>1, <4>2, <5>1, NextInjective
            <6>2. ~Odd(wrapping_next(k.gen)) /\ Odd(Target.gen)
              BY <1>2, <4>1, <4>2, NextOfOdd DEF OddGens
            <6>3. QED
              BY <1>7, <6>1, <6>2 DEF Occupies, Slot
          <5>4. QED
            BY <4>3, <4>4, <5>2, <5>3 DEF Matches
        <4>5. QED
          BY <1>1, <1>3, <4>3, <4>4
      <3>2. CASE next_free = NoSlot
        <4>1. push(s) /\ \A j \in Positions : slots'[j] = slots[j]
          <5>1. ~Target.from_free_list
            BY <3>2 DEF Target
          <5>2. push(s) /\ slots_len \in Nat
            BY <1>7, <5>1 DEF Occupies, Occupy, IInv, DataOK, FieldsOK, ConfigAssumption
          <5>3. QED
            BY <5>2 DEF push, Positions
        <4>2. QED
          BY <1>1, <1>3, <4>1
      <3>3. QED
        BY <3>1, <3>2
    <2>3. QED
      BY <2>1, <2>2 DEF Stale, contains_key, detached_slot, detached_generation, Matches
  <1>8. QED
    BY <1>4, <1>5, <1>6, <1>7, StepKinds

\* Until a reset, and unless generations wrap, a key that was handed out and
\* matches nothing never matches anything again.
THEOREM StaleForever == Spec => StaleKeysStayStale
  <1>1. ASSUME IInv, KeyBound, [Next]_vars
        PROVE  [~Wrap /\ slots_len' >= slots_len =>
                  \A k \in issued : Stale(k) => Stale(k)']_vars
    BY <1>1, ConfigAssumption, StepStale
  <1>2. QED
    BY <1>1, BoundInvariance, PTL DEF Spec, StaleKeysStayStale

-----------------------------------------------------------------------------
(* Raw parts *)

\* The parts are a map in which no method is in progress.
LEMMA PartsInv ==
  ASSUME ConfigAssumption, PartsInit
  PROVE  IInv
  <1>1. slots_len \in Nat /\ slots_len <= MaxIdx + 1
    BY PartsAssumption DEF PartsInit, ConfigAssumption
  <1>2. FieldsOK
    <2>1. \A i \in Positions :
            /\ slots[i] \in [gen : 0 .. GenMax, item : Values \union 0 .. NoSlot]
            /\ slots[i].item \in IF HoldsValue(i) THEN Values ELSE 0 .. NoSlot
      BY DEF PartsInit, AnySlot, HoldsValue
    <2>2. slots \in [Positions -> [gen : 0 .. GenMax, item : Values \union 0 .. NoSlot]]
      BY <2>1 DEF PartsInit
    <2>3. QED
      BY <1>1, <2>1, <2>2 DEF PartsInit, FieldsOK, ConfigAssumption
  <1>3. PICK k \in 0 .. slots_len :
          \E f \in [1 .. k -> Positions] :
            /\ FreeList(f, k)
            /\ retired = {i \in Positions : /\ ~HoldsValue(i) /\ slots[i].item # i
                                            /\ \A a \in 1 .. k : f[a] # i}
    BY DEF PartsInit
  <1>4. FreeListComplete
    <2>1. PICK f \in [1 .. k -> Positions] :
            /\ FreeList(f, k)
            /\ retired = {i \in Positions : /\ ~HoldsValue(i) /\ slots[i].item # i
                                            /\ \A a \in 1 .. k : f[a] # i}
      BY <1>3
    <2>2. Lists(f, k)
      BY <2>1 DEF Lists
    <2>3. QED
      BY <2>1, <2>2 DEF FreeListComplete
  <1>5. RetiredInert
    BY <1>3 DEF RetiredInert
  <1>6. len \in 0 .. NoSlot
    BY <1>2, HeldBounded DEF PartsInit, Held
  <1>7. QED
    BY <1>1, <1>2, <1>4, <1>5, <1>6, ReserveAssumption
    DEF PartsInit, IInv, DataOK, CallOK, ConfigAssumption

LEMMA PartsInvariance == PartsSpec => [](IInv /\ LenExact)
  <1>1. PartsInit => IInv /\ LenExact
    BY ConfigAssumption, PartsInv DEF PartsInit, LenExact
  <1>2. IInv /\ LenExact /\ [Next]_vars => IInv' /\ LenExact'
    BY ConfigAssumption, StepInv, StepLen
  <1>3. QED
    BY <1>1, <1>2, PTL DEF PartsSpec

\* Whatever parts a map was made of, its parts follow the rules again after
\* every step, and no slot was lost.
THEOREM PartsKeepRules == PartsSpec => []PartsRules
  <1>1. IInv /\ LenExact => PartsRules
    BY DEF IInv, DataOK, FieldsOK, PartsRules, ConfigAssumption
  <1>2. QED
    BY <1>1, PartsInvariance, PTL

-----------------------------------------------------------------------------
(* Slots that are out of use *)

\* The slot that next_target picks is not retired.
LEMMA TargetNotRetired ==
  ASSUME ConfigAssumption, IInv
  PROVE  Target.idx \notin retired
  <1>1. CASE next_free # NoSlot
    BY <1>1, HeadOfList DEF IInv, DataOK, Target
  <1>2. CASE next_free = NoSlot
    BY <1>2 DEF IInv, DataOK, FieldsOK, Positions, Target, ConfigAssumption
  <1>3. QED
    BY <1>1, <1>2

\* The only keys that a step hands out are those of a slot that is in use.
LEMMA IssuedKeys ==
  ASSUME ConfigAssumption, IInv, [Next]_vars
  PROVE  issued' \subseteq issued \union {Key(Target.idx, Target.gen)}
  <1>1. ASSUME NEW v, Insert(v) PROVE issued' = issued \union {Key(Target.idx, Target.gen)}
    BY <1>1 DEF Insert, fill, Issue, HandOut
  <1>2. ASSUME NEW v, EntryInsert(v) PROVE issued' = issued \union {Key(Target.idx, Target.gen)}
    BY <1>2 DEF EntryInsert, fill, Issue, HandOut, IInv, CallOK
  <1>3. CASE ReserveKey
    BY <1>3 DEF ReserveKey, Issue, HandOut
  <1>4. CASE Reset
    BY <1>4 DEF Reset
  <1>5. ASSUME NEW k, KeyStep(k) PROVE issued' = issued
    BY <1>5 DEF KeyStep, Remove, Retire, Detach, Release, Attach, Write
  <1>6. QED
    BY <1>1, <1>2, <1>3, <1>4, <1>5
    DEF Next, VacantEntry, Reserve, Begin, TakeNext, RetainKeep, RetainDrop, Finish,
        Abandon, vars

\* Unless the map is reset, a retired slot stays retired.
LEMMA RetiredGrows ==
  ASSUME ConfigAssumption, IInv, [Next]_vars, slots_len' >= slots_len
  PROVE  retired \subseteq retired'
  <1>1. CASE Reset
    <2>1. slots_len = 0
      BY <1>1 DEF Reset, IInv, DataOK, FieldsOK, ConfigAssumption
    <2>2. QED
      BY <2>1 DEF IInv, DataOK, FieldsOK, Positions
  <1>2. ASSUME NEW k, KeyStep(k) PROVE retired \subseteq retired'
    BY <1>2 DEF KeyStep, Remove, Retire, Detach, Release, Attach, Write, take, Free
  <1>3. CASE TakeNext \/ RetainDrop
    BY <1>3 DEF TakeNext, RetainDrop, take, Free
  <1>4. QED
    BY <1>1, <1>2, <1>3
    DEF Next, Insert, VacantEntry, EntryInsert, ReserveKey, Reserve, Begin, RetainKeep,
        Finish, Abandon, vars

\* What a step does to the keys of a retired slot k.idx: nothing.
LEMMA RetiredKeyUnused ==
  ASSUME ConfigAssumption, IInv, IInv', [Next]_vars, retired \subseteq retired',
         NEW k \in Keys, k.idx \in retired
  PROVE  ~contains_key(k)' /\ ~detached_slot(k)' /\ (k \in issued' => k \in issued)
  <1>1. ~HoldsValue(k.idx)' /\ slots'[k.idx].item # k.idx
    BY DEF IInv, DataOK, RetiredInert, HoldsValue
  <1>2. Odd(k.gen)
    BY DEF Keys, OddGens
  <1>3. ~contains_key(k)' /\ ~detached_slot(k)'
    BY <1>1, <1>2 DEF contains_key, detached_slot, HoldsValue, Slot
  <1>4. k # Key(Target.idx, Target.gen)
    BY TargetNotRetired DEF Key
  <1>5. k \in issued' => k \in issued
    BY <1>4, IssuedKeys
  <1>6. QED
    BY <1>3, <1>5

\* Until a reset, no key to a retired slot matches anything, and none is handed
\* out, also when generations wrap and whatever parts the map was made of.
THEOREM RetiredStays == PartsSpec => RetiredStaysRetired
  <1>1. ASSUME IInv, IInv', [Next]_vars
        PROVE  [slots_len' >= slots_len =>
                  /\ retired \subseteq retired'
                  /\ \A k \in Keys : k.idx \in retired =>
                       /\ ~contains_key(k)'
                       /\ ~detached_slot(k)'
                       /\ k \in issued' => k \in issued]_vars
    BY <1>1, ConfigAssumption, RetiredGrows, RetiredKeyUnused
  <1>2. QED
    BY <1>1, PartsInvariance, PTL DEF PartsSpec, RetiredStaysRetired

-----------------------------------------------------------------------------
(* The slots, one by one *)

\* The slot at index i becomes s, and the other slots stay as they are.
Sets(i, s) ==
  \A j \in Keys :
    IF j.idx = i
    THEN /\ contains_key(j)' <=> s.gen = j.gen
         /\ detached_slot(j)' <=> s = Slot(wrapping_next(j.gen), i)
         /\ get(j)' = s.item
    ELSE /\ contains_key(j)' <=> contains_key(j)
         /\ detached_slot(j)' <=> detached_slot(j)
         /\ contains_key(j) => get(j)' = get(j)

\* No other key of the index of k is in use.
OnlyKey(k) ==
  \A j \in Keys : j.idx = k.idx /\ j # k => ~contains_key(j) /\ ~detached_slot(j)

\* A slot of the map is rewritten.
LEMMA RewriteSets ==
  ASSUME ConfigAssumption, IInv, NEW i \in Positions, NEW s,
         slots' = [slots EXCEPT ![i] = s], slots_len' = slots_len
  PROVE  Sets(i, s)
  <1>1. /\ Positions' = Positions /\ slots'[i] = s
        /\ \A j \in Positions : j # i => slots'[j] = slots[j]
    BY DEF Positions, IInv, DataOK, FieldsOK
  <1>2. QED
    BY <1>1 DEF Sets, contains_key, detached_slot, detached_generation, get

\* The slot of the next target is occupied, be it a free one or a new one.
LEMMA OccupySets ==
  ASSUME ConfigAssumption, IInv, NEW s, Occupy(Target, s)
  PROVE  Sets(Target.idx, s)
  <1>1. CASE next_free # NoSlot
    <2>1. next_free \in Positions /\ Target.idx = next_free /\ Target.from_free_list
      BY <1>1, HeadOfList DEF Target, IInv, DataOK
    <2>2. QED
      BY <2>1, RewriteSets DEF Occupy
  <1>2. CASE next_free = NoSlot
    <2>1. ~Target.from_free_list /\ Target.idx = slots_len
      BY <1>2 DEF Target
    <2>2. /\ slots_len \in Nat /\ Positions' = Positions \union {slots_len}
          /\ slots_len \notin Positions
      BY <2>1 DEF Occupy, push, Positions, IInv, DataOK, FieldsOK, ConfigAssumption
    <2>3. slots'[slots_len] = s /\ \A j \in Positions : slots'[j] = slots[j]
      BY <2>1, <2>2 DEF Occupy, push, Positions
    <2>4. QED
      BY <2>1, <2>2, <2>3 DEF Sets, contains_key, detached_slot, detached_generation, get
  <1>3. QED
    BY <1>1, <1>2

\* A key that is in use is the only one of its index.
LEMMA InUseAlone ==
  ASSUME ConfigAssumption, NEW k \in Keys, contains_key(k) \/ detached_slot(k)
  PROVE  OnlyKey(k) /\ (contains_key(k) <=> ~detached_slot(k))
  <1>1. \A j \in Keys : /\ Odd(j.gen) /\ ~Odd(wrapping_next(j.gen)) /\ j.gen \in OddGens
                        /\ j = Key(j.idx, j.gen)
    BY NextOfOdd DEF Keys, Key, OddGens
  <1>2. ASSUME NEW j \in Keys, j.idx = k.idx, contains_key(j) \/ detached_slot(j)
        PROVE  j = k
    <2>1. j.gen = k.gen \/ wrapping_next(j.gen) = wrapping_next(k.gen)
      BY <1>1, <1>2 DEF contains_key, detached_slot, detached_generation, Slot
    <2>2. j.gen = k.gen
      BY <1>1, <2>1, NextInjective
    <2>3. QED
      BY <1>1, <1>2, <2>2
  <1>3. ~(contains_key(k) /\ detached_slot(k))
    BY <1>1 DEF contains_key, detached_slot, detached_generation, Slot
  <1>4. QED
    BY <1>2, <1>3 DEF OnlyKey

-----------------------------------------------------------------------------
(* What the slot of a key becomes *)

\* What KeyedMap sees: the values by key, and the keys that are set aside.
contents == [k \in {j \in Keys : contains_key(j)} |-> get(k)]
reserved == {k \in Keys : detached_slot(k)}

\* The slot holds a value under k: k has that value, and is not set aside.
LEMMA Filled ==
  ASSUME ConfigAssumption, NEW k \in Keys, OnlyKey(k), NEW v, Sets(k.idx, Slot(k.gen, v))
  PROVE  contents' = Abs!With(k, v) /\ reserved' = reserved \ {k}
  <1>1. \A j \in Keys : /\ j.gen \in OddGens /\ Odd(j.gen) /\ ~Odd(wrapping_next(j.gen))
                        /\ j.idx = k.idx /\ j.gen = k.gen => j = k
    BY NextOfOdd DEF Keys, OddGens
  <1>2. \A j \in Keys : contains_key(j)' <=> contains_key(j) \/ j = k
    BY <1>1 DEF Sets, OnlyKey, Slot
  <1>3. \A j \in Keys : detached_slot(j)' <=> detached_slot(j) /\ j # k
    BY <1>1 DEF Sets, OnlyKey, Slot
  <1>4. \A j \in Keys : contains_key(j)' => get(j)' = IF j = k THEN v ELSE get(j)
    BY <1>1, <1>2 DEF Sets, OnlyKey, Slot
  <1>5. contents' = Abs!With(k, v)
    <2> DEFINE D == {j \in Keys : contains_key(j)}
    <2>1. {j \in Keys : contains_key(j)'} = D \union {k}
      BY <1>2
    <2>2. contents' = [j \in D \union {k} |-> IF j = k THEN v ELSE get(j)]
      BY <1>2, <1>4, <2>1 DEF contents
    <2>3. Abs!With(k, v) = [j \in D \union {k} |-> IF j = k THEN v ELSE get(j)]
      BY DEF Abs!With
    <2>4. QED
      BY <2>2, <2>3
  <1>6. reserved' = reserved \ {k}
    BY <1>3 DEF reserved
  <1>7. QED
    BY <1>5, <1>6

\* A key is out of use, and the values of the others are kept.
LEMMA KeptContents ==
  ASSUME NEW k \in Keys, NEW s, Sets(k.idx, s), OnlyKey(k),
         \A j \in Keys : contains_key(j)' <=> contains_key(j) /\ j # k
  PROVE  contents' = Abs!Without(k)
  <1> DEFINE D == {j \in Keys : contains_key(j)}
  <1>1. {j \in Keys : contains_key(j)'} = D \ {k}
    OBVIOUS
  <1>2. \A j \in D \ {k} : get(j)' = get(j)
    BY DEF Sets, OnlyKey
  <1>3. contents' = [j \in D \ {k} |-> get(j)]
    BY <1>1, <1>2 DEF contents
  <1>4. Abs!Without(k) = [j \in D \ {k} |-> get(j)]
    BY DEF Abs!Without
  <1>5. QED
    BY <1>3, <1>4

\* The slot is detached under k: k has no value, and is set aside.
LEMMA Detached ==
  ASSUME ConfigAssumption, NEW k \in Keys, OnlyKey(k),
         Sets(k.idx, Slot(wrapping_next(k.gen), k.idx))
  PROVE  contents' = Abs!Without(k) /\ reserved' = reserved \union {k}
  <1>1. \A j \in Keys : /\ j.gen \in OddGens /\ Odd(j.gen) /\ ~Odd(wrapping_next(j.gen))
                        /\ j.idx = k.idx /\ j.gen = k.gen => j = k
    BY NextOfOdd DEF Keys, OddGens
  <1>2. \A j \in Keys : contains_key(j)' <=> contains_key(j) /\ j # k
    BY <1>1 DEF Sets, OnlyKey, Slot
  <1>3. ASSUME NEW j \in Keys PROVE detached_slot(j)' <=> detached_slot(j) \/ j = k
    <2>1. CASE j.idx # k.idx
      BY <2>1 DEF Sets
    <2>2. CASE j.idx = k.idx
      <3>1. detached_slot(j)' <=> wrapping_next(k.gen) = wrapping_next(j.gen)
        BY <2>2 DEF Sets, Slot
      <3>2. detached_slot(j)' <=> j = k
        BY <1>1, <2>2, <3>1, NextInjective
      <3>3. QED
        BY <2>2, <3>2 DEF OnlyKey
    <2>3. QED
      BY <2>1, <2>2
  <1>4. contents' = Abs!Without(k)
    BY <1>2, KeptContents
  <1>5. reserved' = reserved \union {k}
    BY <1>3 DEF reserved
  <1>6. QED
    BY <1>4, <1>5

\* The slot is vacant, free or out of use: k is neither.
LEMMA Vacated ==
  ASSUME ConfigAssumption, NEW k \in Keys, OnlyKey(k), NEW s, Sets(k.idx, s),
         ~Odd(s.gen), s.item # k.idx
  PROVE  contents' = Abs!Without(k) /\ reserved' = reserved \ {k}
  <1>1. \A j \in Keys : /\ Odd(j.gen) /\ s # Slot(wrapping_next(j.gen), k.idx)
                        /\ j.idx = k.idx /\ j.gen = k.gen => j = k
    BY DEF Keys, OddGens, Slot
  <1>2. \A j \in Keys : contains_key(j)' <=> contains_key(j) /\ j # k
    BY <1>1 DEF Sets, OnlyKey
  <1>3. \A j \in Keys : detached_slot(j)' <=> detached_slot(j) /\ j # k
    BY <1>1 DEF Sets, OnlyKey
  <1>4. QED
    BY <1>2, <1>3, KeptContents DEF reserved

-----------------------------------------------------------------------------
(* The steps *)

\* A key that is in use gives its slot up, in the way of remove and release.
LEMMA FreeVacates ==
  ASSUME ConfigAssumption, IInv, NEW k \in Keys, contains_key(k) \/ detached_slot(k),
         Free(k.idx, k.gen)
  PROVE  /\ contents' = Abs!Without(k) /\ reserved' = reserved \ {k}
         /\ retired' = Abs!GivenUp(k)
  <1> DEFINE i == k.idx
             s == freed_parts(k.idx, k.gen).slot
  <1>1. i \in Positions /\ i < NoSlot /\ i \in Nat /\ k.gen \in OddGens /\ OffList(i)
    BY DEF contains_key, detached_slot, OffList, HoldsValue, Slot, Keys, OddGens,
           IInv, DataOK, FieldsOK, Positions, ConfigAssumption
  <1>2. i # next_free
    BY <1>1, HeadOfList DEF IInv, DataOK, OffList, ConfigAssumption
  <1>3. ~Odd(s.gen) /\ s.item # i
    BY <1>1, <1>2, NextOfOdd, ZeroIsEven DEF freed_parts, Slot, ConfigAssumption
  <1>4. Sets(i, s) /\ OnlyKey(k)
    BY <1>1, RewriteSets, InUseAlone DEF Free
  <1>5. contents' = Abs!Without(k) /\ reserved' = reserved \ {k}
    BY <1>3, <1>4, Vacated
  <1>6. retired' = Abs!GivenUp(k)
    BY DEF Free, RunsOut, Abs!GivenUp
  <1>7. QED
    BY <1>5, <1>6

\* A value is taken out, by remove, clear, retain or a drain.
LEMMA TakeRemoves ==
  ASSUME ConfigAssumption, IInv, NEW k \in Keys, contains_key(k), take(k.idx), issued' = issued
  PROVE  Abs!Remove(k)
  <1>1. Free(k.idx, k.gen) /\ ~detached_slot(k)
    BY InUseAlone DEF take, contains_key
  <1>2. /\ contents' = Abs!Without(k) /\ reserved' = reserved \ {k}
        /\ retired' = Abs!GivenUp(k)
    BY <1>1, FreeVacates
  <1>3. reserved' = reserved
    BY <1>1, <1>2 DEF reserved
  <1>4. QED
    BY <1>2, <1>3 DEF Abs!Remove, contents, reserved

\* A value is written, by a reference to it or by retain.
LEMMA WriteSound ==
  ASSUME ConfigAssumption, IInv, NEW k \in Keys, contains_key(k), NEW v,
         slots' = [slots EXCEPT ![k.idx] = Slot(k.gen, v)],
         UNCHANGED <<slots_len, issued, retired>>
  PROVE  Abs!Write(k, v)
  <1>1. OnlyKey(k) /\ ~detached_slot(k) /\ k.idx \in Positions
    BY InUseAlone DEF contains_key
  <1>2. contents' = Abs!With(k, v) /\ reserved' = reserved \ {k}
    BY <1>1, RewriteSets, Filled
  <1>3. reserved' = reserved
    BY <1>1, <1>2 DEF reserved
  <1>4. QED
    BY <1>2, <1>3 DEF Abs!Write, contents, reserved

\* The methods that take a key do what KeyedMap says, to that key.
LEMMA KeyStepSound ==
  ASSUME ConfigAssumption, IInv, NEW k \in Keys
  PROVE  KeyStepRefines(k)
  <1>1. ASSUME Remove(k) PROVE Abs!Remove(k)
    BY <1>1, TakeRemoves DEF Remove
  <1>2. ASSUME contains_key(k)
        PROVE  /\ OnlyKey(k) /\ ~detached_slot(k) /\ k.idx \in Positions
               /\ reserved \ {k} = reserved
               /\ k \in DOMAIN contents
    BY <1>2, InUseAlone DEF contains_key, reserved, contents
  <1>3. ASSUME detached_slot(k)
        PROVE  /\ OnlyKey(k) /\ ~contains_key(k) /\ k.idx \in Positions
               /\ k \in reserved /\ Abs!Without(k) = contents
    <2>1. OnlyKey(k) /\ ~contains_key(k)
      BY <1>3, InUseAlone
    <2>2. {j \in Keys : contains_key(j)} \ {k} = {j \in Keys : contains_key(j)}
      BY <2>1
    <2>3. Abs!Without(k) = contents
      BY <2>2 DEF Abs!Without, contents
    <2>4. QED
      BY <1>3, <2>1, <2>3 DEF detached_slot, reserved
  <1>4. ASSUME Retire(k) PROVE Abs!Retire(k)
    <2>1. Sets(k.idx, Slot(0, NoSlot))
      BY <1>2, <1>4, RewriteSets DEF Retire
    <2>2. k.idx # NoSlot
      BY DEF Keys, ConfigAssumption
    <2>3. contents' = Abs!Without(k) /\ reserved' = reserved \ {k}
      BY <1>2, <1>4, <2>1, <2>2, Vacated, ZeroIsEven DEF Retire, Slot
    <2>4. QED
      BY <1>2, <1>4, <2>3 DEF Retire, Abs!Retire, contents, reserved
  <1>5. ASSUME Detach(k) PROVE Abs!Detach(k)
    <2>1. Sets(k.idx, Slot(wrapping_next(k.gen), k.idx))
      BY <1>2, <1>5, RewriteSets DEF Detach, detached_generation
    <2>2. contents' = Abs!Without(k) /\ reserved' = reserved \union {k}
      BY <1>2, <1>5, <2>1, Detached DEF Detach
    <2>3. QED
      BY <1>2, <1>5, <2>2 DEF Detach, Abs!Detach, contents, reserved
  <1>6. ASSUME Release(k) PROVE Abs!Release(k)
    <2>1. /\ contents' = Abs!Without(k) /\ reserved' = reserved \ {k}
          /\ retired' = Abs!GivenUp(k)
      BY <1>6, FreeVacates DEF Release
    <2>2. QED
      BY <1>3, <1>6, <2>1 DEF Release, Abs!Release, contents, reserved
  <1>7. ASSUME NEW v \in Values, Attach(k, v) PROVE Abs!Attach(k, v)
    <2>1. Sets(k.idx, Slot(k.gen, v))
      BY <1>3, <1>7, RewriteSets DEF Attach
    <2>2. contents' = Abs!With(k, v) /\ reserved' = reserved \ {k}
      BY <1>3, <1>7, <2>1, Filled DEF Attach
    <2>3. QED
      BY <1>3, <1>7, <2>2 DEF Attach, Abs!Attach, contents, reserved
  <1>8. ASSUME NEW v \in Values, Write(k, v) PROVE Abs!Write(k, v)
    <2>1. slots' = [slots EXCEPT ![k.idx] = Slot(k.gen, v)] /\ contains_key(k)
      BY <1>8 DEF Write
    <2>2. UNCHANGED <<slots_len, issued, retired>>
      BY <1>8 DEF Write
    <2>3. QED
      BY <2>1, <2>2, WriteSound
  <1>9. QED
    BY <1>1, <1>4, <1>5, <1>6, <1>7, <1>8 DEF KeyStepRefines

\* The key for the next target is fresh.
LEMMA TargetFresh ==
  ASSUME ConfigAssumption, IInv, KeyBound, next_free = NoSlot => slots_len <= MaxIdx,
         NEW k, k = Key(Target.idx, Target.gen)
  PROVE  /\ k \in Keys /\ k.idx = Target.idx /\ k.gen = Target.gen
         /\ OnlyKey(k) /\ Abs!Fresh(k) /\ ~contains_key(k) /\ ~detached_slot(k)
  <1>1. k \in Keys /\ k.idx = Target.idx /\ k.gen = Target.gen
    BY TargetIsKey DEF Keys, Key, IInv, DataOK
  <1>2. \A j \in Keys : j.idx = k.idx => ~contains_key(j) /\ ~detached_slot(j)
    <2>1. CASE next_free # NoSlot
      <3>1. /\ k.idx = next_free /\ ~HoldsValue(next_free)
            /\ slots[next_free].item # next_free
        BY <1>1, <2>1, HeadOfList DEF Target, IInv, DataOK
      <3>2. QED
        BY <3>1 DEF contains_key, detached_slot, HoldsValue, Keys, OddGens, Slot
    <2>2. CASE next_free = NoSlot
      BY <1>1, <2>2 DEF Target, contains_key, detached_slot, Positions, IInv, DataOK,
                        FieldsOK, ConfigAssumption
    <2>3. QED
      BY <2>1, <2>2
  <1>3. k.idx \notin retired
    BY <1>1, TargetNotRetired
  <1>4. ASSUME ~Wrap, NEW j \in issued, j.idx = k.idx PROVE j.gen < k.gen
    <2>1. j.idx \in Positions /\ Bounds(j, slots[j.idx])
      BY <1>3, <1>4 DEF KeyBound
    <2>2. j.gen \in Nat
      BY <1>4 DEF IInv, CallOK, Keys, OddGens
    <2>3. CASE next_free # NoSlot
      <3>1. /\ k.idx = next_free /\ k.gen = slots[next_free].gen + 1
            /\ slots[next_free].item # next_free /\ slots[next_free].gen \in Nat
        BY <1>1, <2>3, HeadOfList DEF Target, IInv, DataOK, FieldsOK
      <3>2. QED
        BY <1>4, <2>1, <2>2, <3>1 DEF Bounds, LastDetached, Slot
    <2>4. CASE next_free = NoSlot
      BY <1>1, <1>4, <2>1, <2>4 DEF Target, Positions, IInv, DataOK, FieldsOK, ConfigAssumption
    <2>5. QED
      BY <2>3, <2>4
  <1>5. Abs!IndexFree(k)
    BY <1>2, <1>3 DEF Abs!IndexFree
  <1>6. QED
    BY <1>1, <1>2, <1>4, <1>5 DEF Abs!Fresh, OnlyKey

\* insert and the end of an entry put a value under a fresh key.
LEMMA FillInserts ==
  ASSUME ConfigAssumption, IInv, KeyBound, next_free = NoSlot => slots_len <= MaxIdx,
         NEW v \in Values, fill(Target, v), retired' = retired
  PROVE  \E k \in Keys : Abs!Insert(k, v)
  <1> DEFINE k == Key(Target.idx, Target.gen)
  <1>1. /\ k \in Keys /\ k.idx = Target.idx /\ k.gen = Target.gen
        /\ OnlyKey(k) /\ Abs!Fresh(k) /\ ~detached_slot(k)
    BY TargetFresh
  <1>2. Sets(k.idx, Slot(k.gen, v))
    BY <1>1, OccupySets DEF fill
  <1>3. contents' = Abs!With(k, v) /\ reserved' = reserved \ {k}
    BY <1>1, <1>2, Filled
  <1>4. reserved' = reserved /\ issued' = issued \union {k}
    BY <1>1, <1>3 DEF reserved, fill, Issue, HandOut
  <1>5. Abs!Insert(k, v)
    BY <1>1, <1>3, <1>4 DEF Abs!Insert, contents, reserved
  <1>6. QED
    BY <1>1, <1>5

\* reserve_key sets a fresh key aside.
LEMMA ReserveSound ==
  ASSUME ConfigAssumption, IInv, KeyBound, ReserveKey
  PROVE  \E k \in Keys : Abs!Reserve(k)
  <1> DEFINE k == Key(Target.idx, Target.gen)
  <1>1. /\ k \in Keys /\ k.idx = Target.idx /\ k.gen = Target.gen
        /\ OnlyKey(k) /\ Abs!Fresh(k) /\ ~contains_key(k)
    BY RoomForTarget, TargetFresh DEF ReserveKey
  <1>2. Sets(k.idx, Slot(wrapping_next(k.gen), k.idx))
    BY <1>1, OccupySets DEF ReserveKey, detached_generation
  <1>3. contents' = Abs!Without(k) /\ reserved' = reserved \union {k}
    BY <1>1, <1>2, Detached
  <1>4. Abs!Without(k) = contents
    <2>1. {j \in Keys : contains_key(j)} \ {k} = {j \in Keys : contains_key(j)}
      BY <1>1
    <2>2. QED
      BY <2>1 DEF Abs!Without, contents
  <1>5. issued' = issued \union {k} /\ retired' = retired
    BY DEF ReserveKey, Issue, HandOut
  <1>6. Abs!Reserve(k)
    BY <1>1, <1>3, <1>4, <1>5 DEF Abs!Reserve, contents, reserved
  <1>7. QED
    BY <1>1, <1>6

\* A value that the loop of clear, retain or a drain reaches has a key.
LEMMA ReachedKey ==
  ASSUME ConfigAssumption, IInv, NEW i, Reaches(i)
  PROVE  \E k \in Keys : k.idx = i /\ k.gen = slots[i].gen /\ contains_key(k)
  <1> DEFINE k == Key(i, slots[i].gen)
  <1>1. i \in Positions /\ i \in 0 .. MaxIdx /\ slots[i].gen \in OddGens
    BY OffListNotRetired DEF Reaches, IInv, OffList
  <1>2. k \in Keys /\ k.idx = i /\ k.gen = slots[i].gen
    BY <1>1 DEF Keys, Key
  <1>3. contains_key(k)
    BY <1>1, <1>2 DEF contains_key
  <1>4. QED
    BY <1>2, <1>3

\* A step that leaves the slots and the history alone is invisible.
LEMMA SameSlots ==
  ASSUME UNCHANGED <<slots, slots_len, retired, issued>>
  PROVE  UNCHANGED Abs!vars
  <1>1. \A j \in Keys : /\ contains_key(j)' <=> contains_key(j)
                        /\ detached_slot(j)' <=> detached_slot(j)
                        /\ get(j)' = get(j)
    BY DEF contains_key, detached_slot, get, Positions
  <1>2. contents' = contents /\ reserved' = reserved
    <2>1. {j \in Keys : contains_key(j)'} = {j \in Keys : contains_key(j)}
      BY <1>1
    <2>2. QED
      BY <1>1, <2>1 DEF contents, reserved
  <1>3. QED
    BY <1>2 DEF Abs!vars, contents, reserved

\* What a step does to the contents is one step of KeyedMap.
LEMMA StepRefines ==
  ASSUME ConfigAssumption, IInv, KeyBound, Next
  PROVE  [Abs!Next]_(Abs!vars)
  <1>1. ASSUME NEW v \in Values, Insert(v) \/ EntryInsert(v) PROVE Abs!Next
    <2>1. \E k \in Keys : Abs!Insert(k, v)
      <3>1. CASE Insert(v)
        BY <3>1, RoomForTarget, FillInserts DEF Insert
      <3>2. CASE EntryInsert(v)
        BY <3>2, FillInserts DEF EntryInsert, IInv, CallOK
      <3>3. QED
        BY <1>1, <3>1, <3>2
    <2>2. QED
      BY <2>1 DEF Abs!Next, Abs!Keys, Keys, OddGens, Odd
  <1>2. CASE ReserveKey
    BY <1>2, ReserveSound DEF Abs!Next, Abs!Keys, Keys, OddGens, Odd
  <1>3. ASSUME NEW k \in Keys, KeyStep(k) PROVE Abs!Next
    <2>1. k \in Abs!Keys
      BY DEF Abs!Keys, Keys, OddGens, Odd
    <2>2. QED
      BY <1>3, <2>1, KeyStepSound DEF KeyStepRefines, KeyStep, Abs!Next
  <1>4. CASE TakeNext \/ RetainDrop
    <2>1. PICK i \in Positions : Reaches(i) /\ take(i)
      BY <1>4 DEF TakeNext, RetainDrop
    <2>2. PICK k \in Keys : k.idx = i /\ contains_key(k)
      BY <2>1, ReachedKey
    <2>3. Abs!Remove(k)
      BY <1>4, <2>1, <2>2, TakeRemoves DEF TakeNext, RetainDrop
    <2>4. QED
      BY <2>3 DEF Abs!Next, Abs!Keys, Keys, OddGens, Odd
  <1>5. ASSUME NEW v \in Values, RetainKeep(v) PROVE Abs!Next
    <2>1. PICK i \in Positions :
            Reaches(i) /\ slots' = [slots EXCEPT ![i] = Slot(slots[i].gen, v)]
      BY <1>5 DEF RetainKeep
    <2>2. PICK k \in Keys : k.idx = i /\ k.gen = slots[i].gen /\ contains_key(k)
      BY <2>1, ReachedKey
    <2>3. Abs!Write(k, v)
      BY <1>5, <2>1, <2>2, WriteSound DEF RetainKeep
    <2>4. QED
      BY <2>3 DEF Abs!Next, Abs!Keys, Keys, OddGens, Odd
  <1>6. CASE Reset
    <2>1. \A j \in Keys : ~contains_key(j)' /\ ~detached_slot(j)'
      BY <1>6 DEF Reset, contains_key, detached_slot, Positions
    <2>2. contents' = [k \in {} |-> 0] /\ reserved' = {}
      BY <2>1 DEF contents, reserved
    <2>3. Abs!Reset
      BY <1>6, <2>2 DEF Reset, Abs!Reset, contents, reserved
    <2>4. QED
      BY <2>3 DEF Abs!Next
  <1>7. ASSUME \/ VacantEntry \/ Finish \/ Abandon
               \/ \E n \in 1 .. ReserveMax : Reserve(n)
               \/ \E m \in {"clear", "retain", "drain"} : Begin(m)
        PROVE  UNCHANGED Abs!vars
    <2>1. UNCHANGED <<slots, slots_len, retired, issued>>
      BY <1>7 DEF VacantEntry, Finish, Abandon, Reserve, Begin, data
    <2>2. QED
      BY <2>1, SameSlots
  <1>8. QED
    BY <1>1, <1>2, <1>3, <1>4, <1>5, <1>6, <1>7 DEF Next

\* A new map has no contents.
LEMMA InitRefines ==
  ASSUME Init
  PROVE  Abs!Init
  <1>1. \A j \in Keys : ~contains_key(j) /\ ~detached_slot(j)
    BY DEF Init, contains_key, detached_slot, Positions
  <1>2. contents = [k \in {} |-> 0] /\ reserved = {}
    BY <1>1 DEF contents, reserved
  <1>3. QED
    BY <1>2 DEF Init, Abs!Init, contents, reserved

-----------------------------------------------------------------------------
(* The theorems *)

\* Every step of a method is a step of KeyedMap or invisible, and is about the
\* key that it was called with.
LEMMA StepSound ==
  ASSUME ConfigAssumption, IInv, KeyBound, [Next]_vars
  PROVE  [Abs!Next]_(Abs!vars) /\ [\A k \in Keys : KeyStepRefines(k)]_vars
  <1>1. CASE Next
    BY <1>1, StepRefines, KeyStepSound
  <1>2. CASE UNCHANGED vars
    BY <1>2, SameSlots DEF vars
  <1>3. QED
    BY <1>1, <1>2

\* A map that was made of any raw parts does what KeyedMap promises: each step
\* of a method, also one that a panic ends, does to the values by key what
\* KeyedMap says, and hands out a fresh key if it hands one out.
THEOREM PartsRefine == PartsSpec => StepsOfKeyedMap
  <1>1. PartsInit => IInv /\ KeyBound
    BY ConfigAssumption, PartsInv DEF PartsInit, KeyBound
  <1>2. IInv /\ KeyBound /\ [Next]_vars => IInv' /\ KeyBound'
    BY ConfigAssumption, StepInv, StepBound
  <1>3. IInv /\ KeyBound /\ [Next]_vars =>
          [Abs!Next]_(Abs!vars) /\ [\A k \in Keys : KeyStepRefines(k)]_vars
    BY ConfigAssumption, StepSound
  <1>4. QED
    BY <1>1, <1>2, <1>3, PTL DEF PartsSpec, StepsOfKeyedMap

\* And so does a new map, which is the empty map of KeyedMap.
THEOREM Refines == Spec => ImplementsKeyedMap
  <1>1. Init => Abs!Init
    BY InitRefines
  <1>2. IInv /\ KeyBound /\ [Next]_vars =>
          [Abs!Next]_(Abs!vars) /\ [\A k \in Keys : KeyStepRefines(k)]_vars
    BY ConfigAssumption, StepSound
  <1>3. QED
    BY <1>1, <1>2, BoundInvariance, PTL DEF Spec, ImplementsKeyedMap, StepsOfKeyedMap

=============================================================================
