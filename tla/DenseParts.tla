----------------------------- MODULE DenseParts -----------------------------
(***************************************************************************)
(* A DenseGenMap that from_raw_parts made: any fields that follow the      *)
(* rules of DenseGenMapRawParts, with the pairs in any order and slots     *)
(* that nothing links to.                                                  *)
(***************************************************************************)
EXTENDS DenseRefines

CONSTANT PartsSlots  \* bound: the most slots that the raw parts have

ASSUME PartsAssumption == PartsSlots \in 0 .. MaxIdx + 1

\* The keys of the values, and how many there are.
HeldKeys == {Key(i, slots[i].gen) : i \in {j \in Positions : HoldsValue(j)}}

\* from_raw_parts: the fields follow the rules, and no method is in progress.
PartsInit ==
  /\ slots_len \in 0 .. PartsSlots
  /\ slots \in [Positions -> [gen : 0 .. GenMax, item : 0 .. NoSlot]]
  /\ KeysFit
  /\ next_free \in 0 .. NoSlot
  /\ \E k \in 0 .. slots_len :
       \E f \in [1 .. k -> Positions] :
         /\ FreeList(f, k)
         /\ retired = {i \in Positions : /\ ~HoldsValue(i) /\ slots[i].item # i
                                         /\ \A a \in 1 .. k : f[a] # i}
  /\ pairs \in [1 .. Cardinality(HeldKeys) -> [key : HeldKeys, value : Values]]
  /\ SlotsPointAtPairs /\ PairsPointAtSlots
  /\ capacity \in slots_len .. StorageMax
  /\ pairs_capacity \in Len(pairs) .. PairsMax
  /\ mode = "idle"
  /\ target = NoTarget
  /\ position = 0
  /\ issued = {}
  /\ promised = 0
  /\ visited = {}

\* The loops run to their ends as in Spec.
PartsSpec == PartsInit /\ [][Next]_vars /\ WF_vars(LoopStep)

\* into_raw_parts returns fields that follow the rules, whatever fields the map
\* was made of and whatever happened to it since; into_raw_parts cannot be
\* called while clear runs.  What is more, no slot was lost from the free list.
PartsRules ==
  /\ slots_len <= MaxIdx + 1
  /\ KeysFit
  /\ FreeListComplete
  /\ SlotsMatchPairs

=============================================================================
