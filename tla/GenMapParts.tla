---------------------------- MODULE GenMapParts ----------------------------
(***************************************************************************)
(* A GenMap that from_raw_parts made: not only maps that the methods built *)
(* but any fields that follow the rules of GenMapRawParts.  Such a map may *)
(* have slots that nothing links to, under any even generation and with    *)
(* any link; they are out of use, like the slots that retired.             *)
(***************************************************************************)
EXTENDS GenMapRefines

CONSTANT PartsSlots  \* bound: the most slots that the raw parts have

ASSUME PartsAssumption == PartsSlots \in 0 .. MaxIdx + 1

\* A slot of any generation, which holds a value or an index.
AnySlot ==
  UNION {[gen : {g}, item : IF Odd(g) THEN Values ELSE 0 .. NoSlot] : g \in 0 .. GenMax}

\* from_raw_parts: the fields follow the rules, and no method is in progress.
PartsInit ==
  /\ slots_len \in 0 .. PartsSlots
  /\ slots \in [Positions -> AnySlot]
  /\ KeysFit
  /\ next_free \in 0 .. NoSlot
  /\ \E k \in 0 .. slots_len :
       \E f \in [1 .. k -> Positions] :
         /\ FreeList(f, k)
         /\ retired = {i \in Positions : /\ ~HoldsValue(i) /\ slots[i].item # i
                                         /\ \A a \in 1 .. k : f[a] # i}
  /\ len = Cardinality({i \in Positions : HoldsValue(i)})
  /\ capacity \in slots_len .. StorageMax
  /\ mode = "idle"
  /\ target = NoTarget
  /\ position = 0
  /\ issued = {}
  /\ promised = 0

PartsSpec == PartsInit /\ [][Next]_vars

\* into_raw_parts returns fields that follow the rules, whatever fields the map
\* was made of and whatever happened to it since: also after a panic in clear
\* or retain, or a forgotten Drain.  What is more, no slot was lost from the
\* free list on the way.
PartsRules ==
  /\ slots_len <= MaxIdx + 1
  /\ KeysFit
  /\ FreeListComplete
  /\ LenExact

=============================================================================
