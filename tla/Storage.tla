------------------------------- MODULE Storage -------------------------------
(***************************************************************************)
(* What the maps rely on of their storages, by the rules of SliceStorage   *)
(* and PairStorage: a sequence of items (or of pairs), with room for some  *)
(* more.  Items are numbered in the order in which they come into being,   *)
(* and a clone is a new item.                                              *)
(***************************************************************************)
EXTENDS Integers, Sequences

VARIABLES
  contents,  \* the items, in the order they were pushed
  room,      \* how many more can be pushed before the storage has to grow
  promised,  \* how many more ensure_room has promised room for
  made       \* how many items there have been

vars == <<contents, room, promised, made>>

\* push: the item goes to the end, and the storage grows only if it is full.
Push ==
  /\ made' > made
  /\ contents' = Append(contents, made + 1)
  /\ IF room = 0 THEN room' \in Nat ELSE room' = room - 1
  /\ promised' = IF promised = 0 THEN 0 ELSE promised - 1

\* ensure_room(n) adds no item and takes no room away.
EnsureRoom ==
  /\ room' >= room
  /\ promised' >= promised
  /\ UNCHANGED <<contents, made>>

\* pop, or next_back of the iterator: the last item, and its room is free.
TakeLast ==
  /\ contents # <<>>
  /\ contents' = SubSeq(contents, 1, Len(contents) - 1)
  /\ room' \in {room, room + 1}
  /\ UNCHANGED <<promised, made>>

\* next of the iterator: the first item.
TakeFirst ==
  /\ contents # <<>>
  /\ contents' = Tail(contents)
  /\ UNCHANGED <<room, promised, made>>

\* clear, the start of clone_from, or the drop of the storage or the iterator.
Empty ==
  /\ contents' = <<>>
  /\ \/ room' = room + Len(contents) /\ UNCHANGED promised
     \/ promised' = 0
  /\ UNCHANGED made

\* clone_from: clones of the source's items in their order, or of the first
\* ones if a clone panics.
Clones ==
  /\ contents = <<>>
  /\ contents' = [i \in 1 .. Len(contents') |-> made + i]
  /\ made' >= made + Len(contents')
  /\ promised' = 0

\* into_iter: what is taken out leaves no room.
IntoIter == room' = 0 /\ promised' = 0 /\ UNCHANGED <<contents, made>>

Init == contents = <<>> /\ room \in Nat /\ promised = 0 /\ made = 0

\* Whatever is done, there is the room that was promised.
Next ==
  /\ \/ Push
     \/ EnsureRoom
     \/ TakeLast
     \/ TakeFirst
     \/ Empty
     \/ Clones
     \/ IntoIter
  /\ promised' <= room' /\ room' \in Nat

Spec == Init /\ [][Next]_vars

=============================================================================
