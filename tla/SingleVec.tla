------------------------------ MODULE SingleVec ------------------------------
(***************************************************************************)
(* The storage of src/src/storage/single_vec.rs: one slice in a buffer on  *)
(* the heap, with its length and capacity in a length type.                *)
(*                                                                         *)
(* Items are numbered as they come into being, and a position that nothing *)
(* was written to holds no number, so that what is read, dropped twice or  *)
(* never dropped shows itself.  Items that take no space have their number *)
(* in the model only.                                                      *)
(*                                                                         *)
(* The clones that clone_from and clone make run the caller's code, which  *)
(* may panic between any two of them.  A drop that panics changes nothing: *)
(* the rest of the items are dropped while the panic unwinds.              *)
(***************************************************************************)
EXTENDS Items, Sequences

CONSTANTS
  LenMax,    \* the largest value of the length type
  RoomMax,   \* the most items that the allocator has memory for
  Smallest   \* the smallest capacity that a buffer grows to

ASSUME LengthsAssumption ==
  /\ LenMax \in Nat \ {0} /\ RoomMax \in Nat
  /\ Smallest \in Nat \ {0} /\ ItemsMax \in Nat

VARIABLES
  sized,     \* whether the items take space
  buffer,    \* the fields of Buffer, with the items its positions hold
  promised,  \* history: how many pushes ensure_room has promised room for
  mode,      \* "vec", "fill" while it gets clones, "parts", "iter", or "gone"
  start,     \* the start of a SingleVecIntoIter
  source,    \* how many items the source of clone_from has
  count,     \* the count of SetLenOnDrop
  blocks     \* the allocator's blocks, each by the capacity it was allocated for

vars == <<sized, buffer, promised, mode, start, source, count, made, gone, blocks>>

-----------------------------------------------------------------------------
(* The buffer *)

Larger(m, n) == IF m > n THEN m ELSE n
Smaller(m, n) == IF m < n THEN m ELSE n

\* A capacity that the buffer's memory suffices for: RoomMax if items have a size.
Allocates(c) == c <= LenMax /\ (sized => c <= RoomMax)

\* with_capacity(c), which is new for 0.  No memory is the whole length type.
with_capacity(c) ==
  LET capacity == IF sized THEN c ELSE LenMax
  IN  [capacity |-> capacity, len |-> 0, items |-> [p \in 0 .. capacity - 1 |-> Junk]]

\* The block that a buffer for c items is in, if it holds memory.
Block(c) == IF sized /\ c > 0 THEN SetToBag({c}) ELSE EmptyBag

\* Mutant: only doubles.
grown_capacity_doubled(c, required) == Smaller(Larger(2 * c, Smallest), LenMax)

grown_capacity(c, required) ==
  Smaller(Larger(Larger(required, 2 * c), Smallest), LenMax)

\* What it is to drop, or read out, the items from position m to before n.
Leave(m, n) ==
  LET At(q) == {p \in m .. n - 1 : buffer.items[p] = q}
  IN  gone' = gone (+) [q \in {buffer.items[p] : p \in m .. n - 1} |-> Cardinality(At(q))]

\* make_room(n): the buffer it ends with, or none if it fails.
make_room(n) ==
  LET required == buffer.len + n
      c == grown_capacity(buffer.capacity, required)
  IN  IF required <= buffer.capacity THEN {buffer}
      ELSE IF required > LenMax \/ ~Allocates(c) THEN {}
      ELSE {[buffer EXCEPT !.capacity = c,
               !.items = [p \in 0 .. c - 1 |-> IF p \in DOMAIN @ THEN @[p] ELSE Junk]]}

\* reallocate: the block goes for the one of the new capacity.
Reallocated(b) ==
  IF b.capacity = buffer.capacity THEN blocks
  ELSE (blocks (-) Block(buffer.capacity)) (+) Block(b.capacity)

push_unchecked(b, q) == [b EXCEPT !.items[b.len] = q, !.len = @ + 1]

-----------------------------------------------------------------------------
(* The methods of a SingleVec *)

\* ensure_room
EnsureRoom(n) ==
  /\ mode = "vec"
  /\ buffer' \in make_room(n)
  /\ blocks' = Reallocated(buffer')
  /\ promised' = Larger(promised, n)
  /\ UNCHANGED <<sized, mode, start, source, count, made, gone>>

\* push, try_push, and push_unchecked where there is room.
Push ==
  /\ mode = "vec"
  /\ made < ItemsMax
  /\ \E b \in make_room(1) :
       /\ buffer' = push_unchecked(b, made + 1)
       /\ blocks' = Reallocated(b)
  /\ made' = made + 1
  /\ promised' = Larger(promised - 1, 0)
  /\ UNCHANGED <<sized, mode, start, source, count, gone>>

\* pop: the length goes down, and the last item is read out.
Pop ==
  /\ mode = "vec"
  /\ buffer.len > 0
  /\ buffer' = [buffer EXCEPT !.len = @ - 1]
  /\ Leave(buffer.len - 1, buffer.len)
  /\ UNCHANGED <<sized, mode, start, source, count, made, blocks, promised>>

\* Mutant: the drops first, one of which may panic before the length is set.
Clear_drops_first ==
  /\ mode = "vec"
  /\ buffer' \in {buffer, [buffer EXCEPT !.len = 0]}
  /\ Leave(0, buffer.len)
  /\ UNCHANGED <<sized, mode, start, source, count, made, blocks, promised>>

\* clear: the length first, then the drops.
Clear ==
  /\ mode = "vec"
  /\ buffer' = [buffer EXCEPT !.len = 0]
  /\ Leave(0, buffer.len)
  /\ UNCHANGED <<sized, mode, start, source, count, made, blocks, promised>>

\* Mutant: the buffer is replaced without a drop of the old one.
CloneFrom_leaks(n) ==
  /\ mode = "vec"
  /\ made + n <= ItemsMax /\ Allocates(n)
  /\ buffer' = IF buffer.capacity < n THEN with_capacity(n)
               ELSE [buffer EXCEPT !.len = 0]
  /\ blocks' = IF buffer.capacity < n THEN blocks (+) Block(n) ELSE blocks
  /\ Leave(0, buffer.len)
  /\ mode' = "fill" /\ source' = n
  /\ promised' = 0
  /\ UNCHANGED <<sized, start, count, made>>

\* clone_from a source of n items, up to the first clone: clear, and a buffer
\* of the right size if this one is too small.  clone does the same with a
\* new vec.
CloneFrom(n) ==
  /\ mode = "vec"
  /\ made + n <= ItemsMax /\ Allocates(n)
  /\ buffer' = IF buffer.capacity < n THEN with_capacity(n)
               ELSE [buffer EXCEPT !.len = 0]
  /\ blocks' = IF buffer.capacity < n
               THEN (blocks (+) Block(n)) (-) Block(buffer.capacity) ELSE blocks
  /\ Leave(0, buffer.len)
  /\ mode' = "fill" /\ source' = n
  /\ promised' = 0
  /\ UNCHANGED <<sized, start, count, made>>

\* fill_with_clones: a clone of the next item.
CloneItem ==
  /\ mode = "fill"
  /\ count < source
  /\ buffer' = [buffer EXCEPT !.items[count] = made + 1]
  /\ count' = count + 1
  /\ made' = made + 1
  /\ UNCHANGED <<sized, mode, start, source, gone, blocks, promised>>

\* The loop ends, or a clone panics: SetLenOnDrop sets the length to the
\* clones there are.
FillEnds ==
  /\ mode = "fill"
  /\ buffer' = [buffer EXCEPT !.len = count]
  /\ mode' = "vec"
  /\ source' = 0 /\ count' = 0
  /\ UNCHANGED <<sized, start, made, gone, blocks, promised>>

\* The drop of a SingleVec: its items, then its buffer.
Drop ==
  /\ mode = "vec"
  /\ Leave(0, buffer.len)
  /\ blocks' = blocks (-) Block(buffer.capacity)
  /\ mode' = "gone"
  /\ promised' = 0
  /\ UNCHANGED <<sized, buffer, start, source, count, made>>

IntoRawParts ==
  /\ mode = "vec"
  /\ mode' = "parts"
  /\ UNCHANGED <<sized, buffer, start, source, count, made, gone, blocks, promised>>

\* from_raw_parts of the same parts.  Those of items that take no space may
\* have any capacity, which the vec does not take over.
FromRawParts(c) ==
  /\ mode = "parts"
  /\ IF sized THEN c = buffer.capacity ELSE c \in buffer.len .. LenMax
  /\ mode' = "vec"
  /\ buffer' = [buffer EXCEPT !.capacity = IF sized THEN c ELSE LenMax]
  /\ UNCHANGED <<sized, start, source, count, made, gone, blocks, promised>>

\* The conversion to a Vec, which takes the items and frees the buffer by its
\* capacity.
IntoVec ==
  /\ mode = "vec"
  /\ Leave(0, buffer.len)
  /\ blocks' = blocks (-) Block(buffer.capacity)
  /\ mode' = "gone"
  /\ promised' = 0
  /\ UNCHANGED <<sized, buffer, start, source, count, made>>

-----------------------------------------------------------------------------
(* The methods of a SingleVecIntoIter *)

IntoIter ==
  /\ mode = "vec"
  /\ mode' = "iter"
  /\ promised' = 0
  /\ UNCHANGED <<sized, buffer, start, source, count, made, gone, blocks>>

IterNext ==
  /\ mode = "iter"
  /\ start # buffer.len
  /\ start' = start + 1
  /\ Leave(start, start + 1)
  /\ UNCHANGED <<sized, buffer, mode, source, count, made, blocks, promised>>

IterNextBack ==
  /\ mode = "iter"
  /\ start # buffer.len
  /\ buffer' = [buffer EXCEPT !.len = @ - 1]
  /\ Leave(buffer.len - 1, buffer.len)
  /\ UNCHANGED <<sized, mode, start, source, count, made, blocks, promised>>

\* Its drop drops what it has not yielded, and the buffer.
IterDrop ==
  /\ mode = "iter"
  /\ Leave(start, buffer.len)
  /\ blocks' = blocks (-) Block(buffer.capacity)
  /\ mode' = "gone"
  /\ promised' = 0
  /\ UNCHANGED <<sized, buffer, start, source, count, made>>

-----------------------------------------------------------------------------

\* new, with_capacity
Init ==
  /\ sized \in BOOLEAN
  /\ \E c \in 0 .. LenMax :
       /\ Allocates(c)
       /\ buffer = with_capacity(c)
       /\ blocks = Block(c)
  /\ promised = 0
  /\ mode = "vec"
  /\ start = 0 /\ source = 0 /\ count = 0
  /\ made = 0
  /\ gone = EmptyBag

Next ==
  \/ \E n \in 1 .. LenMax : EnsureRoom(n)
  \/ Push
  \/ Pop
  \/ Clear
  \/ \E n \in 0 .. LenMax : CloneFrom(n)
  \/ CloneItem
  \/ FillEnds
  \/ Drop
  \/ IntoRawParts
  \/ \E c \in 0 .. LenMax : FromRawParts(c)
  \/ IntoVec
  \/ IntoIter
  \/ IterNext
  \/ IterNextBack
  \/ IterDrop

Spec == Init /\ [][Next]_vars

-----------------------------------------------------------------------------
(* Properties *)

\* The positions of items that the vec, its parts or the iterator must drop.
Owned ==
  CASE mode \in {"vec", "parts"} -> 0 .. buffer.len - 1
    [] mode = "fill"             -> 0 .. count - 1
    [] mode = "iter"             -> start .. buffer.len - 1
    [] OTHER                     -> {}

\* Every item is at one position that its owner will drop, or was dropped or
\* handed out once, and the one block the allocator has out for the vec is
\* that of its capacity: nothing is dropped or freed twice, leaked, or read
\* where nothing was written, whatever growing, clone_from and panics did.
OwnedOnce ==
  /\ \A p \in Owned : buffer.items[p] \in 1 .. made
  /\ \A q \in 1 .. made :
       Cardinality({p \in Owned : buffer.items[p] = q}) + TimesGone(q) = 1
  /\ BagToSet(gone) \subseteq 1 .. made
  /\ blocks = IF mode = "gone" THEN EmptyBag ELSE Block(buffer.capacity)

Abs == INSTANCE Storage WITH
  contents <-
    CASE mode \in {"vec", "parts"} -> [i \in 1 .. buffer.len |-> buffer.items[i - 1]]
      [] mode = "fill" -> <<>>
      [] mode = "iter" -> [i \in 1 .. buffer.len - start |-> buffer.items[start + i - 1]]
      [] OTHER -> <<>>,
  room <- IF mode \in {"vec", "parts"} THEN buffer.capacity - buffer.len ELSE 0,
  made <- IF mode = "fill" THEN made - count ELSE made

\* The SingleVec is a sequence of items as the rules of SliceStorage describe
\* it: growing, converting and iterating keep the items and their order, and
\* there is room for what was asked for.
ImplementsSliceStorage == Abs!Spec

=============================================================================
