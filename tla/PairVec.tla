------------------------------- MODULE PairVec -------------------------------
(***************************************************************************)
(* The storage of src/src/storage/pair_vec.rs: two slices in one buffer,   *)
(* the larger items at the start and the others at the end, which move     *)
(* when the buffer grows.                                                  *)
(*                                                                         *)
(* The buffer is a function from byte positions to bytes, each of which    *)
(* says what item it is a byte of, so that a read of the wrong bytes shows *)
(* itself.  Items with identities also show what is dropped twice or never:*)
(* the q-th pair is of the items <<"first", q>> and <<"second", q>>.       *)
(*                                                                         *)
(* The clones that clone_from and clone make run the caller's code, which  *)
(* may panic between any two of them.  A drop that panics changes nothing: *)
(* the rest of the items are dropped while the panic unwinds.              *)
(***************************************************************************)
EXTENDS Integers, Sequences, FiniteSets, Bags

CONSTANTS
  Shapes,    \* what item types to look at: their sizes and alignments
  LenMax,    \* the largest value of the length type
  BytesMax,  \* the most bytes that a buffer may have
  Smallest,  \* the smallest capacity that a buffer grows to
  ItemsMax   \* bound: how many pairs there are over time

ASSUME ShapesAssumption ==
  \A s \in Shapes :
    /\ s.first \in Nat /\ s.second \in Nat /\ s.first + s.second > 0
    /\ s.first_align \in Nat \ {0} /\ s.first % s.first_align = 0
    /\ s.second_align \in Nat \ {0} /\ s.second % s.second_align = 0

ASSUME BoundsAssumption ==
  LenMax \in Nat /\ BytesMax \in Nat /\ Smallest \in Nat /\ ItemsMax \in Nat

VARIABLES
  shape,     \* the sizes and alignments of the items
  buffer,    \* the fields of Buffer, with the bytes it holds
  promised,  \* history: how many pushes ensure_room has promised room for
  mode,      \* "vec", "fill" while it gets clones, "parts", "iter", or "dropped"
  start,     \* the start of a PairVecIntoIter
  source,    \* how many pairs the source of clone_from has
  firsts,    \* first_count: the clones written of its first items
  seconds,   \* the count of set_len: those of its second items
  made,      \* history: how many pairs there have been
  born,      \* history: the items there have been
  gone       \* history: the items dropped or handed out, each as often as it was

clone_vars == <<source, firsts, seconds>>
vars == <<shape, buffer, promised, mode, start, clone_vars, made, born, gone>>

-----------------------------------------------------------------------------
(* The layout of a buffer *)

Larger(m, n) == IF m > n THEN m ELSE n
Smaller(m, n) == IF m < n THEN m ELSE n

\* Layout::extend: the next position that is aligned.
RoundUp(n, align) == ((n + align - 1) \div align) * align

second_at_start ==
  shape.first # 0 /\ (shape.second = 0 \/ shape.second > shape.first)

StartSize == IF second_at_start THEN shape.second ELSE shape.first
EndSize == IF second_at_start THEN shape.first ELSE shape.second
EndAlign == IF second_at_start THEN shape.first_align ELSE shape.second_align

\* buffer_layout(c): where the slice at the end starts, and the whole size.
Offset(c) == RoundUp(c * StartSize, EndAlign)
Size(c) == Offset(c) + c * EndSize

\* slice_pointers, as positions in the buffer.
FirstPointer(c) == IF second_at_start THEN Offset(c) ELSE 0
SecondPointer(c) == IF second_at_start THEN 0 ELSE Offset(c)

Junk == <<"junk", 0>>

\* A new buffer for c pairs.
with_capacity(c) ==
  [first |-> FirstPointer(c), second |-> SecondPointer(c), capacity |-> c, len |-> 0,
   bytes |-> [i \in 0 .. Size(c) - 1 |-> Junk]]

-----------------------------------------------------------------------------
(* Items in the buffer *)

Sides == {"first", "second"}
Pointer(b, side) == IF side = "first" THEN b.first ELSE b.second
ItemSize(side) == IF side = "first" THEN shape.first ELSE shape.second
Sized == {side \in Sides : ItemSize(side) > 0}

\* The item at position p of a slice, if its bytes are all there.
Item(b, side, p) ==
  LET at == Pointer(b, side) + p * ItemSize(side)
      item == b.bytes[at][1]
  IN  IF \A n \in 0 .. ItemSize(side) - 1 : b.bytes[at + n] = <<item, n>>
      THEN item ELSE "junk"

Write(b, side, p, item) ==
  LET at == Pointer(b, side) + p * ItemSize(side)
  IN  [b EXCEPT !.bytes = [i \in DOMAIN @ |->
         IF i \in at .. at + ItemSize(side) - 1 THEN <<item, i - at>> ELSE @[i]]]

\* The pair at position p.  An item that takes no space is in it unseen.
PairAt(b, p) ==
  LET ids == {Item(b, side, p) : side \in Sized}
  IN  IF \E q \in 1 .. ItemsMax : ids = {<<side, q>> : side \in Sized}
      THEN CHOOSE q \in 1 .. ItemsMax : ids = {<<side, q>> : side \in Sized}
      ELSE 0

\* The items of a slice at the positions from m to before n.
ItemsAt(side, m, n) == {Item(buffer, side, p) : p \in m .. n - 1}

\* drop_items: the items of both slices in these positions.
Items(m, n) == UNION {ItemsAt(side, m, n) : side \in Sized}

-----------------------------------------------------------------------------
(* Growing *)

grown_capacity(c, required) ==
  Smaller(Larger(Larger(required, 2 * c), Smallest), LenMax)

\* realloc: the bytes of the old buffer, and more.
Reallocated(b, c) ==
  [i \in 0 .. Size(c) - 1 |-> IF i \in DOMAIN b.bytes THEN b.bytes[i] ELSE Junk]

\* Mutant: the bytes are copied from the first to the last, over those that
\* are still to be copied.
grow_forward(b, c) ==
  LET old == Reallocated(b, c)
      copied[i \in 0 .. b.len * EndSize - 1] ==
        IF Offset(b.capacity) + i >= Offset(c)
        THEN copied[Offset(b.capacity) + i - Offset(c)]
        ELSE old[Offset(b.capacity) + i]
  IN  [first |-> FirstPointer(c), second |-> SecondPointer(c), capacity |-> c,
       len |-> b.len,
       bytes |-> [i \in DOMAIN old |->
                    IF i - Offset(c) \in DOMAIN copied /\ StartSize > 0
                    THEN copied[i - Offset(c)] ELSE old[i]]]

\* grow: the slice at the end moves to where it starts in the larger buffer.
grow(b, c) ==
  LET old == Reallocated(b, c)
      moved == Offset(c) .. Offset(c) + b.len * EndSize - 1
  IN  [first |-> FirstPointer(c), second |-> SecondPointer(c), capacity |-> c,
       len |-> b.len,
       bytes |-> [i \in DOMAIN old |->
                    IF i \in moved /\ StartSize > 0
                    THEN old[i - Offset(c) + Offset(b.capacity)] ELSE old[i]]]

\* make_room(n): the buffer it ends with, or none if it fails.
make_room(n) ==
  LET required == buffer.len + n
      c == grown_capacity(buffer.capacity, required)
  IN  IF required <= buffer.capacity THEN {buffer}
      ELSE IF required > LenMax \/ Size(c) > BytesMax THEN {}
      ELSE {grow(buffer, c)}

push_unchecked(b, q) ==
  [Write(Write(b, "first", b.len, <<"first", q>>), "second", b.len, <<"second", q>>)
     EXCEPT !.len = @ + 1]

-----------------------------------------------------------------------------
(* The methods of a PairVec *)

\* ensure_room
EnsureRoom(n) ==
  /\ mode = "vec"
  /\ buffer' \in make_room(n)
  /\ promised' = Larger(promised, n)
  /\ UNCHANGED <<shape, mode, start, clone_vars, made, born, gone>>

\* push, try_push, and push_unchecked where there is room.
Push ==
  /\ mode = "vec"
  /\ made < ItemsMax
  /\ \E b \in make_room(1) : buffer' = push_unchecked(b, made + 1)
  /\ made' = made + 1
  /\ born' = born \union {<<side, made + 1>> : side \in Sized}
  /\ promised' = Larger(promised - 1, 0)
  /\ UNCHANGED <<shape, mode, start, clone_vars, gone>>

\* pop: the length goes down, and the last pair is read out.
Pop ==
  /\ mode = "vec"
  /\ buffer.len > 0
  /\ buffer' = [buffer EXCEPT !.len = @ - 1]
  /\ gone' = gone (+) SetToBag(Items(buffer.len - 1, buffer.len))
  /\ UNCHANGED <<shape, mode, start, clone_vars, made, born, promised>>

\* clear: the length first, then the drops.
Clear ==
  /\ mode = "vec"
  /\ buffer' = [buffer EXCEPT !.len = 0]
  /\ gone' = gone (+) SetToBag(Items(0, buffer.len))
  /\ UNCHANGED <<shape, mode, start, clone_vars, made, born, promised>>

\* clone_from a source of n pairs, up to the first clone: clear, and a buffer
\* of the right size if this one is too small.  clone does the same with a
\* new vec.
CloneFrom(n) ==
  /\ mode = "vec"
  /\ made + n <= ItemsMax
  /\ Size(n) <= BytesMax
  /\ buffer' = IF buffer.capacity < n THEN with_capacity(n)
               ELSE [buffer EXCEPT !.len = 0]
  /\ gone' = gone (+) SetToBag(Items(0, buffer.len))
  /\ mode' = "fill"
  /\ source' = n
  /\ promised' = 0
  /\ UNCHANGED <<shape, start, firsts, seconds, made, born>>

\* fill_with_clones: a clone of the next first item ...
CloneFirst ==
  /\ mode = "fill"
  /\ firsts < source
  /\ buffer' = Write(buffer, "first", firsts, <<"first", made + firsts + 1>>)
  /\ born' = born \union ({<<"first", made + firsts + 1>>} \cap (Sized \X Nat))
  /\ firsts' = firsts + 1
  /\ UNCHANGED <<shape, mode, start, source, seconds, made, gone, promised>>

\* ... and once they are all there, one of the next second item.
CloneSecond ==
  /\ mode = "fill"
  /\ firsts = source /\ seconds < source
  /\ buffer' = Write(buffer, "second", seconds, <<"second", made + seconds + 1>>)
  /\ born' = born \union ({<<"second", made + seconds + 1>>} \cap (Sized \X Nat))
  /\ seconds' = seconds + 1
  /\ UNCHANGED <<shape, mode, start, source, firsts, made, gone, promised>>

\* Mutant: without DropUnpaired.
FillEnds_without_guard ==
  /\ mode = "fill"
  /\ buffer' = [buffer EXCEPT !.len = seconds]
  /\ mode' = "vec"
  /\ made' = made + source
  /\ source' = 0 /\ firsts' = 0 /\ seconds' = 0
  /\ UNCHANGED <<shape, start, born, gone, promised>>

\* The loops end, or a clone panics: DropUnpaired drops the first items that
\* have no second one, and the length is the number of whole pairs.
FillEnds ==
  /\ mode = "fill"
  /\ buffer' = [buffer EXCEPT !.len = seconds]
  /\ gone' = gone (+) SetToBag(UNION {ItemsAt(side, seconds, firsts) : side \in Sized \cap {"first"}})
  /\ mode' = "vec"
  /\ made' = made + source
  /\ source' = 0 /\ firsts' = 0 /\ seconds' = 0
  /\ UNCHANGED <<shape, start, born, promised>>

\* The drop of a PairVec: its items, then its buffer.
Drop ==
  /\ mode = "vec"
  /\ gone' = gone (+) SetToBag(Items(0, buffer.len))
  /\ mode' = "dropped"
  /\ promised' = 0
  /\ UNCHANGED <<shape, buffer, start, clone_vars, made, born>>

IntoRawParts ==
  /\ mode = "vec"
  /\ mode' = "parts"
  /\ promised' = 0
  /\ UNCHANGED <<shape, buffer, start, clone_vars, made, born, gone>>

\* from_raw_parts of the same parts.
FromRawParts ==
  /\ mode = "parts"
  /\ mode' = "vec"
  /\ UNCHANGED <<shape, buffer, promised, start, clone_vars, made, born, gone>>

-----------------------------------------------------------------------------
(* The methods of a PairVecIntoIter *)

IntoIter ==
  /\ mode = "vec"
  /\ mode' = "iter"
  /\ promised' = 0
  /\ UNCHANGED <<shape, buffer, start, clone_vars, made, born, gone>>

IterNext ==
  /\ mode = "iter"
  /\ start # buffer.len
  /\ start' = start + 1
  /\ gone' = gone (+) SetToBag(Items(start, start + 1))
  /\ UNCHANGED <<shape, buffer, mode, clone_vars, made, born, promised>>

IterNextBack ==
  /\ mode = "iter"
  /\ start # buffer.len
  /\ buffer' = [buffer EXCEPT !.len = @ - 1]
  /\ gone' = gone (+) SetToBag(Items(buffer.len - 1, buffer.len))
  /\ UNCHANGED <<shape, mode, start, clone_vars, made, born, promised>>

\* Its drop drops what it has not yielded.
IterDrop ==
  /\ mode = "iter"
  /\ gone' = gone (+) SetToBag(Items(start, buffer.len))
  /\ mode' = "dropped"
  /\ promised' = 0
  /\ UNCHANGED <<shape, buffer, start, clone_vars, made, born>>

-----------------------------------------------------------------------------

\* new, with_capacity
Init ==
  /\ shape \in Shapes
  /\ \E c \in 0 .. LenMax : Size(c) <= BytesMax /\ buffer = with_capacity(c)
  /\ promised = 0
  /\ mode = "vec"
  /\ start = 0
  /\ source = 0 /\ firsts = 0 /\ seconds = 0
  /\ made = 0
  /\ born = {}
  /\ gone = EmptyBag

Next ==
  \/ \E n \in 1 .. LenMax : EnsureRoom(n)
  \/ Push
  \/ Pop
  \/ Clear
  \/ \E n \in 0 .. LenMax : CloneFrom(n)
  \/ CloneFirst
  \/ CloneSecond
  \/ FillEnds
  \/ Drop
  \/ IntoRawParts
  \/ FromRawParts
  \/ IntoIter
  \/ IterNext
  \/ IterNextBack
  \/ IterDrop

Spec == Init /\ [][Next]_vars

-----------------------------------------------------------------------------
(* Properties *)

\* The positions of a slice that hold an item which the vec, or the iterator,
\* has to drop.
Owned(side) ==
  CASE mode \in {"vec", "parts"} -> 0 .. buffer.len - 1
    [] mode = "fill" -> 0 .. (IF side = "first" THEN firsts ELSE seconds) - 1
    [] mode = "iter" -> start .. buffer.len - 1
    [] OTHER         -> {}

\* How often an item was dropped or handed out.
TimesGone(item) == IF BagIn(item, gone) THEN gone[item] ELSE 0

\* Every item is in the buffer at one position that its owner will drop, or
\* was dropped or handed out once: none twice, none never, none from bytes
\* that no item was written to, whatever the growing, the clones and a panic
\* among them did.
OwnedOnce ==
  \A side \in Sized :
    /\ \A p \in Owned(side) : Item(buffer, side, p) \in born
    /\ \A q \in 1 .. ItemsMax :
         Cardinality({p \in Owned(side) : Item(buffer, side, p) = <<side, q>>})
           + TimesGone(<<side, q>>)
         = IF <<side, q>> \in born THEN 1 ELSE 0

\* The pairs, and the room for more, as the rules of PairStorage see them.
contents ==
  CASE mode \in {"vec", "parts"} -> [i \in 1 .. buffer.len |-> PairAt(buffer, i - 1)]
    [] mode = "iter" -> [i \in 1 .. buffer.len - start |-> PairAt(buffer, start + i - 1)]
    [] OTHER -> <<>>

room == IF mode = "vec" THEN buffer.capacity - buffer.len ELSE 0

=============================================================================
