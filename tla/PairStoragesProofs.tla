------------------------- MODULE PairStoragesProofs -------------------------
(***************************************************************************)
(* The two pair storages own every item once, and they are the sequence of *)
(* pairs that PairStorage describes: for items of every size and           *)
(* alignment, buffers of any size, and any limits of the storages.         *)
(*                                                                         *)
(* Both arguments rest on books: the items that were born are those held   *)
(* and those gone, no item is both, and none is gone twice.                *)
(*                                                                         *)
(* In a PairVec, what is held is read from bytes.  The layout of a buffer  *)
(* puts no two items in the same bytes (Apart), a write changes the one    *)
(* item it writes (Writes), and a buffer that grows has the same items     *)
(* where the larger one looks for them (Grows).  So the invariant can say  *)
(* of the buffer that its positions are of pairs (InPairs), or, while      *)
(* clones are made, of the clones in their order (InOrder).                *)
(*                                                                         *)
(* In a SplitPair, the storages have the same items wherever both must be  *)
(* in step, and the invariant says how they may differ half way through    *)
(* clone_from and in the hands of the caller (Partnered).                  *)
(***************************************************************************)
EXTENDS PairStorages, FiniteSetTheorems, SequenceTheorems, TLAPS

-----------------------------------------------------------------------------
(* The books *)

\* Of the items that were born, these are held, and the others are gone once.
Books(held, all, bag) ==
  /\ bag = [k \in DOMAIN bag |-> 1]
  /\ all = held \union DOMAIN bag
  /\ held \intersect DOMAIN bag = {}

LEMMA BooksOut ==
  ASSUME NEW H, NEW B, NEW G, Books(H, B, G), NEW S, S \subseteq H
  PROVE  Books(H \ S, B, G (+) SetToBag(S))
  <1> DEFINE C == G (+) SetToBag(S)
  <1>1. DOMAIN C = DOMAIN G \union S /\ C = [k \in DOMAIN C |-> C[k]]
    BY DEF SetToBag, (+)
  <1>2. ASSUME NEW k \in DOMAIN G PROVE C[k] = 1
    <2>1. G[k] = 1 /\ k \notin S
      BY DEF Books
    <2>2. QED
      BY <2>1 DEF SetToBag, (+)
  <1>3. ASSUME NEW k \in S PROVE C[k] = 1
    <2>1. k \notin DOMAIN G
      BY DEF Books
    <2>2. QED
      BY <2>1 DEF SetToBag, (+)
  <1> HIDE DEF C
  <1>4. \A k \in DOMAIN C : C[k] = 1
    BY <1>1, <1>2, <1>3
  <1>5. C = [k \in DOMAIN C |-> 1]
    BY <1>1, <1>4
  <1>6. Books(H \ S, B, C)
    BY <1>1, <1>5 DEF Books
  <1>7. QED
    BY <1>6 DEF C

LEMMA BooksIn ==
  ASSUME NEW H, NEW B, NEW G, Books(H, B, G), NEW S, S \intersect B = {}
  PROVE  Books(H \union S, B \union S, G)
  BY DEF Books

\* An item that is held in one place, or in none, is there and gone as often
\* as it was born.
LEMMA BooksOnce ==
  ASSUME NEW H, NEW B, NEW G, Books(H, B, G), NEW k
  PROVE  /\ k \in H => k \in B /\ ~BagIn(k, G)
         /\ k \notin H => (k \in B <=> BagIn(k, G))
         /\ BagIn(k, G) => G[k] = 1
  BY DEF Books, BagIn, BagToSet

-----------------------------------------------------------------------------
(* The layout of a buffer *)

\* Multiples and divisions.
LEMMA Multiples ==
  ASSUME NEW s \in Nat, NEW a \in Nat, NEW b \in Nat
  PROVE  /\ a * s \in Nat
         /\ a <= b => a * s <= b * s
         /\ a < b => a * s + s <= b * s
  OBVIOUS

LEMMA Division ==
  ASSUME NEW n \in Nat, NEW a \in Nat \ {0}
  PROVE  n \div a \in Nat /\ (n \div a) * a <= n /\ n < (n \div a) * a + a
  OBVIOUS

LEMMA RoundsUp ==
  ASSUME NEW n \in Nat, NEW m \in Nat, NEW a \in Nat \ {0}
  PROVE  /\ RoundUp(n, a) \in Nat /\ n <= RoundUp(n, a)
         /\ n <= m => RoundUp(n, a) <= RoundUp(m, a)
         /\ n = 0 => RoundUp(n, a) = 0
  <1> DEFINE x == n + a - 1
             y == m + a - 1
             i == x \div a
             j == y \div a
  <1>1. x \in Nat /\ y \in Nat
    OBVIOUS
  <1>2. i \in Nat /\ i * a <= x /\ x < i * a + a
    BY <1>1, Division
  <1>3. j \in Nat /\ j * a <= y /\ y < j * a + a
    BY <1>1, Division
  <1>4. RoundUp(n, a) = i * a /\ RoundUp(m, a) = j * a
    BY DEF RoundUp
  <1> HIDE DEF i, j
  <1>5. i * a \in Nat /\ j * a \in Nat
    BY <1>2, <1>3, Multiples
  <1>6. n <= i * a
    BY <1>2, <1>5
  <1>7. ASSUME n <= m PROVE i * a <= j * a
    <2>1. CASE i <= j
      BY <1>2, <1>3, <2>1, Multiples
    <2>2. CASE j < i
      <3>1. j * a + a <= i * a
        BY <1>2, <1>3, <2>2, Multiples
      <3>2. QED
        BY <1>2, <1>3, <1>5, <1>7, <3>1
    <2>3. QED
      BY <1>2, <1>3, <2>1, <2>2
  <1>8. ASSUME n = 0 PROVE i * a = 0
    <2>1. CASE i = 0
      BY <2>1
    <2>2. CASE 0 < i
      <3>1. 0 * a + a <= i * a
        BY <1>2, <2>2, Multiples
      <3>2. QED
        BY <1>2, <1>5, <1>8, <3>1
    <2>3. QED
      BY <1>2, <2>1, <2>2
  <1>9. QED
    BY <1>4, <1>5, <1>6, <1>7, <1>8

LEMMA ShapeParts ==
  ASSUME shape \in Shapes
  PROVE  /\ StartSize \in Nat /\ EndSize \in Nat /\ EndAlign \in Nat \ {0}
         /\ shape.first \in Nat /\ shape.second \in Nat
         /\ Sized # {} /\ Sized \subseteq Sides
         /\ \A side \in Sides : ItemSize(side) \in Nat
         /\ \A side \in Sized : ItemSize(side) \in Nat \ {0}
  <1>1. /\ shape.first \in Nat /\ shape.second \in Nat /\ shape.first + shape.second > 0
        /\ shape.first_align \in Nat \ {0} /\ shape.second_align \in Nat \ {0}
    BY ShapesAssumption
  <1>2. QED
    BY <1>1 DEF StartSize, EndSize, EndAlign, Sized, Sides, ItemSize

LEMMA Layout ==
  ASSUME shape \in Shapes, NEW c \in Nat
  PROVE  /\ Offset(c) \in Nat /\ Size(c) \in Nat
         /\ c * StartSize \in Nat /\ c * EndSize \in Nat
         /\ c * StartSize <= Offset(c) /\ Size(c) = Offset(c) + c * EndSize
         /\ \A d \in Nat : c <= d => Offset(c) <= Offset(d) /\ Size(c) <= Size(d)
         /\ StartSize = 0 => Offset(c) = 0
  <1>1. StartSize \in Nat /\ EndSize \in Nat /\ EndAlign \in Nat \ {0}
    BY ShapeParts
  <1>2. c * StartSize \in Nat /\ c * EndSize \in Nat
    BY <1>1, Multiples
  <1>3. Offset(c) \in Nat /\ c * StartSize <= Offset(c)
    BY <1>1, <1>2, RoundsUp DEF Offset
  <1>4. Size(c) = Offset(c) + c * EndSize
    BY DEF Size
  <1>5. ASSUME NEW d \in Nat, c <= d PROVE Offset(c) <= Offset(d) /\ Size(c) <= Size(d)
    <2>1. /\ d * StartSize \in Nat /\ c * StartSize <= d * StartSize
          /\ d * EndSize \in Nat /\ c * EndSize <= d * EndSize
      BY <1>1, <1>5, Multiples
    <2>2. Offset(c) <= Offset(d) /\ Offset(d) \in Nat
      BY <1>1, <1>2, <2>1, RoundsUp DEF Offset
    <2>3. QED
      BY <1>2, <1>3, <1>4, <2>1, <2>2 DEF Size
  <1>6. ASSUME StartSize = 0 PROVE Offset(c) = 0
    BY <1>1, <1>6, RoundsUp DEF Offset
  <1>7. QED
    BY <1>2, <1>3, <1>4, <1>5, <1>6

\* Which slice is at the start.
AtStart(side) == IF second_at_start THEN side = "second" ELSE side = "first"

BufferOK(b) ==
  /\ b = [first |-> FirstPointer(b.capacity), second |-> SecondPointer(b.capacity),
          capacity |-> b.capacity, len |-> b.len, bytes |-> b.bytes]
  /\ b.capacity \in Nat /\ b.len \in 0 .. b.capacity
  /\ b.bytes = [i \in 0 .. Size(b.capacity) - 1 |-> b.bytes[i]]

\* Where the item at position p of a slice starts.
Pos(b, side, p) == Pointer(b, side) + p * ItemSize(side)

LEMMA SideParts ==
  ASSUME shape \in Shapes, NEW b, BufferOK(b), NEW side \in Sides
  PROVE  /\ ItemSize(side) = IF AtStart(side) THEN StartSize ELSE EndSize
         /\ Pointer(b, side) = IF AtStart(side) THEN 0 ELSE Offset(b.capacity)
  <1>1. b.first = FirstPointer(b.capacity) /\ b.second = SecondPointer(b.capacity)
    BY DEF BufferOK
  <1>2. QED
    BY <1>1 DEF Sides, AtStart, ItemSize, StartSize, EndSize, Pointer, FirstPointer, SecondPointer

\* The item at a position is within its slice, and apart from all others.
LEMMA Within ==
  ASSUME shape \in Shapes, NEW b, BufferOK(b), NEW side \in Sides, NEW p \in 0 .. b.capacity - 1
  PROVE  /\ Pos(b, side, p) \in Nat /\ ItemSize(side) \in Nat
         /\ Pos(b, side, p) + ItemSize(side) <= Size(b.capacity)
         /\ AtStart(side) => /\ Pos(b, side, p) = p * StartSize
                             /\ Pos(b, side, p) + ItemSize(side) <= Offset(b.capacity)
         /\ ~AtStart(side) => Pos(b, side, p) = Offset(b.capacity) + p * EndSize
  <1> DEFINE c == b.capacity
             size == ItemSize(side)
  <1>1. c \in Nat /\ p \in Nat /\ p < c
    BY DEF BufferOK
  <1>2. /\ StartSize \in Nat /\ EndSize \in Nat /\ size \in Nat
    BY ShapeParts
  <1>3. /\ Offset(c) \in Nat /\ Size(c) = Offset(c) + c * EndSize /\ c * EndSize \in Nat
        /\ c * StartSize <= Offset(c) /\ c * StartSize \in Nat
    BY <1>1, Layout
  <1>4. /\ p * StartSize + StartSize <= c * StartSize /\ p * StartSize \in Nat
        /\ p * EndSize + EndSize <= c * EndSize /\ p * EndSize \in Nat
    BY <1>1, <1>2, Multiples
  <1>5. CASE AtStart(side)
    <2>1. size = StartSize /\ Pos(b, side, p) = 0 + p * StartSize
      BY <1>5, SideParts DEF Pos
    <2> HIDE DEF c, size
    <2>2. QED
      BY <1>2, <1>3, <1>4, <1>5, <2>1 DEF c, size
  <1>6. CASE ~AtStart(side)
    <2>1. size = EndSize /\ Pos(b, side, p) = Offset(c) + p * EndSize
      BY <1>6, SideParts DEF Pos
    <2>2. QED
      BY <1>2, <1>3, <1>4, <1>6, <2>1
  <1>7. QED
    BY <1>5, <1>6

LEMMA Apart ==
  ASSUME shape \in Shapes, NEW b, BufferOK(b),
         NEW side \in Sides, NEW p \in 0 .. b.capacity - 1,
         NEW other \in Sides, NEW r \in 0 .. b.capacity - 1,
         side # other \/ p # r
  PROVE  \/ Pos(b, side, p) + ItemSize(side) <= Pos(b, other, r)
         \/ Pos(b, other, r) + ItemSize(other) <= Pos(b, side, p)
  <1>1. CASE side = other
    <2>1. p \in Nat /\ r \in Nat /\ p # r
      BY <1>1 DEF BufferOK
    <2>2. ItemSize(side) \in Nat /\ Pos(b, side, p) \in Nat /\ Pos(b, side, r) \in Nat
      BY Within
    <2>3. Pos(b, side, p) = Pointer(b, side) + p * ItemSize(side)
          /\ Pos(b, side, r) = Pointer(b, side) + r * ItemSize(side)
      BY DEF Pos
    <2>4. Pointer(b, side) \in Nat
      <3>1. b.capacity \in Nat
        BY DEF BufferOK
      <3>2. Offset(b.capacity) \in Nat
        BY <3>1, Layout
      <3>3. QED
        BY <3>2, SideParts
    <2>5. /\ p < r => p * ItemSize(side) + ItemSize(side) <= r * ItemSize(side)
          /\ r < p => r * ItemSize(side) + ItemSize(side) <= p * ItemSize(side)
          /\ p * ItemSize(side) \in Nat /\ r * ItemSize(side) \in Nat
      BY <2>1, <2>2, Multiples
    <2>6. p < r \/ r < p
      BY <2>1
    <2>7. QED
      BY <1>1, <2>2, <2>3, <2>4, <2>5, <2>6
  <1>2. CASE side # other
    <2>1. (AtStart(side) /\ ~AtStart(other)) \/ (AtStart(other) /\ ~AtStart(side))
      BY <1>2 DEF AtStart, Sides
    <2>2. Offset(b.capacity) \in Nat /\ EndSize \in Nat
      BY Layout, ShapeParts DEF BufferOK
    <2>3. p * EndSize \in Nat /\ r * EndSize \in Nat
      <3>1. p \in Nat /\ r \in Nat
        BY DEF BufferOK
      <3>2. QED
        BY <2>2, <3>1, Multiples
    <2>4. CASE AtStart(side) /\ ~AtStart(other)
      BY <2>2, <2>3, <2>4, Within
    <2>5. CASE AtStart(other) /\ ~AtStart(side)
      BY <2>2, <2>3, <2>5, Within
    <2>6. QED
      BY <2>1, <2>4, <2>5
  <1>3. QED
    BY <1>1, <1>2

-----------------------------------------------------------------------------
(* Reading and writing *)

\* The bytes of the item are the same in both buffers.
SameBytes(b, d, side, p) ==
  \A n \in 0 .. ItemSize(side) - 1 : d.bytes[Pos(d, side, p) + n] = b.bytes[Pos(b, side, p) + n]

LEMMA SameItem ==
  ASSUME shape \in Shapes, NEW b, NEW d, NEW side \in Sized, NEW p,
         Pos(b, side, p) \in Nat, Pos(d, side, p) \in Nat, SameBytes(b, d, side, p)
  PROVE  Item(d, side, p) = Item(b, side, p)
  <1> DEFINE i == Pos(b, side, p)
             j == Pos(d, side, p)
             item(q) == IF \A n \in 0 .. ItemSize(side) - 1 : b.bytes[i + n] = <<q, n>>
                        THEN q ELSE "junk"
             jtem(q) == IF \A n \in 0 .. ItemSize(side) - 1 : d.bytes[j + n] = <<q, n>>
                        THEN q ELSE "junk"
  <1>1. Item(b, side, p) = item(b.bytes[i][1]) /\ Item(d, side, p) = jtem(d.bytes[j][1])
    BY DEF Item, Pos
  <1>2. \A q : item(q) = jtem(q)
    BY DEF SameBytes
  <1>3. d.bytes[j] = b.bytes[i]
    <2>1. ItemSize(side) \in Nat \ {0}
      BY ShapeParts
    <2>2. d.bytes[j + 0] = b.bytes[i + 0]
      BY <2>1 DEF SameBytes
    <2>3. QED
      BY <2>2
  <1> HIDE DEF item, jtem
  <1>4. QED
    BY <1>1, <1>2, <1>3

LEMMA Writes ==
  ASSUME shape \in Shapes, NEW b, BufferOK(b), NEW side \in Sides, NEW p \in 0 .. b.capacity - 1,
         NEW k
  PROVE  /\ BufferOK(Write(b, side, p, k))
         /\ Write(b, side, p, k).len = b.len /\ Write(b, side, p, k).capacity = b.capacity
         /\ side \in Sized => Item(Write(b, side, p, k), side, p) = k
         /\ \A other \in Sized, r \in 0 .. b.capacity - 1 :
              other # side \/ r # p => Item(Write(b, side, p, k), other, r) = Item(b, other, r)
  <1> DEFINE at == Pos(b, side, p)
             d == Write(b, side, p, k)
             size == ItemSize(side)
  <1>1. d = [b EXCEPT !.bytes = [i \in DOMAIN b.bytes |->
               IF i \in at .. at + size - 1 THEN <<k, i - at>> ELSE b.bytes[i]]]
    BY DEF Write, Pos
  <1>2. /\ d.first = b.first /\ d.second = b.second /\ d.capacity = b.capacity /\ d.len = b.len
        /\ d.bytes = [i \in 0 .. Size(b.capacity) - 1 |->
               IF i \in at .. at + size - 1 THEN <<k, i - at>> ELSE b.bytes[i]]
        /\ BufferOK(d)
    <2>1. DOMAIN b.bytes = 0 .. Size(b.capacity) - 1
      BY DEF BufferOK
    <2>2. /\ d.first = b.first /\ d.second = b.second /\ d.capacity = b.capacity /\ d.len = b.len
          /\ d.bytes = [i \in 0 .. Size(b.capacity) - 1 |->
               IF i \in at .. at + size - 1 THEN <<k, i - at>> ELSE b.bytes[i]]
          /\ d = [first |-> b.first, second |-> b.second, capacity |-> b.capacity, len |-> b.len,
                  bytes |-> d.bytes]
      BY <1>1, <2>1 DEF BufferOK
    <2> HIDE DEF d
    <2>3. QED
      BY <2>2 DEF BufferOK
  <1> HIDE DEF d
  <1>3. \A other \in Sides, r \in Nat : Pos(d, other, r) = Pos(b, other, r)
    BY <1>2 DEF Pos, Pointer
  <1>4. at \in Nat /\ size \in Nat /\ at + size <= Size(b.capacity) /\ Size(b.capacity) \in Nat
    BY Within, Layout DEF BufferOK
  <1>5. ASSUME side \in Sized PROVE Item(d, side, p) = k
    <2>1. size \in Nat \ {0}
      BY <1>5, ShapeParts
    <2>2. ASSUME NEW n \in 0 .. size - 1 PROVE d.bytes[at + n] = <<k, n>>
      <3>1. /\ at + n \in 0 .. Size(b.capacity) - 1 /\ at + n \in at .. at + size - 1
            /\ (at + n) - at = n
        BY <1>4, <2>1
      <3>2. QED
        BY <1>2, <3>1
    <2>3. d.bytes[at] = <<k, 0>>
      <3>1. at + 0 = at /\ 0 \in 0 .. size - 1
        BY <1>4, <2>1
      <3>2. QED
        BY <2>2, <3>1
    <2>4. Pointer(d, side) + p * ItemSize(side) = at
      BY <1>2 DEF Pos, Pointer
    <2> HIDE DEF at
    <2>5. QED
      BY <2>2, <2>3, <2>4 DEF Item
  <1>6. ASSUME NEW other \in Sized, NEW r \in 0 .. b.capacity - 1, other # side \/ r # p
        PROVE  Item(d, other, r) = Item(b, other, r)
    <2> DEFINE to == Pos(b, other, r)
               osize == ItemSize(other)
    <2>1. other \in Sides /\ to \in Nat /\ osize \in Nat /\ to + osize <= Size(b.capacity)
      BY ShapeParts, Within
    <2>2. to + osize <= at \/ at + size <= to
      BY <1>6, <2>1, Apart
    <2>3. ASSUME NEW n \in 0 .. osize - 1 PROVE d.bytes[to + n] = b.bytes[to + n]
      <3>1. to + n \in 0 .. Size(b.capacity) - 1 /\ to + n \notin at .. at + size - 1
        BY <1>4, <2>1, <2>2
      <3>2. QED
        BY <1>2, <3>1
    <2>4. Pos(d, other, r) = to
      BY <1>3, <2>1 DEF BufferOK
    <2>5. SameBytes(b, d, other, r)
      BY <2>3, <2>4 DEF SameBytes
    <2>6. QED
      BY <2>1, <2>4, <2>5, SameItem
  <1>7. QED
    BY <1>2, <1>5, <1>6 DEF d

\* A buffer of a given capacity, with no items in it.
LEMMA NewBuffer ==
  ASSUME NEW c \in Nat
  PROVE  /\ BufferOK(with_capacity(c)) /\ with_capacity(c).len = 0
         /\ with_capacity(c).capacity = c
  BY DEF with_capacity, BufferOK

\* A buffer of another length has the same items.
LEMMA OtherLength ==
  ASSUME NEW b, BufferOK(b), NEW n \in 0 .. b.capacity
  PROVE  LET d == [b EXCEPT !.len = n]
         IN  /\ BufferOK(d) /\ d.len = n /\ d.capacity = b.capacity
             /\ \A side, p : Item(d, side, p) = Item(b, side, p)
  <1> DEFINE d == [b EXCEPT !.len = n]
  <1>1. /\ d = [first |-> b.first, second |-> b.second, capacity |-> b.capacity, len |-> n,
                bytes |-> b.bytes]
    <2>1. b = [first |-> b.first, second |-> b.second, capacity |-> b.capacity, len |-> b.len,
               bytes |-> b.bytes]
      BY DEF BufferOK
    <2>2. QED
      BY <2>1
  <1>2. /\ d.first = b.first /\ d.second = b.second /\ d.capacity = b.capacity
        /\ d.len = n /\ d.bytes = b.bytes
    BY <1>1
  <1> HIDE DEF d
  <1>3. BufferOK(d)
    <2>1. /\ b.first = FirstPointer(b.capacity) /\ b.second = SecondPointer(b.capacity)
          /\ b.capacity \in Nat /\ b.bytes = [i \in 0 .. Size(b.capacity) - 1 |-> b.bytes[i]]
      BY DEF BufferOK
    <2>2. d = [first |-> FirstPointer(d.capacity), second |-> SecondPointer(d.capacity),
               capacity |-> d.capacity, len |-> d.len, bytes |-> d.bytes]
      BY <1>1, <1>2, <2>1
    <2>3. QED
      BY <1>2, <2>1, <2>2 DEF BufferOK
  <1>4. \A side, p : Item(d, side, p) = Item(b, side, p)
    BY <1>2 DEF Item, Pointer
  <1>5. QED
    BY <1>2, <1>3, <1>4 DEF d

\* The slice at the end moves past the items at the start, which stay.
LEMMA Grows ==
  ASSUME shape \in Shapes, NEW b, BufferOK(b), NEW c \in Nat, b.capacity <= c
  PROVE  /\ BufferOK(grow(b, c)) /\ grow(b, c).len = b.len /\ grow(b, c).capacity = c
         /\ \A side \in Sized, p \in 0 .. b.len - 1 :
              Item(grow(b, c), side, p) = Item(b, side, p)
  <1> DEFINE d == grow(b, c)
             old == Reallocated(b, c)
             from == Offset(b.capacity)
             to == Offset(c)
             moved == to .. to + b.len * EndSize - 1
  <1>1. /\ b.capacity \in Nat /\ b.len \in Nat /\ b.len <= b.capacity
        /\ DOMAIN b.bytes = 0 .. Size(b.capacity) - 1
    BY DEF BufferOK
  <1>2. /\ from \in Nat /\ to \in Nat /\ from <= to
        /\ Size(b.capacity) \in Nat /\ Size(c) \in Nat /\ Size(b.capacity) <= Size(c)
        /\ Size(b.capacity) = from + b.capacity * EndSize /\ Size(c) = to + c * EndSize
        /\ StartSize = 0 => from = 0 /\ to = 0
    BY <1>1, Layout
  <1>3. /\ b.len * EndSize \in Nat /\ b.len * EndSize <= b.capacity * EndSize
        /\ b.len * EndSize <= c * EndSize /\ b.capacity * EndSize \in Nat /\ c * EndSize \in Nat
        /\ StartSize \in Nat /\ EndSize \in Nat
    BY <1>1, ShapeParts, Multiples
  <1>4. /\ DOMAIN old = 0 .. Size(c) - 1
        /\ \A i \in 0 .. Size(b.capacity) - 1 : old[i] = b.bytes[i]
    BY <1>1, <1>2 DEF Reallocated
  <1>5. /\ d = [first |-> FirstPointer(c), second |-> SecondPointer(c), capacity |-> c,
                len |-> b.len, bytes |-> d.bytes]
        /\ d.first = FirstPointer(c) /\ d.second = SecondPointer(c) /\ d.capacity = c
        /\ d.len = b.len /\ DOMAIN d.bytes = 0 .. Size(c) - 1
        /\ d.bytes = [i \in 0 .. Size(c) - 1 |-> d.bytes[i]]
        /\ \A i \in 0 .. Size(c) - 1 :
             d.bytes[i] = IF i \in moved /\ StartSize > 0 THEN old[i - to + from] ELSE old[i]
    BY <1>4 DEF grow
  <1> HIDE DEF d, old
  <1>6. BufferOK(d)
    BY <1>1, <1>5 DEF BufferOK
  <1>7. ASSUME NEW side \in Sized, NEW p \in 0 .. b.len - 1
        PROVE  Item(d, side, p) = Item(b, side, p)
    <2> DEFINE i == Pos(b, side, p)
               j == Pos(d, side, p)
               size == ItemSize(side)
    <2>1. side \in Sides /\ p \in Nat /\ p < b.len /\ p \in 0 .. b.capacity - 1 /\ p \in 0 .. d.capacity - 1
      BY <1>1, <1>5, ShapeParts
    <2>2. /\ i \in Nat /\ size \in Nat /\ i + size <= Size(b.capacity)
          /\ AtStart(side) => i = p * StartSize /\ i + size <= from
          /\ ~AtStart(side) => i = from + p * EndSize
      BY <2>1, Within
    <2>3. /\ j \in Nat
          /\ AtStart(side) => j = p * StartSize
          /\ ~AtStart(side) => j = to + p * EndSize
      BY <1>5, <1>6, <2>1, Within
    <2>4. size = IF AtStart(side) THEN StartSize ELSE EndSize
      BY <2>1, SideParts
    <2>5. p * EndSize + EndSize <= b.len * EndSize /\ p * EndSize \in Nat
      BY <1>1, <1>3, <2>1, Multiples
    <2>6. ASSUME NEW n \in 0 .. size - 1 PROVE d.bytes[j + n] = b.bytes[i + n]
      <3>1. i + n \in 0 .. Size(b.capacity) - 1 /\ n \in Nat /\ n < size
        BY <1>2, <2>2
      <3>2. CASE AtStart(side)
        <4>1. j + n \in 0 .. Size(c) - 1 /\ j + n = i + n /\ j + n \notin moved
          BY <1>2, <2>2, <2>3, <3>1, <3>2
        <4>2. QED
          BY <1>4, <1>5, <3>1, <4>1
      <3>3. CASE ~AtStart(side) /\ StartSize > 0
        <4>1. /\ j + n \in 0 .. Size(c) - 1 /\ j + n \in moved
              /\ (j + n) - to + from = i + n
          BY <1>2, <1>3, <2>2, <2>3, <2>4, <2>5, <3>1, <3>3
        <4>2. ASSUME NEW x \in moved, x \in 0 .. Size(c) - 1,
                     NEW y \in 0 .. Size(b.capacity) - 1, x - to + from = y
              PROVE  d.bytes[x] = b.bytes[y]
          <5>1. d.bytes[x] = old[x - to + from]
            BY <1>5, <3>3, <4>2
          <5>2. QED
            BY <1>4, <4>2, <5>1
        <4> HIDE DEF moved
        <4>3. QED
          BY <3>1, <4>1, <4>2
      <3>4. CASE ~AtStart(side) /\ StartSize = 0
        <4>1. j + n \in 0 .. Size(c) - 1 /\ j + n = i + n
          BY <1>2, <1>3, <2>2, <2>3, <2>4, <2>5, <3>1, <3>4
        <4>2. QED
          BY <1>4, <1>5, <3>1, <3>4, <4>1
      <3>5. QED
        BY <1>3, <3>2, <3>3, <3>4
    <2>7. SameBytes(b, d, side, p)
      BY <2>6 DEF SameBytes
    <2> HIDE DEF i, j, size
    <2>8. QED
      BY <2>2, <2>3, <2>7, SameItem DEF i, j
  <1>8. QED
    BY <1>5, <1>6, <1>7 DEF d

\* What make_room gives, and that push has a place to write to.
LEMMA MakesRoom ==
  ASSUME shape \in Shapes, BufferOK(buffer), NEW n \in Nat, NEW b \in make_room(n)
  PROVE  /\ BufferOK(b) /\ b.len = buffer.len /\ buffer.len + n <= b.capacity
         /\ buffer.capacity <= b.capacity
         /\ buffer.len + n <= buffer.capacity => b = buffer
         /\ \A side \in Sized, p \in 0 .. buffer.len - 1 : Item(b, side, p) = Item(buffer, side, p)
  <1> DEFINE required == buffer.len + n
             old == buffer.capacity
             c == grown_capacity(old, required)
  <1>1. old \in Nat /\ required \in Nat /\ LenMax \in Nat /\ Smallest \in Nat
    BY BoundsAssumption DEF BufferOK
  <1>2. CASE required <= old
    <2>1. b = buffer
      BY <1>2 DEF make_room
    <2>2. QED
      BY <1>1, <1>2, <2>1
  <1>3. CASE ~(required <= old)
    <2>1. b = grow(buffer, c) /\ ~(required > LenMax)
      BY <1>3 DEF make_room
    <2> DEFINE d == Larger(required, 2 * old)
    <2>2. c = Smaller(Larger(d, Smallest), LenMax)
      BY DEF grown_capacity
    <2>3. d \in Nat /\ required <= d /\ required <= LenMax
      BY <1>1, <2>1 DEF Larger
    <2> HIDE DEF d, required, old, c
    <2>4. c \in Nat /\ required <= c /\ old <= c
      BY <1>1, <1>3, <2>2, <2>3 DEF Larger, Smaller
    <2>5. /\ BufferOK(b) /\ b.len = buffer.len /\ b.capacity = c
          /\ \A side \in Sized, p \in 0 .. buffer.len - 1 :
               Item(b, side, p) = Item(buffer, side, p)
      BY <2>1, <2>4, Grows DEF old
    <2>6. QED
      BY <1>3, <2>4, <2>5 DEF old, required
  <1>4. QED
    BY <1>2, <1>3

-----------------------------------------------------------------------------
(* Pairs *)

\* The q-th pair is at position p.
IsPair(b, p, q) == \A side \in Sized : Item(b, side, p) = <<side, q>>

LEMMA PairFound ==
  ASSUME shape \in Shapes, NEW b, NEW p, NEW q \in 1 .. ItemsMax, IsPair(b, p, q)
  PROVE  PairAt(b, p) = q
  <1> DEFINE ids == {Item(b, side, p) : side \in Sized}
             Is(r) == ids = {<<side, r>> : side \in Sized}
  <1>1. Is(q)
    BY DEF IsPair
  <1>2. PICK side \in Sized : TRUE
    BY ShapeParts
  <1>3. ASSUME NEW r, Is(r) PROVE r = q
    <2>1. {<<s, r>> : s \in Sized} = {<<s, q>> : s \in Sized}
      BY <1>1, <1>3
    <2>2. <<side, r>> \in {<<s, q>> : s \in Sized}
      BY <2>1
    <2>3. QED
      BY <2>2
  <1>4. PairAt(b, p) = IF \E r \in 1 .. ItemsMax : Is(r) THEN CHOOSE r \in 1 .. ItemsMax : Is(r) ELSE 0
    BY DEF PairAt
  <1> HIDE DEF Is
  <1>5. QED
    BY <1>1, <1>3, <1>4

-----------------------------------------------------------------------------
(* The invariant of a PairVec *)

\* The positions of pairs, but while it gets clones.
Whole ==
  CASE mode \in {"vec", "parts"} -> 0 .. buffer.len - 1
    [] mode = "iter" -> start .. buffer.len - 1
    [] OTHER -> {}

\* The number of the pair at a position, and the clones there are in a slice.
PairNo(p) == PairAt(buffer, p)
Clones(side) == IF side = "first" THEN firsts ELSE seconds

PairFields ==
  /\ shape \in Shapes /\ BufferOK(buffer)
  /\ mode \in {"vec", "fill", "parts", "iter", "dropped"}
  /\ start \in Nat /\ source \in Nat /\ firsts \in Nat /\ seconds \in Nat
  /\ made \in 0 .. ItemsMax
  /\ mode \in {"vec", "fill", "parts"} => start = 0
  /\ mode = "iter" => start <= buffer.len
  /\ mode = "fill" => /\ seconds <= firsts /\ firsts <= source
                      /\ source <= buffer.capacity /\ made + source <= ItemsMax
  /\ mode # "fill" => source = 0 /\ firsts = 0 /\ seconds = 0
  /\ promised \in 0 .. room

\* The items that the PairVec, its parts or its iterator has to drop.
Numbers(side) ==
  IF mode = "fill" THEN made + 1 .. made + Clones(side) ELSE {PairNo(p) : p \in Whole}
Held == UNION {{<<side, q>> : q \in Numbers(side)} : side \in Sized}

\* The two slices are in step, and no pair is in them twice.
InPairs ==
  /\ \A p \in Whole : PairNo(p) \in 1 .. made /\ IsPair(buffer, p, PairNo(p))
  /\ \A p, r \in Whole : PairNo(p) = PairNo(r) => p = r

\* The clones come in the order of the source.
InOrder ==
  \A side \in Sized : \A p \in 0 .. Clones(side) - 1 :
    Item(buffer, side, p) = <<side, made + p + 1>>

BornOK == \A k \in born : k[1] \in Sized /\ k[2] \in 1 .. made + Clones(k[1])

PairItems ==
  /\ mode # "fill" => InPairs
  /\ mode = "fill" => InOrder
  /\ BornOK
  /\ Books(Held, born, gone)

PairInv == PairFields /\ PairItems

LEMMA PairParts ==
  ASSUME PairFields
  PROVE  /\ shape \in Shapes /\ made \in Nat /\ ItemsMax \in Nat /\ made <= ItemsMax
         /\ buffer.capacity \in Nat /\ buffer.len \in Nat /\ buffer.len <= buffer.capacity
         /\ promised \in Nat
         /\ mode \in {"vec", "parts"} => Whole = 0 .. buffer.len - 1
         /\ mode = "iter" => Whole = start .. buffer.len - 1
         /\ mode # "fill" => Whole \subseteq 0 .. buffer.len - 1
         /\ mode # "fill" => Clones("first") = 0 /\ Clones("second") = 0
                             /\ \A side : Clones(side) = 0
  <1>1. /\ shape \in Shapes /\ made \in Nat /\ ItemsMax \in Nat /\ made <= ItemsMax
        /\ promised \in Nat /\ start \in Nat
    BY BoundsAssumption DEF PairFields
  <1>2. buffer.capacity \in Nat /\ buffer.len \in Nat /\ buffer.len <= buffer.capacity
    BY DEF PairFields, BufferOK
  <1>3. /\ mode \in {"vec", "parts"} => Whole = 0 .. buffer.len - 1
        /\ mode = "iter" => Whole = start .. buffer.len - 1
        /\ mode = "dropped" => Whole = {}
    BY DEF Whole
  <1>4. mode # "fill" => Whole \subseteq 0 .. buffer.len - 1
    BY <1>1, <1>2, <1>3 DEF PairFields
  <1>5. mode # "fill" => \A side : Clones(side) = 0
    BY DEF PairFields, Clones
  <1>6. QED
    BY <1>1, <1>2, <1>3, <1>4, <1>5

\* What primes mean while the shape stays.
LEMMA SameShape ==
  ASSUME shape' = shape
  PROVE  /\ Sized' = Sized
         /\ \A side, p : Item(buffer, side, p)' = Item(buffer', side, p)
         /\ \A p : PairNo(p)' = PairAt(buffer', p)
         /\ \A p, q : IsPair(buffer, p, q)' <=> IsPair(buffer', p, q)
         /\ BufferOK(buffer)' <=> BufferOK(buffer')
  <1>1. \A side : ItemSize(side)' = ItemSize(side)
    BY DEF ItemSize
  <1>2. Sized' = Sized
    BY <1>1 DEF Sized
  <1>3. \A side, p : Item(buffer, side, p)' = Item(buffer', side, p)
    BY <1>1 DEF Item, Pointer
  <1>4. \A p : PairNo(p)' = PairAt(buffer', p)
    <2> SUFFICES ASSUME NEW p PROVE PairNo(p)' = PairAt(buffer', p)
      OBVIOUS
    <2> DEFINE Pair(ids, sides) ==
                 IF \E q \in 1 .. ItemsMax : ids = {<<side, q>> : side \in sides}
                 THEN CHOOSE q \in 1 .. ItemsMax : ids = {<<side, q>> : side \in sides} ELSE 0
               next == {Item(buffer, side, p)' : side \in Sized'}
               same == {Item(buffer', side, p) : side \in Sized}
    <2>1. PairNo(p)' = Pair(next, Sized') /\ PairAt(buffer', p) = Pair(same, Sized)
      BY DEF PairNo, PairAt
    <2>2. next = same
      BY <1>2, <1>3
    <2> HIDE DEF Pair, next, same
    <2>3. QED
      BY <1>2, <2>1, <2>2
  <1>5. \A p, q : IsPair(buffer, p, q)' <=> IsPair(buffer', p, q)
    BY <1>2, <1>3 DEF IsPair
  <1>6. \A c : /\ FirstPointer(c)' = FirstPointer(c) /\ SecondPointer(c)' = SecondPointer(c)
               /\ Size(c)' = Size(c)
    BY DEF FirstPointer, SecondPointer, Size, Offset, StartSize, EndSize, EndAlign, second_at_start
  <1>7. BufferOK(buffer)' <=> BufferOK(buffer')
    BY <1>6 DEF BufferOK
  <1>8. QED
    BY <1>2, <1>3, <1>4, <1>5, <1>7

\* Pairs of which no byte changes are the same pairs.
LEMMA SamePairs ==
  ASSUME PairFields, mode # "fill", InPairs, shape' = shape, NEW p \in Whole,
         \A side \in Sized : Item(buffer', side, p) = Item(buffer, side, p)
  PROVE  PairNo(p)' = PairNo(p) /\ IsPair(buffer', p, PairNo(p))
  <1>1. IsPair(buffer, p, PairNo(p)) /\ PairNo(p) \in 1 .. made
    BY DEF InPairs
  <1>2. IsPair(buffer', p, PairNo(p))
    BY <1>1 DEF IsPair
  <1>3. PairNo(p) \in 1 .. ItemsMax /\ shape \in Shapes
    BY <1>1, PairParts
  <1>4. PairAt(buffer', p) = PairNo(p)
    BY <1>2, <1>3, PairFound
  <1>5. QED
    BY <1>2, <1>4, SameShape

\* What is left of the pairs.
LEMMA PairsLeft ==
  ASSUME PairFields, PairItems, mode # "fill", mode' # "fill",
         shape' = shape, made' = made, born' = born, firsts' = firsts, seconds' = seconds,
         Whole' \subseteq Whole,
         \A p \in Whole' : \A side \in Sized : Item(buffer', side, p) = Item(buffer, side, p)
  PROVE  /\ InPairs' /\ BornOK'
         /\ \A p \in Whole' : PairNo(p)' = PairNo(p)
         /\ Held = {<<side, PairNo(p)>> : side \in Sized, p \in Whole}
         /\ Held' = {<<side, PairNo(p)>> : side \in Sized, p \in Whole'}
  <1>1. InPairs /\ BornOK /\ Sized' = Sized
    BY SameShape DEF PairItems
  <1>2. ASSUME NEW p \in Whole' PROVE PairNo(p)' = PairNo(p) /\ IsPair(buffer', p, PairNo(p))
    BY <1>1, SamePairs
  <1>3. InPairs'
    <2>1. ASSUME NEW p \in Whole' PROVE PairNo(p)' \in 1 .. made' /\ IsPair(buffer, p, PairNo(p))'
      <3>1. PairNo(p)' = PairNo(p) /\ IsPair(buffer', p, PairNo(p)) /\ PairNo(p) \in 1 .. made
        BY <1>1, <1>2 DEF InPairs
      <3>2. \A q \in {PairNo(p)} : IsPair(buffer, p, q)'
        BY <3>1, SameShape
      <3>3. QED
        BY <3>1, <3>2, SameShape
    <2>2. \A p, r \in Whole' : PairNo(p)' = PairNo(r)' => p = r
      BY <1>1, <1>2 DEF InPairs
    <2>3. QED
      BY <2>1, <2>2 DEF InPairs
  <1>4. BornOK'
    BY <1>1 DEF BornOK, Clones
  <1>5. Held = {<<side, PairNo(p)>> : side \in Sized, p \in Whole}
    <2>1. \A side : Numbers(side) = {PairNo(p) : p \in Whole}
      BY DEF Numbers
    <2>2. QED
      BY <2>1 DEF Held
  <1>6. Held' = {<<side, PairNo(p)>> : side \in Sized, p \in Whole'}
    <2>1. Held' = UNION {{<<side, q>> : q \in {PairNo(p)' : p \in Whole'}} : side \in Sized}
      BY <1>1 DEF Held, Numbers
    <2>2. {PairNo(p)' : p \in Whole'} = {PairNo(p) : p \in Whole'}
      BY <1>2
    <2>3. QED
      BY <2>1, <2>2
  <1>7. QED
    BY <1>2, <1>3, <1>4, <1>5, <1>6

\* No pair comes or goes.
LEMMA PairsStay ==
  ASSUME PairFields, PairItems, mode # "fill", mode' # "fill",
         shape' = shape, made' = made, born' = born, firsts' = firsts, seconds' = seconds,
         gone' = gone, Whole' = Whole,
         \A p \in Whole : \A side \in Sized : Item(buffer', side, p) = Item(buffer, side, p)
  PROVE  PairItems' /\ \A p \in Whole : PairNo(p)' = PairNo(p)
  <1>1. /\ InPairs' /\ BornOK' /\ Held' = Held
        /\ \A p \in Whole' : PairNo(p)' = PairNo(p)
    BY PairsLeft
  <1>2. Books(Held', born', gone')
    BY <1>1 DEF PairItems
  <1>3. QED
    BY <1>1, <1>2 DEF PairItems

\* What drop_items drops.
LEMMA ItemsOfPairs ==
  ASSUME InPairs, NEW m, NEW n, m .. n - 1 \subseteq Whole
  PROVE  Items(m, n) = {<<side, PairNo(p)>> : side \in Sized, p \in m .. n - 1}
  <1>1. \A side \in Sized, p \in m .. n - 1 : Item(buffer, side, p) = <<side, PairNo(p)>>
    BY DEF InPairs, IsPair
  <1>2. Items(m, n) = UNION {{Item(buffer, side, p) : p \in m .. n - 1} : side \in Sized}
    BY DEF Items, ItemsAt
  <1>3. QED
    BY <1>1, <1>2

\* The pairs at the positions from m to before n leave.
LEMMA PairsGo ==
  ASSUME PairFields, PairItems, mode # "fill", mode' # "fill",
         shape' = shape, made' = made, born' = born, firsts' = firsts, seconds' = seconds,
         NEW m, NEW n, m .. n - 1 \subseteq Whole, Whole' = Whole \ (m .. n - 1),
         gone' = gone (+) SetToBag(Items(m, n)),
         \A p \in Whole' : \A side \in Sized : Item(buffer', side, p) = Item(buffer, side, p)
  PROVE  PairItems' /\ \A p \in Whole' : PairNo(p)' = PairNo(p)
  <1> DEFINE S == {<<side, PairNo(p)>> : side \in Sized, p \in m .. n - 1}
  <1>1. /\ InPairs' /\ BornOK' /\ InPairs
        /\ Held = {<<side, PairNo(p)>> : side \in Sized, p \in Whole}
        /\ Held' = {<<side, PairNo(p)>> : side \in Sized, p \in Whole'}
        /\ \A p \in Whole' : PairNo(p)' = PairNo(p)
    BY PairsLeft DEF PairItems
  <1>2. Items(m, n) = S
    BY <1>1, ItemsOfPairs
  <1>3. \A p, r \in Whole : PairNo(p) = PairNo(r) => p = r
    BY <1>1 DEF InPairs
  <1>4. S \subseteq Held /\ Held' = Held \ S
    BY <1>1, <1>3
  <1>5. Books(Held', born', gone')
    BY <1>2, <1>4, BooksOut DEF PairItems
  <1>6. QED
    BY <1>1, <1>5 DEF PairItems

-----------------------------------------------------------------------------
(* The steps of a PairVec *)

\* The fields that few steps change.
Others == <<shape, start, source, firsts, seconds>>

LEMMA EnsureRoomKeeps ==
  ASSUME PairInv, NEW n \in 1 .. LenMax, EnsureRoom(n)
  PROVE  /\ PairInv' /\ buffer'.len = buffer.len /\ \A p \in Whole : PairNo(p)' = PairNo(p)
         /\ room' >= room /\ promised' >= promised
  <1>1. /\ PairFields /\ PairItems /\ mode = "vec" /\ mode' = "vec" /\ UNCHANGED Others
        /\ made' = made /\ born' = born /\ gone' = gone
        /\ buffer' \in make_room(n) /\ promised' = Larger(promised, n) /\ n \in Nat
    BY DEF PairInv, EnsureRoom, clone_vars, Others
  <1>2. /\ BufferOK(buffer') /\ buffer'.len = buffer.len /\ buffer.len + n <= buffer'.capacity
        /\ buffer.capacity <= buffer'.capacity
        /\ \A side \in Sized, p \in 0 .. buffer.len - 1 :
             Item(buffer', side, p) = Item(buffer, side, p)
    BY <1>1, MakesRoom DEF PairFields
  <1>3. Whole = 0 .. buffer.len - 1 /\ Whole' = Whole
    BY <1>1, <1>2 DEF Whole
  <1>4. PairItems' /\ \A p \in Whole : PairNo(p)' = PairNo(p)
    BY <1>1, <1>2, <1>3, PairsStay DEF Others
  <1>5. room' >= room /\ promised' >= promised /\ promised' \in 0 .. room'
    <2>1. /\ room = buffer.capacity - buffer.len /\ room' = buffer'.capacity - buffer.len
          /\ promised \in 0 .. room /\ buffer'.capacity \in Nat
      BY <1>1, <1>2 DEF room, PairFields, BufferOK
    <2>2. buffer.capacity \in Nat /\ buffer.len \in Nat /\ promised \in Nat
      BY <1>1, PairParts
    <2>3. QED
      BY <1>1, <1>2, <2>1, <2>2 DEF Larger
  <1>6. BufferOK(buffer)'
    BY <1>1, <1>2, SameShape DEF Others
  <1>7. PairFields'
    BY <1>1, <1>5, <1>6 DEF PairFields, Others
  <1>8. QED
    BY <1>2, <1>4, <1>5, <1>7 DEF PairInv

\* The conversions, which leave the buffer as it is.
LEMMA IntoKeeps ==
  ASSUME PairInv, IntoRawParts \/ FromRawParts \/ IntoIter
  PROVE  PairInv' /\ Whole' = Whole /\ \A p \in Whole : PairNo(p)' = PairNo(p)
  <1>1. /\ PairFields /\ PairItems /\ mode \in {"vec", "parts"} /\ mode' \in {"vec", "parts", "iter"}
        /\ UNCHANGED <<buffer, Others>> /\ made' = made /\ born' = born /\ gone' = gone
        /\ promised' = 0 \/ (promised' = promised /\ mode = "parts")
    BY DEF PairInv, IntoRawParts, FromRawParts, IntoIter, clone_vars, Others
  <1>2. Whole = 0 .. buffer.len - 1 /\ Whole' = 0 .. buffer.len - 1 /\ start = 0
    <2>1. start = 0 /\ Whole = 0 .. buffer.len - 1
      BY <1>1 DEF PairFields, Whole
    <2>2. QED
      BY <1>1, <2>1 DEF Whole, Others
  <1>3. PairItems' /\ \A p \in Whole : PairNo(p)' = PairNo(p)
    BY <1>1, <1>2, PairsStay DEF Others
  <1>4. promised' = 0
    BY <1>1 DEF PairFields, room
  <1>5. room' \in Nat
    <2>1. buffer.capacity \in Nat /\ buffer.len \in Nat /\ buffer.len <= buffer.capacity
      BY <1>1, PairParts
    <2>2. QED
      BY <1>1, <2>1 DEF room
  <1>6. PairFields'
    <2>1. BufferOK(buffer)'
      BY <1>1, SameShape DEF Others, PairFields
    <2>2. buffer'.len \in Nat
      BY <1>1, PairParts
    <2>3. QED
      BY <1>1, <1>2, <1>4, <1>5, <2>1, <2>2 DEF PairFields, Others
  <1>7. QED
    BY <1>2, <1>3, <1>6 DEF PairInv

\* Pop and next_back take the last pair.
LEMMA LastGoes ==
  ASSUME PairInv, Pop \/ IterNextBack
  PROVE  /\ PairInv' /\ Whole # {} /\ Whole' = Whole \ {buffer.len - 1}
         /\ buffer'.len = buffer.len - 1 /\ room' \in {room, room + 1}
         /\ \A p \in Whole' : PairNo(p)' = PairNo(p)
  <1>1. /\ PairFields /\ PairItems /\ mode \in {"vec", "iter"} /\ mode' = mode
        /\ UNCHANGED Others /\ made' = made /\ born' = born /\ promised' = promised
        /\ buffer' = [buffer EXCEPT !.len = @ - 1]
        /\ gone' = gone (+) SetToBag(Items(buffer.len - 1, buffer.len))
    BY DEF PairInv, Pop, IterNextBack, clone_vars, Others
  <1>2. /\ buffer.len \in Nat \ {0} /\ start \in Nat /\ buffer.capacity \in Nat
        /\ buffer.len <= buffer.capacity
        /\ mode = "iter" => start <= buffer.len - 1
    <2>1. CASE mode = "vec"
      BY <1>1, <2>1, PairParts DEF Pop, IterNextBack, PairFields
    <2>2. CASE mode = "iter"
      BY <1>1, <2>2, PairParts DEF Pop, IterNextBack, PairFields
    <2>3. QED
      BY <1>1, <2>1, <2>2
  <1>3. /\ BufferOK(buffer') /\ buffer'.len = buffer.len - 1 /\ buffer'.capacity = buffer.capacity
        /\ \A side, p : Item(buffer', side, p) = Item(buffer, side, p)
    <2>1. buffer.len - 1 \in 0 .. buffer.capacity /\ BufferOK(buffer)
      BY <1>1, <1>2 DEF PairFields
    <2>2. QED
      BY <1>1, <2>1, OtherLength
  <1> DEFINE m == buffer.len - 1
             f == IF mode = "vec" THEN 0 ELSE start
  <1>4. Whole = f .. m /\ Whole' = f .. m - 1 /\ f \in Nat /\ m \in Nat /\ f <= m
    <2>1. Whole = f .. m /\ Whole' = f .. m - 1
      BY <1>1, <1>3 DEF Whole, Others
    <2>2. QED
      BY <1>1, <1>2, <2>1
  <1>5. m .. buffer.len - 1 = {m}
    BY <1>2
  <1> HIDE DEF f
  <1>6. m .. buffer.len - 1 \subseteq Whole /\ Whole' = Whole \ (m .. buffer.len - 1) /\ m \in Whole
    BY <1>4, <1>5
  <1> HIDE DEF m
  <1>7. PairItems' /\ \A p \in Whole' : PairNo(p)' = PairNo(p)
    <2>1. gone' = gone (+) SetToBag(Items(m, buffer.len))
      BY <1>1 DEF m
    <2>2. QED
      BY <1>1, <1>3, <1>6, <2>1, PairsGo DEF Others
  <1>8. room' \in {room, room + 1} /\ promised' \in 0 .. room'
    <2>1. /\ room = IF mode = "vec" THEN buffer.capacity - buffer.len ELSE 0
          /\ room' = IF mode = "vec" THEN buffer.capacity - (buffer.len - 1) ELSE 0
          /\ promised \in 0 .. room
      BY <1>1, <1>3 DEF room, PairFields
    <2>2. QED
      BY <1>1, <1>2, <2>1
  <1>9. PairFields'
    <2>1. BufferOK(buffer)'
      BY <1>1, <1>3, SameShape DEF Others
    <2>2. QED
      BY <1>1, <1>2, <1>3, <1>8, <2>1 DEF PairFields, Others
  <1>10. QED
    BY <1>3, <1>4, <1>5, <1>6, <1>7, <1>8, <1>9 DEF PairInv, m

LEMMA FirstGoes ==
  ASSUME PairInv, IterNext
  PROVE  /\ PairInv' /\ start < buffer.len /\ Whole' = Whole \ {start}
         /\ \A p \in Whole' : PairNo(p)' = PairNo(p)
  <1>1. /\ PairFields /\ PairItems /\ mode = "iter" /\ mode' = mode /\ buffer' = buffer
        /\ shape' = shape /\ UNCHANGED <<source, firsts, seconds>>
        /\ start' = start + 1 /\ made' = made /\ born' = born /\ promised' = promised
        /\ gone' = gone (+) SetToBag(Items(start, start + 1)) /\ start # buffer.len
    BY DEF PairInv, IterNext, clone_vars
  <1>2. start \in Nat /\ buffer.len \in Nat /\ start < buffer.len /\ BufferOK(buffer)
    BY <1>1, PairParts DEF PairFields
  <1>3. Whole = start .. buffer.len - 1 /\ Whole' = start + 1 .. buffer.len - 1
    BY <1>1 DEF Whole
  <1> DEFINE n == start + 1
  <1>4. /\ start .. n - 1 \subseteq Whole /\ Whole' = Whole \ (start .. n - 1)
        /\ start .. n - 1 = {start}
    BY <1>2, <1>3
  <1> HIDE DEF n
  <1>5. PairItems' /\ \A p \in Whole' : PairNo(p)' = PairNo(p)
    <2>1. gone' = gone (+) SetToBag(Items(start, n))
      BY <1>1 DEF n
    <2>2. QED
      BY <1>1, <1>4, <2>1, PairsGo
  <1>6. PairFields'
    <2>1. BufferOK(buffer)'
      BY <1>1, <1>2, SameShape
    <2>2. room' = 0 /\ room = 0
      BY <1>1 DEF room
    <2>3. QED
      BY <1>1, <1>2, <2>1, <2>2 DEF PairFields
  <1>7. QED
    BY <1>2, <1>4, <1>5, <1>6 DEF PairInv

\* clear, and the drops: all pairs go.
LEMMA AllGo ==
  ASSUME PairInv, Clear \/ Drop \/ IterDrop
  PROVE  /\ PairInv' /\ Whole' = {}
         /\ Clear => buffer'.len = 0 /\ buffer'.capacity = buffer.capacity
  <1>1. /\ PairFields /\ PairItems /\ mode \in {"vec", "iter"} /\ UNCHANGED Others
        /\ made' = made /\ born' = born
        /\ gone' = gone (+) SetToBag(Items(start, buffer.len))
        /\ \/ Clear /\ mode = "vec" /\ mode' = "vec" /\ promised' = promised
                    /\ buffer' = [buffer EXCEPT !.len = 0]
           \/ ~Clear /\ mode' = "dropped" /\ promised' = 0 /\ buffer' = buffer
    <2>1. CASE Clear
      BY <2>1 DEF Clear, PairInv, PairFields, clone_vars, Others
    <2>2. CASE ~Clear
      BY <2>2 DEF Drop, IterDrop, PairInv, PairFields, clone_vars, Others
    <2>3. QED
      BY <2>1, <2>2
  <1>2. /\ BufferOK(buffer) /\ start \in Nat /\ buffer.len \in Nat /\ buffer.capacity \in Nat
        /\ buffer.len <= buffer.capacity
        /\ mode = "vec" => start = 0
        /\ promised \in 0 .. room
    BY <1>1, PairParts DEF PairFields
  <1>3. /\ BufferOK(buffer')
        /\ Clear => buffer'.len = 0 /\ buffer'.capacity = buffer.capacity
    <2>1. 0 \in 0 .. buffer.capacity
      BY <1>2
    <2>2. CASE Clear
      <3>1. buffer' = [buffer EXCEPT !.len = 0]
        BY <1>1, <2>2
      <3>2. QED
        BY <1>2, <2>1, <3>1, OtherLength
    <2>3. CASE ~Clear
      BY <1>1, <1>2, <2>3
    <2>4. QED
      BY <2>2, <2>3
  <1>4. Whole' = {} /\ Whole = start .. buffer.len - 1
    <2>1. Whole = start .. buffer.len - 1
      BY <1>1, <1>2 DEF Whole
    <2>2. Whole' = {}
      BY <1>1, <1>3 DEF Whole
    <2>3. QED
      BY <2>1, <2>2
  <1>5. PairItems'
    <2>1. mode # "fill" /\ mode' # "fill" /\ Whole' = Whole \ (start .. buffer.len - 1)
      BY <1>1, <1>4
    <2>2. QED
      BY <1>1, <1>4, <2>1, PairsGo DEF Others
  <1>6. promised' \in 0 .. room'
    <2>1. CASE Clear
      <3>1. room = buffer.capacity - buffer.len /\ room' = buffer.capacity - 0
        BY <1>1, <1>3, <2>1 DEF room
      <3>2. QED
        BY <1>1, <1>2, <2>1, <3>1
    <2>2. CASE ~Clear
      BY <1>1, <2>2 DEF room
    <2>3. QED
      BY <2>1, <2>2
  <1>7. PairFields'
    <2>1. BufferOK(buffer)'
      BY <1>1, <1>3, SameShape DEF Others
    <2>2. QED
      BY <1>1, <1>2, <1>6, <2>1 DEF PairFields, Others
  <1>8. QED
    BY <1>3, <1>4, <1>5, <1>7 DEF PairInv

\* What push writes: a pair at the end, in a buffer that has room for it.
LEMMA WritesPair ==
  ASSUME shape \in Shapes, NEW b, BufferOK(b), b.len + 1 <= b.capacity, NEW q
  PROVE  LET d == push_unchecked(b, q)
         IN  /\ BufferOK(d) /\ d.len = b.len + 1 /\ d.capacity = b.capacity
             /\ IsPair(d, b.len, q)
             /\ \A side \in Sized, p \in 0 .. b.len - 1 : Item(d, side, p) = Item(b, side, p)
  <1> DEFINE n == b.len
             one == Write(b, "first", n, <<"first", q>>)
             two == Write(one, "second", n, <<"second", q>>)
             d == [two EXCEPT !.len = n + 1]
  <1>1. /\ n \in Nat /\ b.capacity \in Nat /\ n \in 0 .. b.capacity - 1 /\ n + 1 \in 0 .. b.capacity
        /\ 0 .. n - 1 \subseteq 0 .. b.capacity - 1 /\ n \notin 0 .. n - 1
    BY DEF BufferOK
  <1>2. "first" \in Sides /\ "second" \in Sides /\ "first" # "second" /\ Sized \subseteq Sides
    BY ShapeParts DEF Sides
  <1>3. /\ BufferOK(one) /\ one.len = n /\ one.capacity = b.capacity
        /\ "first" \in Sized => Item(one, "first", n) = <<"first", q>>
        /\ \A other \in Sized, r \in 0 .. b.capacity - 1 :
             other # "first" \/ r # n => Item(one, other, r) = Item(b, other, r)
    BY <1>1, <1>2, Writes
  <1> HIDE DEF one
  <1>4. /\ BufferOK(two) /\ two.len = n /\ two.capacity = b.capacity
        /\ "second" \in Sized => Item(two, "second", n) = <<"second", q>>
        /\ \A other \in Sized, r \in 0 .. b.capacity - 1 :
             other # "second" \/ r # n => Item(two, other, r) = Item(one, other, r)
    BY <1>1, <1>2, <1>3, Writes
  <1> HIDE DEF two
  <1>5. /\ BufferOK(d) /\ d.len = n + 1 /\ d.capacity = b.capacity
        /\ \A side, p : Item(d, side, p) = Item(two, side, p)
    BY <1>1, <1>4, OtherLength
  <1>6. push_unchecked(b, q) = d
    BY <1>4 DEF push_unchecked, one, two
  <1> HIDE DEF d
  <1>7. ASSUME NEW side \in Sized PROVE Item(d, side, n) = <<side, q>>
    <2>1. CASE side = "first"
      BY <1>1, <1>2, <1>3, <1>4, <1>5, <2>1
    <2>2. CASE side = "second"
      BY <1>4, <1>5, <2>2
    <2>3. QED
      BY <1>2, <2>1, <2>2 DEF Sides
  <1>8. ASSUME NEW side \in Sized, NEW p \in 0 .. n - 1 PROVE Item(d, side, p) = Item(b, side, p)
    BY <1>1, <1>3, <1>4, <1>5
  <1>9. QED
    BY <1>5, <1>6, <1>7, <1>8 DEF IsPair

LEMMA PushKeeps ==
  ASSUME PairInv, Push
  PROVE  /\ PairInv' /\ buffer'.len = buffer.len + 1
         /\ \A p \in {buffer.len} : PairNo(p)' = made + 1
         /\ \A p \in Whole : PairNo(p)' = PairNo(p)
         /\ room = 0 \/ room' = room - 1
  <1>1. PICK b \in make_room(1) : buffer' = push_unchecked(b, made + 1)
    BY DEF Push
  <1>2. /\ PairFields /\ PairItems /\ mode = "vec" /\ mode' = "vec" /\ UNCHANGED Others
        /\ made' = made + 1 /\ made < ItemsMax /\ gone' = gone
        /\ born' = born \union {<<side, made + 1>> : side \in Sized}
        /\ promised' = Larger(promised - 1, 0)
    BY DEF PairInv, Push, clone_vars, Others
  <1>3. /\ shape \in Shapes /\ made \in Nat /\ ItemsMax \in Nat /\ BufferOK(buffer)
        /\ buffer.len \in Nat /\ buffer.capacity \in Nat /\ promised \in Nat
        /\ InPairs /\ BornOK /\ Books(Held, born, gone) /\ Sized' = Sized
    BY <1>2, PairParts, SameShape DEF PairFields, PairItems, Others
  <1>4. /\ BufferOK(b) /\ b.len = buffer.len /\ buffer.len + 1 <= b.capacity
        /\ buffer.len + 1 <= buffer.capacity => b = buffer
        /\ buffer.capacity <= b.capacity
        /\ \A side \in Sized, p \in 0 .. buffer.len - 1 : Item(b, side, p) = Item(buffer, side, p)
    BY <1>3, MakesRoom
  <1>n. PICK n : n = buffer.len
    OBVIOUS
  <1>5. /\ BufferOK(buffer') /\ buffer'.len = n + 1 /\ buffer'.capacity = b.capacity
        /\ IsPair(buffer', n, made + 1)
        /\ \A side \in Sized, p \in 0 .. n - 1 : Item(buffer', side, p) = Item(buffer, side, p)
    <2>1. /\ BufferOK(buffer') /\ buffer'.len = b.len + 1 /\ buffer'.capacity = b.capacity
          /\ IsPair(buffer', b.len, made + 1)
          /\ \A side \in Sized, p \in 0 .. b.len - 1 : Item(buffer', side, p) = Item(b, side, p)
      BY <1>1, <1>3, <1>4, WritesPair
    <2>2. QED
      BY <1>4, <1>n, <2>1
  <1>6. Whole = 0 .. n - 1 /\ Whole' = 0 .. n /\ Whole' = Whole \union {n} /\ n \notin Whole
    <2>1. Whole = 0 .. n - 1 /\ Whole' = 0 .. (n + 1) - 1
      BY <1>2, <1>5, <1>n DEF Whole
    <2>2. QED
      BY <1>3, <1>n, <2>1
  <1>7. ASSUME NEW p \in Whole
        PROVE  PairNo(p)' = PairNo(p) /\ IsPair(buffer', p, PairNo(p)) /\ PairNo(p) \in 1 .. made
    BY <1>2, <1>3, <1>5, <1>6, SamePairs DEF InPairs, Others
  <1>8. PairNo(n)' = made + 1
    <2>1. made + 1 \in 1 .. ItemsMax
      BY <1>2, <1>3
    <2>2. PairAt(buffer', n) = made + 1
      BY <1>3, <1>5, <2>1, PairFound
    <2>3. QED
      BY <1>2, <2>2, SameShape DEF Others
  <1>9. InPairs'
    <2>1. ASSUME NEW p \in Whole' PROVE PairNo(p)' \in 1 .. made' /\ IsPair(buffer, p, PairNo(p))'
      <3>1. PICK q \in 1 .. made + 1 : PairNo(p)' = q /\ IsPair(buffer', p, q)
        BY <1>3, <1>5, <1>6, <1>7, <1>8
      <3>2. IsPair(buffer, p, q)'
        BY <1>2, <3>1, SameShape DEF Others
      <3>3. QED
        BY <1>2, <3>1, <3>2
    <2>2. ASSUME NEW p \in Whole', NEW r \in Whole', PairNo(p)' = PairNo(r)' PROVE p = r
      <3>1. made + 1 \notin 1 .. made
        BY <1>3
      <3>2. QED
        BY <1>3, <1>6, <1>7, <1>8, <2>2, <3>1 DEF InPairs
    <2>3. QED
      BY <2>1, <2>2 DEF InPairs
  <1>10. BornOK' /\ {<<side, made + 1>> : side \in Sized} \intersect born = {}
    <2>1. \A side : Clones(side) = 0 /\ Clones(side)' = 0
      BY <1>2, PairParts DEF Clones, Others
    <2>2. \A k \in born : k[1] \in Sized /\ k[2] \in 1 .. made
      BY <1>3, <2>1 DEF BornOK
    <2>3. 1 .. made' + 0 = 1 .. made \union {made + 1} /\ made + 1 \notin 1 .. made
      BY <1>2, <1>3
    <2>4. \A k \in born' : k[1] \in Sized /\ k[2] \in 1 .. made' + 0
      BY <1>2, <2>2, <2>3
    <2>5. BornOK'
      BY <1>3, <2>1, <2>4 DEF BornOK
    <2>6. QED
      BY <2>2, <2>3, <2>5
  <1>11. Held' = Held \union {<<side, made + 1>> : side \in Sized}
    <2>1. /\ \A side : Numbers(side) = {PairNo(p) : p \in Whole}
          /\ \A side : Numbers(side)' = {PairNo(p)' : p \in Whole'}
      BY <1>2 DEF Numbers
    <2>2. {PairNo(p)' : p \in Whole'} = {PairNo(p) : p \in Whole} \union {made + 1}
      BY <1>6, <1>7, <1>8
    <2>3. Held' = UNION {{<<side, q>> : q \in Numbers(side)'} : side \in Sized}
      BY <1>3 DEF Held
    <2>4. QED
      BY <2>1, <2>2, <2>3 DEF Held
  <1>12. PairItems'
    <2>1. Books(Held', born', gone')
      BY <1>2, <1>3, <1>10, <1>11, BooksIn
    <2>2. QED
      BY <1>2, <1>9, <1>10, <2>1 DEF PairItems
  <1>13. (room = 0 \/ room' = room - 1) /\ promised' \in 0 .. room'
    <2>1. /\ room = buffer.capacity - n /\ room' = b.capacity - (n + 1) /\ promised \in 0 .. room
          /\ b.capacity \in Nat /\ n \in Nat
      BY <1>2, <1>3, <1>4, <1>5, <1>n DEF room, PairFields, BufferOK
    <2>2. promised' \in 0 .. room'
      BY <1>2, <1>3, <1>4, <1>n, <2>1 DEF Larger
    <2>3. QED
      BY <1>3, <1>4, <1>n, <2>1, <2>2
  <1>14. PairFields'
    <2>1. BufferOK(buffer)' /\ made' \in 0 .. ItemsMax
      BY <1>2, <1>3, <1>5, SameShape DEF Others
    <2>2. QED
      BY <1>2, <1>13, <2>1 DEF PairFields, Others
  <1>15. QED
    BY <1>5, <1>7, <1>8, <1>12, <1>13, <1>14, <1>n DEF PairInv

\* clone_from, up to the first clone: all pairs go, and there is room.
LEMMA CloneFromKeeps ==
  ASSUME PairInv, NEW n \in 0 .. LenMax, CloneFrom(n)
  PROVE  PairInv'
  <1>1. /\ PairFields /\ PairItems /\ mode = "vec" /\ mode' = "fill" /\ made + n <= ItemsMax
        /\ shape' = shape /\ start' = start /\ firsts' = firsts /\ seconds' = seconds
        /\ source' = n /\ made' = made /\ born' = born /\ promised' = 0
        /\ gone' = gone (+) SetToBag(Items(0, buffer.len)) /\ n \in Nat
        /\ buffer' = IF buffer.capacity < n THEN with_capacity(n) ELSE [buffer EXCEPT !.len = 0]
    BY DEF PairInv, CloneFrom
  <1>2. /\ firsts = 0 /\ seconds = 0 /\ start = 0 /\ BufferOK(buffer)
        /\ shape \in Shapes /\ made \in Nat /\ buffer.capacity \in Nat
    BY <1>1, PairParts DEF PairFields
  <1>3. BufferOK(buffer') /\ n <= buffer'.capacity
    <2>1. CASE buffer.capacity < n
      BY <1>1, <2>1, NewBuffer
    <2>2. CASE ~(buffer.capacity < n)
      <3>1. 0 \in 0 .. buffer.capacity /\ buffer' = [buffer EXCEPT !.len = 0]
        BY <1>1, <1>2, <2>2
      <3>2. BufferOK(buffer') /\ buffer'.capacity = buffer.capacity
        BY <1>2, <3>1, OtherLength
      <3>3. QED
        BY <1>1, <1>2, <2>2, <3>2
    <2>3. QED
      BY <2>1, <2>2
  <1>4. PairFields'
    <2>1. BufferOK(buffer)'
      BY <1>1, <1>3, SameShape
    <2>2. room' = 0 /\ made' \in 0 .. ItemsMax
      BY <1>1 DEF room, PairFields
    <2>3. QED
      BY <1>1, <1>2, <1>3, <2>1, <2>2 DEF PairFields
  <1>5. PairItems'
    <2>1. Items(0, buffer.len) = Held
      <3>1. Whole = 0 .. buffer.len - 1
        BY <1>1, PairParts
      <3>2. Items(0, buffer.len) = {<<side, PairNo(p)>> : side \in Sized, p \in Whole}
        BY <1>1, <3>1, ItemsOfPairs DEF PairItems
      <3>3. \A side : Numbers(side) = {PairNo(p) : p \in Whole}
        BY <1>1 DEF Numbers
      <3>4. QED
        BY <3>2, <3>3 DEF Held
    <2>2. \A side : Clones(side)' = 0 /\ Clones(side) = 0
      BY <1>1, <1>2 DEF Clones
    <2>3. Held' = {}
      <3>1. \A side : Numbers(side)' = made + 1 .. made + 0
        BY <1>1, <2>2 DEF Numbers
      <3>2. QED
        BY <1>2, <3>1 DEF Held
    <2>4. Books(Held', born', gone')
      <3>1. Held \ Held = {} /\ Books(Held, born, gone)
        BY <1>1 DEF PairItems
      <3>2. Books(Held \ Held, born, gone (+) SetToBag(Held))
        BY <3>1, BooksOut
      <3>3. QED
        BY <1>1, <2>1, <2>3, <3>1, <3>2
    <2>5. InOrder'
      BY <2>2 DEF InOrder
    <2>6. BornOK'
      BY <1>1, <2>2, SameShape DEF BornOK, PairItems
    <2>7. QED
      BY <1>1, <2>4, <2>5, <2>6 DEF PairItems
  <1>6. QED
    BY <1>4, <1>5 DEF PairInv

\* A clone of the next item of a slice.
LEMMA CloneKeeps ==
  ASSUME PairInv, NEW side \in Sides, mode = "fill", mode' = "fill", Clones(side) < source,
         shape' = shape, source' = source, start' = start, made' = made, gone' = gone,
         promised' = promised,
         buffer' = Write(buffer, side, Clones(side), <<side, made + Clones(side) + 1>>),
         born' = born \union ({<<side, made + Clones(side) + 1>>} \cap (Sized \X Nat)),
         \A other \in Sides : Clones(other)' = IF other = side THEN Clones(side) + 1 ELSE Clones(other)
  PROVE  PairItems' /\ BufferOK(buffer)' /\ buffer'.capacity = buffer.capacity
  <1>n. PICK n : n = Clones(side)
    OBVIOUS
  <1>1. /\ PairFields /\ PairItems /\ shape \in Shapes /\ BufferOK(buffer) /\ made \in Nat
        /\ buffer.capacity \in Nat /\ InOrder /\ BornOK /\ Books(Held, born, gone)
    BY PairParts DEF PairInv, PairFields, PairItems
  <1>2. /\ \A other \in Sides : Clones(other) \in Nat /\ Clones(other) <= source
        /\ source \in Nat /\ source <= buffer.capacity
    BY <1>1 DEF PairFields, Clones, Sides
  <1>3. n \in 0 .. buffer.capacity - 1 /\ n \in Nat
    BY <1>1, <1>2, <1>n
  <1>4. Sized' = Sized /\ Sized \subseteq Sides
    BY <1>1, SameShape, ShapeParts
  <1> DEFINE new == <<side, made + n + 1>>
  <1>5. buffer' = Write(buffer, side, n, new) /\ born' = born \union ({new} \cap (Sized \X Nat))
    BY <1>n
  <1> HIDE DEF new
  <1>6. /\ BufferOK(buffer') /\ buffer'.capacity = buffer.capacity
        /\ side \in Sized => Item(buffer', side, n) = new
        /\ \A other \in Sized, r \in 0 .. buffer.capacity - 1 :
             other # side \/ r # n => Item(buffer', other, r) = Item(buffer, other, r)
    <2>1. LET d == Write(buffer, side, n, new)
          IN  /\ BufferOK(d) /\ d.capacity = buffer.capacity
              /\ side \in Sized => Item(d, side, n) = new
              /\ \A other \in Sized, r \in 0 .. buffer.capacity - 1 :
                   other # side \/ r # n => Item(d, other, r) = Item(buffer, other, r)
      BY <1>1, <1>3, Writes
    <2>2. QED
      BY <1>5, <2>1
  <1>7. InOrder'
    <2>1. ASSUME NEW other \in Sized,
                 NEW m, m = Clones(other)', NEW p \in 0 .. m - 1
          PROVE  Item(buffer', other, p) = <<other, made + p + 1>>
      <3>1. CASE other = side /\ p = n
        BY <1>6, <3>1 DEF new
      <3>2. CASE other # side \/ p # n
        <4>1. p \in 0 .. Clones(other) - 1 /\ p \in 0 .. buffer.capacity - 1
          BY <1>1, <1>2, <1>3, <1>4, <1>n, <2>1, <3>2
        <4>2. QED
          BY <1>1, <1>6, <3>2, <4>1 DEF InOrder
      <3>3. QED
        BY <3>1, <3>2
    <2>2. \A other \in Sized : \A p \in 0 .. Clones(other)' - 1 :
            Item(buffer', other, p) = <<other, made + p + 1>>
      BY <2>1
    <2>3. QED
      BY <1>4, <2>2, SameShape DEF InOrder
  <1>8. BornOK'
    <2>1. ASSUME NEW k \in born PROVE k[1] \in Sized' /\ k[2] \in 1 .. made' + Clones(k[1])'
      <3>1. PICK other \in Sized : k[1] = other
        BY <1>1 DEF BornOK
      <3>2. k[2] \in 1 .. made + Clones(other)
        BY <1>1, <3>1 DEF BornOK
      <3>3. \A c : c = Clones(other)' => c \in Nat /\ Clones(other) <= c
        BY <1>2, <1>4
      <3>4. \A c : c = Clones(other)' => k[2] \in 1 .. made' + c
        BY <1>1, <1>2, <1>4, <3>2, <3>3
      <3>5. Clones(k[1])' = Clones(other)'
        BY <3>1 DEF Clones
      <3>6. QED
        BY <1>4, <3>1, <3>4, <3>5
    <2>2. ASSUME side \in Sized
          PROVE  new[1] = side /\ side \in Sized' /\ new[2] \in 1 .. made' + Clones(side)'
      <3>1. new[1] = side /\ new[2] = made + n + 1
        BY DEF new
      <3>2. \A c : c = Clones(side)' => c = n + 1
        BY <1>n
      <3>3. \A c : c = Clones(side)' => new[2] \in 1 .. made' + c
        BY <1>1, <1>3, <3>1, <3>2
      <3>4. QED
        BY <1>4, <2>2, <3>1, <3>3
    <2>3. ASSUME NEW k \in born' PROVE k \in born \/ (k = new /\ side \in Sized)
      <3>1. new \in Sized \X Nat => side \in Sized
        BY DEF new
      <3>2. QED
        BY <1>5, <3>1
    <2>4. ASSUME NEW k \in born'
          PROVE  k[1] \in Sized' /\ k[2] \in 1 .. made' + IF k[1] = "first" THEN firsts' ELSE seconds'
      <3>1. CASE k \in born
        BY <2>1, <3>1 DEF Clones
      <3>2. CASE k = new /\ side \in Sized
        BY <2>2, <3>2 DEF Clones
      <3>3. QED
        BY <2>3, <3>1, <3>2
    <2>5. QED
      BY <2>4 DEF BornOK, Clones
  <1>9. Books(Held', born', gone')
    <2>1. new \notin born
      <3>1. new[1] = side /\ new[2] = made + n + 1
        BY DEF new
      <3>2. ASSUME new \in born PROVE FALSE
        <4>1. new[2] \in 1 .. made + Clones(side)
          BY <1>1, <3>1, <3>2 DEF BornOK
        <4>2. QED
          BY <1>1, <1>3, <1>n, <3>1, <4>1
      <3>3. QED
        BY <3>2
    <2>2. Held' = Held \union ({new} \cap (Sized \X Nat))
      <3>1. \A other \in Sized : /\ Numbers(other) = made + 1 .. made + Clones(other)
                                 /\ Numbers(other)' = made + 1 .. made + Clones(other)'
        BY DEF Numbers
      <3>2. ASSUME NEW other \in Sized
            PROVE  Numbers(other)' = Numbers(other) \union IF other = side THEN {made + n + 1} ELSE {}
        <4>1. \A c : c = Clones(other)' =>
                made + 1 .. made + c = (made + 1 .. made + Clones(other))
                  \union IF other = side THEN {made + n + 1} ELSE {}
          BY <1>1, <1>2, <1>3, <1>4, <1>n
        <4>2. QED
          BY <3>1, <4>1
      <3>3. Held' = UNION {{<<other, q>> : q \in Numbers(other)'} : other \in Sized}
        BY <1>4 DEF Held
      <3>4. {new} \cap (Sized \X Nat) = {<<other, q>> : other \in Sized \cap {side}, q \in {made + n + 1}}
        <4>1. made + n + 1 \in Nat
          BY <1>1, <1>3
        <4>2. QED
          BY <4>1 DEF new
      <3>5. QED
        BY <3>2, <3>3, <3>4 DEF Held
    <2>3. Books(Held \union ({new} \cap (Sized \X Nat)), born \union ({new} \cap (Sized \X Nat)), gone)
      <3>1. ({new} \cap (Sized \X Nat)) \intersect born = {}
        BY <2>1
      <3>2. QED
        BY <1>1, <3>1, BooksIn
    <2>4. QED
      BY <1>5, <2>2, <2>3
  <1>10. QED
    BY <1>6, <1>7, <1>8, <1>9, SameShape DEF PairItems

LEMMA CloneItemKeeps ==
  ASSUME PairInv, CloneFirst \/ CloneSecond
  PROVE  PairInv'
  <1>1. /\ PairFields /\ mode = "fill" /\ mode' = "fill" /\ made' = made /\ promised' = promised
        /\ shape' = shape /\ start' = start /\ source' = source /\ gone' = gone
    BY DEF PairInv, CloneFirst, CloneSecond
  <1>2. /\ firsts \in Nat /\ seconds \in Nat /\ source \in Nat /\ seconds <= firsts /\ firsts <= source
        /\ source <= buffer.capacity
    BY <1>1 DEF PairFields
  <1>3. CASE CloneFirst
    <2>1. /\ firsts < source /\ firsts' = firsts + 1 /\ seconds' = seconds /\ Clones("first") = firsts
          /\ \A other \in Sides : Clones(other)' = IF other = "first" THEN firsts + 1 ELSE Clones(other)
          /\ buffer' = Write(buffer, "first", firsts, <<"first", made + firsts + 1>>)
          /\ born' = born \union ({<<"first", made + firsts + 1>>} \cap (Sized \X Nat))
      BY <1>3 DEF CloneFirst, Clones
    <2>2. PairItems' /\ BufferOK(buffer)' /\ buffer'.capacity = buffer.capacity
      BY <1>1, <2>1, CloneKeeps DEF Sides
    <2>3. PairFields'
      BY <1>1, <1>2, <2>1, <2>2 DEF PairFields, room
    <2>4. QED
      BY <2>2, <2>3 DEF PairInv
  <1>4. CASE CloneSecond
    <2>1. /\ firsts = source /\ seconds < source /\ firsts' = firsts /\ seconds' = seconds + 1
          /\ Clones("second") = seconds
          /\ \A other \in Sides : Clones(other)' = IF other = "second" THEN seconds + 1 ELSE Clones(other)
          /\ buffer' = Write(buffer, "second", seconds, <<"second", made + seconds + 1>>)
          /\ born' = born \union ({<<"second", made + seconds + 1>>} \cap (Sized \X Nat))
      BY <1>4 DEF CloneSecond, Clones, Sides
    <2>2. PairItems' /\ BufferOK(buffer)' /\ buffer'.capacity = buffer.capacity
      BY <1>1, <2>1, CloneKeeps DEF Sides
    <2>3. PairFields'
      BY <1>1, <1>2, <2>1, <2>2 DEF PairFields, room
    <2>4. QED
      BY <2>2, <2>3 DEF PairInv
  <1>5. QED
    BY <1>3, <1>4

\* The whole pairs are kept, and the first items without a second one dropped.
LEMMA FillEndsKeeps ==
  ASSUME PairInv, FillEnds
  PROVE  /\ PairInv' /\ buffer'.len = seconds
         /\ \A p \in 0 .. seconds - 1 : PairNo(p)' = made + p + 1
  <1>1. /\ PairFields /\ PairItems /\ mode = "fill" /\ mode' = "vec" /\ shape' = shape
        /\ start' = start /\ born' = born /\ promised' = promised /\ made' = made + source
        /\ source' = 0 /\ firsts' = 0 /\ seconds' = 0
        /\ buffer' = [buffer EXCEPT !.len = seconds]
        /\ gone' = gone (+) SetToBag(UNION {ItemsAt(side, seconds, firsts) : side \in Sized \cap {"first"}})
    BY DEF PairInv, FillEnds
  <1>2. /\ shape \in Shapes /\ made \in Nat /\ ItemsMax \in Nat /\ BufferOK(buffer)
        /\ firsts \in Nat /\ seconds \in Nat /\ source \in Nat
        /\ seconds <= firsts /\ firsts <= source /\ source <= buffer.capacity
        /\ made + source <= ItemsMax /\ buffer.capacity \in Nat /\ promised = 0 /\ start = 0
        /\ InOrder /\ BornOK /\ Books(Held, born, gone)
    BY <1>1, PairParts DEF PairFields, PairItems, room
  <1>3. Sized' = Sized /\ Sized \subseteq Sides
    BY <1>1, <1>2, SameShape, ShapeParts
  <1>4. /\ BufferOK(buffer') /\ buffer'.len = seconds /\ buffer'.capacity = buffer.capacity
        /\ \A side, p : Item(buffer', side, p) = Item(buffer, side, p)
    <2>1. seconds \in 0 .. buffer.capacity
      BY <1>2
    <2>2. QED
      BY <1>1, <1>2, <2>1, OtherLength
  <1>5. /\ \A side \in Sides : Clones(side) = IF side = "first" THEN firsts ELSE seconds
        /\ \A side : Clones(side)' = 0
    BY <1>1 DEF Clones
  <1>6. Whole' = 0 .. seconds - 1
    BY <1>1, <1>4 DEF Whole
  <1>7. ASSUME NEW p \in 0 .. seconds - 1
        PROVE  PairNo(p)' = made + p + 1 /\ IsPair(buffer', p, made + p + 1)
               /\ made + p + 1 \in 1 .. made + source
    <2>1. \A side \in Sized : p \in 0 .. Clones(side) - 1
      BY <1>2, <1>3, <1>5
    <2>2. IsPair(buffer', p, made + p + 1)
      BY <1>2, <1>4, <2>1 DEF IsPair, InOrder
    <2>3. made + p + 1 \in 1 .. made + source /\ made + p + 1 \in 1 .. ItemsMax
      BY <1>2
    <2>4. PairAt(buffer', p) = made + p + 1
      BY <1>2, <2>2, <2>3, PairFound
    <2>5. QED
      BY <1>1, <2>2, <2>3, <2>4, SameShape
  <1>8. InPairs'
    <2>1. ASSUME NEW p \in Whole' PROVE PairNo(p)' \in 1 .. made' /\ IsPair(buffer, p, PairNo(p))'
      <3>1. PICK q \in 1 .. made + source : PairNo(p)' = q /\ IsPair(buffer', p, q)
        BY <1>6, <1>7
      <3>2. IsPair(buffer, p, q)'
        BY <1>1, <3>1, SameShape
      <3>3. QED
        BY <1>1, <3>1, <3>2
    <2>2. ASSUME NEW p \in Whole', NEW r \in Whole', PairNo(p)' = PairNo(r)' PROVE p = r
      <3>1. made + p + 1 = made + r + 1 /\ p \in Nat /\ r \in Nat
        BY <1>2, <1>6, <1>7, <2>2
      <3>2. QED
        BY <1>2, <3>1
    <2>3. QED
      BY <2>1, <2>2 DEF InPairs
  <1>9. BornOK'
    <2>1. ASSUME NEW k \in born PROVE k[1] \in Sized /\ k[2] \in 1 .. made' + 0
      <3>1. PICK side \in Sized : k[1] = side /\ k[2] \in 1 .. made + Clones(side)
        BY <1>2 DEF BornOK
      <3>2. Clones(side) \in Nat /\ Clones(side) <= source
        BY <1>2, <1>3, <1>5
      <3>3. QED
        BY <1>1, <1>2, <3>1, <3>2
    <2>2. QED
      BY <1>1, <1>3, <1>5, <2>1 DEF BornOK
  <1>10. Books(Held', born', gone')
    <2> DEFINE S == UNION {ItemsAt(side, seconds, firsts) : side \in Sized \cap {"first"}}
               T == {<<side, made + p + 1>> : side \in Sized \cap {"first"}, p \in seconds .. firsts - 1}
    <2>1. S = T
      <3>1. ASSUME "first" \in Sized, NEW p \in seconds .. firsts - 1
            PROVE  Item(buffer, "first", p) = <<"first", made + p + 1>>
        <4>1. p \in 0 .. Clones("first") - 1
          BY <1>2, <1>3, <1>5, <3>1
        <4>2. QED
          BY <1>2, <3>1, <4>1 DEF InOrder
      <3>2. ASSUME NEW side \in Sized \cap {"first"}
            PROVE  ItemsAt(side, seconds, firsts) = {<<side, made + p + 1>> : p \in seconds .. firsts - 1}
        BY <3>1 DEF ItemsAt
      <3>3. QED
        BY <3>2
    <2>2. Held = {<<side, q>> : side \in Sized, q \in made + 1 .. made + seconds} \union T
      <3>1. \A side \in Sized : Numbers(side) = made + 1 .. made + Clones(side)
        BY <1>1 DEF Numbers
      <3>2. ASSUME NEW side \in Sized
            PROVE  {<<side, q>> : q \in Numbers(side)}
                     = {<<side, q>> : q \in made + 1 .. made + seconds}
                         \union (IF side = "first" THEN {<<side, made + p + 1>> : p \in seconds .. firsts - 1} ELSE {})
        <4>1. Numbers(side) = (made + 1 .. made + seconds) \union
                 IF side = "first" THEN {made + p + 1 : p \in seconds .. firsts - 1} ELSE {}
          <5>1. {made + p + 1 : p \in seconds .. firsts - 1} = made + seconds + 1 .. made + firsts
            <6>1. ASSUME NEW q \in made + seconds + 1 .. made + firsts
                  PROVE  \E p \in seconds .. firsts - 1 : q = made + p + 1
              <7>1. q - made - 1 \in seconds .. firsts - 1 /\ q = made + (q - made - 1) + 1
                BY <1>2
              <7>2. QED
                BY <7>1
            <6>2. ASSUME NEW p \in seconds .. firsts - 1
                  PROVE  made + p + 1 \in made + seconds + 1 .. made + firsts
              BY <1>2
            <6>3. QED
              BY <6>1, <6>2
          <5>2. CASE side = "first"
            <6>1. Numbers(side) = made + 1 .. made + firsts
              BY <1>3, <1>5, <3>1, <5>2
            <6>2. \A q \in Int : q \in made + 1 .. made + firsts
                     <=> q \in made + 1 .. made + seconds \/ q \in made + seconds + 1 .. made + firsts
              BY <1>2
            <6>3. made + 1 .. made + firsts
                    = (made + 1 .. made + seconds) \union (made + seconds + 1 .. made + firsts)
              BY <6>2
            <6>4. Numbers(side) = (made + 1 .. made + seconds) \union {made + p + 1 : p \in seconds .. firsts - 1}
              BY <5>1, <6>1, <6>3
            <6>5. QED
              BY <5>2, <6>4
          <5>3. CASE side # "first"
            <6>1. Clones(side) = seconds
              BY <1>3, <1>5, <5>3
            <6>2. Numbers(side) = made + 1 .. made + seconds
              BY <3>1, <6>1
            <6>3. QED
              BY <5>3, <6>2
          <5>4. QED
            BY <5>2, <5>3
        <4>2. QED
          BY <4>1
      <3>3. QED
        BY <3>2 DEF Held
    <2>3. Held' = {<<side, q>> : side \in Sized, q \in made + 1 .. made + seconds}
      <3>1. \A side : Numbers(side)' = {PairNo(p)' : p \in Whole'}
        BY <1>1 DEF Numbers
      <3>2. {PairNo(p)' : p \in Whole'} = made + 1 .. made + seconds
        <4>1. ASSUME NEW q \in made + 1 .. made + seconds
              PROVE  \E p \in Whole' : q = PairNo(p)'
          <5>1. q - made - 1 \in 0 .. seconds - 1 /\ q = made + (q - made - 1) + 1
            BY <1>2
          <5>2. QED
            BY <1>6, <1>7, <5>1
        <4>2. ASSUME NEW p \in Whole' PROVE PairNo(p)' \in made + 1 .. made + seconds
          BY <1>2, <1>6, <1>7
        <4>3. QED
          BY <4>1, <4>2
      <3>3. Held' = UNION {{<<side, q>> : q \in Numbers(side)'} : side \in Sized}
        BY <1>3 DEF Held
      <3>4. QED
        BY <3>1, <3>2, <3>3
    <2>4. Held' = Held \ T /\ T \subseteq Held
      <3>1. \A p \in seconds .. firsts - 1 : made + p + 1 \notin made + 1 .. made + seconds
        BY <1>2
      <3>2. QED
        BY <2>2, <2>3, <3>1
    <2> HIDE DEF S, T
    <2>5. Books(Held \ T, born, gone (+) SetToBag(T))
      BY <1>2, <2>4, BooksOut
    <2>6. gone' = gone (+) SetToBag(T)
      BY <1>1, <2>1 DEF S
    <2>7. QED
      BY <1>1, <2>4, <2>5, <2>6
  <1>11. PairItems'
    BY <1>1, <1>8, <1>9, <1>10 DEF PairItems
  <1>12. PairFields'
    <2>1. BufferOK(buffer)'
      BY <1>1, <1>4, SameShape
    <2>2. room' = buffer.capacity - seconds
      BY <1>1, <1>4 DEF room
    <2>3. 0 \in 0 .. room' /\ made' \in 0 .. ItemsMax
      BY <1>1, <1>2, <2>2
    <2>4. QED
      BY <1>1, <1>2, <2>1, <2>3 DEF PairFields
  <1>13. QED
    BY <1>4, <1>7, <1>11, <1>12 DEF PairInv

LEMMA InitPairInv == Init => PairInv
  <1> SUFFICES ASSUME Init PROVE PairInv
    OBVIOUS
  <1>1. PICK c \in 0 .. LenMax : buffer = with_capacity(c)
    BY DEF Init
  <1>2. /\ shape \in Shapes /\ promised = 0 /\ mode = "vec" /\ start = 0 /\ source = 0
        /\ firsts = 0 /\ seconds = 0 /\ made = 0 /\ born = {} /\ gone = EmptyBag
    BY DEF Init
  <1>3. c \in Nat /\ BufferOK(buffer) /\ buffer.len = 0 /\ buffer.capacity = c
    BY <1>1, NewBuffer, BoundsAssumption
  <1>4. PairFields
    BY <1>2, <1>3, BoundsAssumption DEF PairFields, room
  <1>5. Whole = {}
    BY <1>2, <1>3 DEF Whole
  <1>6. Held = {}
    BY <1>2, <1>5 DEF Held, Numbers
  <1>7. Books(Held, born, gone)
    BY <1>2, <1>6 DEF Books, EmptyBag, SetToBag
  <1>8. QED
    BY <1>2, <1>4, <1>5, <1>7 DEF PairInv, PairItems, InPairs, BornOK

LEMMA StepPairInv == PairInv /\ [Next]_vars => PairInv'
  <1> SUFFICES ASSUME PairInv, [Next]_vars PROVE PairInv'
    OBVIOUS
  <1>1. CASE Next
    BY <1>1, EnsureRoomKeeps, PushKeeps, LastGoes, AllGo, CloneFromKeeps, CloneItemKeeps,
       FillEndsKeeps, IntoKeeps, FirstGoes DEF Next
  <1>2. CASE UNCHANGED vars
    <2>1. UNCHANGED <<shape, buffer, promised, mode, start, source, firsts, seconds, made, born, gone>>
      BY <1>2 DEF vars, clone_vars
    <2>2. /\ Sized' = Sized /\ \A side, p : Item(buffer, side, p)' = Item(buffer, side, p)
          /\ \A p : PairNo(p)' = PairNo(p)
          /\ \A p, q : IsPair(buffer, p, q)' <=> IsPair(buffer, p, q)
          /\ BufferOK(buffer)' <=> BufferOK(buffer)
      BY <2>1, SameShape DEF PairNo
    <2>3. Whole' = Whole /\ room' = room /\ \A side : Clones(side)' = Clones(side)
      BY <2>1 DEF Whole, room, Clones
    <2>4. PairFields'
      BY <2>1, <2>2, <2>3 DEF PairInv, PairFields
    <2>5. Held' = Held
      BY <2>1, <2>2, <2>3 DEF Held, Numbers
    <2>6. InPairs => InPairs'
      BY <2>1, <2>2, <2>3 DEF InPairs
    <2>7. InOrder => InOrder'
      BY <2>1, <2>2, <2>3 DEF InOrder
    <2>8. BornOK => BornOK'
      BY <2>1, <2>2, <2>3 DEF BornOK
    <2>9. QED
      BY <2>1, <2>4, <2>5, <2>6, <2>7, <2>8 DEF PairInv, PairItems
  <1>3. QED
    BY <1>1, <1>2

LEMMA InvOwnedOnce == PairInv => OwnedOnce
  <1> SUFFICES ASSUME PairInv, NEW side \in Sized
               PROVE  /\ \A p \in Owned(side) : Item(buffer, side, p) \in born
                      /\ \A q \in 1 .. ItemsMax :
                           Cardinality({p \in Owned(side) : Item(buffer, side, p) = <<side, q>>})
                             + TimesGone(<<side, q>>)
                           = IF <<side, q>> \in born THEN 1 ELSE 0
    BY DEF OwnedOnce
  <1>1. PairFields /\ Books(Held, born, gone) /\ side \in Sides
    BY ShapeParts, PairParts DEF PairInv, PairItems
  <1>2. PICK No : /\ \A p \in Owned(side) : Item(buffer, side, p) = <<side, No[p]>>
                  /\ Numbers(side) = {No[p] : p \in Owned(side)}
                  /\ \A p, r \in Owned(side) : No[p] = No[r] => p = r
    <2>1. CASE mode = "fill"
      <3> DEFINE f == [p \in Owned(side) |-> made + p + 1]
      <3>1. /\ made \in Nat /\ Clones(side) \in Nat /\ Owned(side) = 0 .. Clones(side) - 1
            /\ Numbers(side) = made + 1 .. made + Clones(side)
        BY <1>1, <2>1, PairParts DEF Owned, Clones, Numbers, PairFields
      <3>2. \A p \in Owned(side) : Item(buffer, side, p) = <<side, f[p]>>
        BY <2>1, <3>1 DEF PairInv, PairItems, InOrder
      <3>3. ASSUME NEW q \in Numbers(side) PROVE \E p \in Owned(side) : q = f[p]
        <4>1. q - made - 1 \in Owned(side) /\ q = made + (q - made - 1) + 1
          BY <3>1
        <4>2. QED
          BY <4>1
      <3>4. ASSUME NEW p \in Owned(side) PROVE f[p] \in Numbers(side)
        BY <3>1
      <3>5. \A p, r \in Owned(side) : f[p] = f[r] => p = r
        BY <3>1
      <3> HIDE DEF f
      <3>6. QED
        BY <3>2, <3>3, <3>4, <3>5
    <2>2. CASE mode # "fill"
      <3> DEFINE f == [p \in Whole |-> PairNo(p)]
      <3>1. Owned(side) = Whole /\ Numbers(side) = {PairNo(p) : p \in Whole} /\ InPairs
        BY <2>2 DEF Owned, Whole, Numbers, PairInv, PairItems
      <3>2. \A p \in Whole : f[p] = PairNo(p)
        OBVIOUS
      <3> HIDE DEF f
      <3>3. QED
        BY <3>1, <3>2 DEF InPairs, IsPair
    <2>3. QED
      BY <2>1, <2>2
  <1>3. \A q : <<side, q>> \in Held <=> q \in Numbers(side)
    BY DEF Held
  <1>4. ASSUME NEW p \in Owned(side) PROVE Item(buffer, side, p) \in born
    BY <1>1, <1>2, <1>3 DEF Books
  <1>5. ASSUME NEW q \in 1 .. ItemsMax
        PROVE  Cardinality({p \in Owned(side) : Item(buffer, side, p) = <<side, q>>})
                 + TimesGone(<<side, q>>)
               = IF <<side, q>> \in born THEN 1 ELSE 0
    <2> DEFINE P == {p \in Owned(side) : Item(buffer, side, p) = <<side, q>>}
               k == <<side, q>>
    <2>1. P = {p \in Owned(side) : No[p] = q}
      BY <1>2
    <2>2. k \in Held => \E p : P = {p}
      <3>1. ASSUME q \in Numbers(side) PROVE \E p : P = {p}
        <4>1. PICK p \in Owned(side) : No[p] = q
          BY <1>2, <3>1
        <4>2. P = {p}
          BY <1>2, <2>1, <4>1
        <4>3. QED
          BY <4>2
      <3>2. QED
        BY <1>3, <3>1
    <2>3. k \notin Held => P = {}
      BY <1>2, <1>3, <2>1
    <2> HIDE DEF P, k
    <2>4. Cardinality(P) + (IF BagIn(k, gone) THEN gone[k] ELSE 0) = IF k \in born THEN 1 ELSE 0
      <3>1. /\ k \in Held => k \in born /\ ~BagIn(k, gone)
            /\ k \notin Held => (k \in born <=> BagIn(k, gone))
            /\ BagIn(k, gone) => gone[k] = 1
        BY <1>1, BooksOnce
      <3>2. CASE k \in Held
        <4>1. Cardinality(P) = 1
          BY <2>2, <3>2, FS_Singleton
        <4>2. QED
          BY <3>1, <3>2, <4>1
      <3>3. CASE k \notin Held
        <4>1. Cardinality(P) = 0
          BY <2>3, <3>3, FS_EmptySet
        <4>2. QED
          BY <3>1, <3>3, <4>1
      <3>4. QED
        BY <3>2, <3>3
    <2>5. QED
      BY <2>4 DEF P, k, TimesGone
  <1>6. QED
    BY <1>4, <1>5

-----------------------------------------------------------------------------
(* One storage of a SplitPair *)

Ids(s) == {s.items[i] : i \in 1 .. Len(s.items)}

\* A storage of items that are numbered up to n, none of them twice.
Stored(s, n) ==
  /\ s = [items |-> s.items, capacity |-> s.capacity]
  /\ s.items \in Seq(Nat) /\ s.capacity \in Nat /\ Len(s.items) <= s.capacity
  /\ \A i \in 1 .. Len(s.items) : s.items[i] \in 1 .. n
  /\ \A i, j \in 1 .. Len(s.items) : s.items[i] = s.items[j] => i = j

LEMMA StoredLength ==
  ASSUME NEW n \in Nat, NEW s, Stored(s, n)
  PROVE  /\ Len(s.items) \in Nat /\ s.capacity \in Nat /\ Len(s.items) <= s.capacity
         /\ s.items # <<>> <=> Len(s.items) > 0
         /\ s.items = <<>> => Ids(s) = {}
         /\ Ids(s) \subseteq 1 .. n
  BY DEF Stored, Ids

LEMMA StoredMore ==
  ASSUME NEW n \in Nat, NEW m \in Nat, n <= m, NEW s, Stored(s, n)
  PROVE  Stored(s, m)
  <1>1. \A i \in 1 .. Len(s.items) : s.items[i] \in 1 .. m
    BY DEF Stored
  <1>2. QED
    BY <1>1 DEF Stored

LEMMA StorageParts ==
  ASSUME NEW r, NEW c, NEW t, t = [items |-> r, capacity |-> c]
  PROVE  t.items = r /\ t.capacity = c /\ t = [items |-> t.items, capacity |-> t.capacity]
  OBVIOUS

LEMMA LastTaken ==
  ASSUME NEW n \in Nat, NEW s, Stored(s, n), s.items # <<>>, NEW t, t = Split!Popped(s)
  PROVE  /\ Stored(t, n) /\ t.capacity = s.capacity
         /\ Len(t.items) = Len(s.items) - 1
         /\ \A i \in 1 .. Len(s.items) - 1 : t.items[i] = s.items[i]
         /\ s.items[Len(s.items)] \in Ids(s)
         /\ Ids(t) = Ids(s) \ {s.items[Len(s.items)]}
  <1> DEFINE l == Len(s.items)
             r == SubSeq(s.items, 1, l - 1)
  <1>1. s.items \in Seq(Nat) /\ l \in Nat /\ l > 0
    BY StoredLength DEF Stored
  <1>2. r \in Seq(Nat) /\ Len(r) = l - 1 /\ \A i \in 1 .. l - 1 : r[i] = s.items[i]
    <2>1. \A i \in 1 .. l - 1 : s.items[i] \in Nat
      BY <1>1
    <2>2. /\ r \in Seq(Nat) /\ Len(r) = IF 1 <= l - 1 THEN l - 1 - 1 + 1 ELSE 0
          /\ \A i \in 1 .. l - 1 - 1 + 1 : r[i] = s.items[1 + i - 1]
      <3>1. l - 1 \in Int
        BY <1>1
      <3>2. QED
        BY <2>1, <3>1, SubSeqProperties
    <2>3. QED
      BY <1>1, <2>2
  <1>3. t = [items |-> r, capacity |-> s.capacity]
    BY DEF Split!Popped, Stored
  <1> HIDE DEF r
  <1>4. t.items = r /\ t.capacity = s.capacity /\ t = [items |-> t.items, capacity |-> t.capacity]
    BY <1>3, StorageParts
  <1>5. Stored(t, n)
    <2>1. \A i \in 1 .. l - 1 : i \in 1 .. l /\ r[i] = s.items[i]
      <3>1. \A i \in 1 .. l - 1 : i \in 1 .. l
        BY <1>1
      <3>2. QED
        BY <1>2, <3>1
    <2>2. \A i \in 1 .. l - 1 : r[i] \in 1 .. n
      BY <2>1 DEF Stored
    <2>3. \A i, j \in 1 .. l - 1 : r[i] = r[j] => i = j
      BY <2>1 DEF Stored
    <2>4. l - 1 <= s.capacity /\ s.capacity \in Nat
      BY <1>1 DEF Stored
    <2>5. QED
      BY <1>2, <1>4, <2>2, <2>3, <2>4 DEF Stored
  <1>6. s.items[l] \in Ids(s)
    BY <1>1 DEF Ids
  <1>7. Ids(t) = {s.items[i] : i \in 1 .. l - 1}
    BY <1>2, <1>4 DEF Ids
  <1>8. \A i \in 1 .. l : i \in 1 .. l - 1 <=> s.items[i] # s.items[l]
    BY <1>1 DEF Stored
  <1>9. Ids(t) = Ids(s) \ {s.items[l]}
    <2>1. \A i \in 1 .. l - 1 : i \in 1 .. l
      BY <1>1
    <2>2. Ids(s) = {s.items[i] : i \in 1 .. l}
      BY DEF Ids
    <2>3. QED
      BY <1>7, <1>8, <2>1, <2>2
  <1>10. QED
    BY <1>2, <1>4, <1>5, <1>6, <1>9

LEMMA FirstTaken ==
  ASSUME NEW n \in Nat, NEW s, Stored(s, n), s.items # <<>>,
         NEW t, t = [s EXCEPT !.items = Tail(@)]
  PROVE  /\ Stored(t, n) /\ t.capacity = s.capacity
         /\ Len(t.items) = Len(s.items) - 1
         /\ \A i \in 1 .. Len(s.items) - 1 : t.items[i] = s.items[i + 1]
         /\ Head(s.items) \in Ids(s)
         /\ Ids(t) = Ids(s) \ {Head(s.items)}
  <1> DEFINE l == Len(s.items)
             r == Tail(s.items)
  <1>1. s.items \in Seq(Nat) /\ l \in Nat /\ l > 0
    BY StoredLength DEF Stored
  <1>2. /\ r \in Seq(Nat) /\ Len(r) = l - 1 /\ \A i \in 1 .. l - 1 : r[i] = s.items[i + 1]
        /\ Head(s.items) = s.items[1]
    BY <1>1, HeadTailProperties
  <1>3. t = [items |-> r, capacity |-> s.capacity]
    BY DEF Stored
  <1> HIDE DEF r
  <1>4. t.items = r /\ t.capacity = s.capacity /\ t = [items |-> t.items, capacity |-> t.capacity]
    BY <1>3, StorageParts
  <1>5. Stored(t, n)
    <2>1. \A i \in 1 .. l - 1 : i + 1 \in 1 .. l
      BY <1>1
    <2>2. QED
      BY <1>1, <1>2, <1>4, <2>1 DEF Stored
  <1>6. Head(s.items) \in Ids(s)
    BY <1>1, <1>2 DEF Ids
  <1>7. Ids(t) = {s.items[i + 1] : i \in 1 .. l - 1}
    BY <1>2, <1>4 DEF Ids
  <1>8. {s.items[i + 1] : i \in 1 .. l - 1} = {s.items[i] : i \in 2 .. l}
    <2>1. ASSUME NEW i \in 2 .. l PROVE \E j \in 1 .. l - 1 : s.items[i] = s.items[j + 1]
      <3>1. i - 1 \in 1 .. l - 1 /\ (i - 1) + 1 = i
        BY <1>1
      <3>2. QED
        BY <3>1
    <2>2. \A j \in 1 .. l - 1 : j + 1 \in 2 .. l
      BY <1>1
    <2>3. QED
      BY <2>1, <2>2
  <1>9. \A i \in 1 .. l : i \in 2 .. l <=> s.items[i] # s.items[1]
    BY <1>1 DEF Stored
  <1>10. Ids(t) = Ids(s) \ {s.items[1]}
    <2>1. \A i \in 2 .. l : i \in 1 .. l
      BY <1>1
    <2>2. Ids(s) = {s.items[i] : i \in 1 .. l}
      BY DEF Ids
    <2>3. QED
      BY <1>7, <1>8, <1>9, <2>1, <2>2
  <1>11. QED
    BY <1>2, <1>4, <1>5, <1>6, <1>10

LEMMA ItemPushed ==
  ASSUME NEW n \in Nat, NEW s, Stored(s, n), Len(s.items) < s.capacity,
         NEW t, t = Split!Pushed(s, n + 1)
  PROVE  /\ Stored(t, n + 1) /\ t.capacity = s.capacity
         /\ t.items = Append(s.items, n + 1) /\ Len(t.items) = Len(s.items) + 1
         /\ Ids(t) = Ids(s) \union {n + 1}
  <1> DEFINE l == Len(s.items)
             r == Append(s.items, n + 1)
  <1>1. s.items \in Seq(Nat) /\ l \in Nat
    BY StoredLength DEF Stored
  <1>2. /\ r \in Seq(Nat) /\ Len(r) = l + 1 /\ r[l + 1] = n + 1
        /\ \A i \in 1 .. l : r[i] = s.items[i]
    BY <1>1, AppendProperties
  <1>3. t = [items |-> r, capacity |-> s.capacity]
    BY DEF Split!Pushed, Stored
  <1> HIDE DEF r
  <1>4. t.items = r /\ t.capacity = s.capacity /\ t = [items |-> t.items, capacity |-> t.capacity]
    BY <1>3, StorageParts
  <1>5. \A i \in 1 .. l + 1 : i \in 1 .. l \/ i = l + 1
    BY <1>1
  <1>6. \A i \in 1 .. l : s.items[i] \in 1 .. n
    BY DEF Stored
  <1>7. Stored(t, n + 1)
    <2>1. \A i \in 1 .. l + 1 : r[i] \in 1 .. n + 1
      <3>1. n + 1 \in 1 .. n + 1 /\ \A q \in 1 .. n : q \in 1 .. n + 1
        OBVIOUS
      <3>2. \A i \in 1 .. l : r[i] \in 1 .. n + 1
        BY <1>2, <1>6, <3>1
      <3>3. QED
        BY <1>2, <1>5, <3>1, <3>2
    <2>2. \A i, j \in 1 .. l + 1 : r[i] = r[j] => i = j
      <3>1. \A i, j \in 1 .. l : r[i] = r[j] => i = j
        BY <1>2 DEF Stored
      <3>2. \A i \in 1 .. l : r[i] # r[l + 1]
        BY <1>2, <1>6
      <3>3. QED
        BY <1>5, <3>1, <3>2
    <2>3. l + 1 <= s.capacity /\ s.capacity \in Nat
      BY <1>1 DEF Stored
    <2>4. QED
      BY <1>2, <1>4, <2>1, <2>2, <2>3 DEF Stored
  <1>8. Ids(t) = Ids(s) \union {n + 1}
    <2>1. \A i \in 1 .. l : i \in 1 .. l + 1
      BY <1>1
    <2>2. l + 1 \in 1 .. l + 1
      BY <1>1
    <2>3. Ids(s) = {s.items[i] : i \in 1 .. l} /\ Ids(t) = {r[i] : i \in 1 .. l + 1}
      BY <1>2, <1>4 DEF Ids
    <2>4. QED
      BY <1>2, <1>5, <2>1, <2>2, <2>3
  <1>9. QED
    BY <1>2, <1>4, <1>7, <1>8 DEF r

LEMMA AllCleared ==
  ASSUME NEW n \in Nat, NEW s, Stored(s, n), NEW t, t = Split!Cleared(s)
  PROVE  /\ Stored(t, n) /\ t.capacity = s.capacity
         /\ t.items = <<>> /\ Len(t.items) = 0 /\ Ids(t) = {}
  <1>1. t = [items |-> <<>>, capacity |-> s.capacity] /\ s.capacity \in Nat
    BY DEF Split!Cleared, Stored
  <1>2. QED
    BY <1>1 DEF Stored, Ids

LEMMA WasCloned ==
  ASSUME NEW n \in Nat, NEW s, Stored(s, n), made \in Nat, NEW k \in Nat,
         NEW t, t = Split!Cloned(s, k)
  PROVE  /\ Stored(t, made + k) /\ t.items = [i \in 1 .. k |-> made + i]
         /\ Len(t.items) = k /\ Ids(t) = made + 1 .. made + k
  <1> DEFINE r == [i \in 1 .. k |-> made + i]
             c == IF s.capacity < k THEN k ELSE s.capacity
  <1>1. t = [items |-> r, capacity |-> c]
    BY DEF Split!Cloned
  <1>2. r \in Seq(Nat) /\ Len(r) = k /\ \A i \in 1 .. k : r[i] = made + i
    <2>1. r \in [1 .. k -> Nat]
      OBVIOUS
    <2>2. QED
      BY <2>1
  <1>3. c \in Nat /\ k <= c
    BY DEF Stored
  <1> HIDE DEF r, c
  <1>4. t.items = r /\ t.capacity = c
    BY <1>1
  <1>5. Stored(t, made + k)
    BY <1>1, <1>2, <1>3, <1>4 DEF Stored
  <1>6. Ids(t) = {made + i : i \in 1 .. k}
    BY <1>2, <1>4 DEF Ids
  <1>7. {made + i : i \in 1 .. k} = made + 1 .. made + k
    <2>1. ASSUME NEW q \in made + 1 .. made + k PROVE \E i \in 1 .. k : q = made + i
      <3>1. q - made \in 1 .. k /\ q = made + (q - made)
        OBVIOUS
      <3>2. QED
        BY <3>1
    <2>2. \A i \in 1 .. k : made + i \in made + 1 .. made + k
      OBVIOUS
    <2>3. QED
      BY <2>1, <2>2
  <1>8. QED
    BY <1>2, <1>4, <1>5, <1>6, <1>7 DEF r

LEMMA RoomMade ==
  ASSUME NEW n \in Nat, NEW s, Stored(s, n), NEW k \in Nat, NEW max \in Nat,
         NEW t \in Split!ensure_room(s, k, max)
  PROVE  /\ Stored(t, n) /\ t.items = s.items
         /\ t.capacity >= s.capacity /\ t.capacity >= Len(s.items) + k
  <1>1. Len(s.items) \in Nat /\ s.capacity \in Nat
    BY StoredLength
  <1>2. CASE Len(s.items) + k <= s.capacity
    BY <1>1, <1>2 DEF Split!ensure_room
  <1>3. CASE Len(s.items) + k > s.capacity
    <2>1. PICK c \in Len(s.items) + k .. max : t = [s EXCEPT !.capacity = c]
      BY <1>1, <1>3 DEF Split!ensure_room
    <2>2. t = [items |-> s.items, capacity |-> c] /\ c \in Nat
      BY <1>1, <2>1 DEF Stored
    <2>3. QED
      BY <1>1, <1>3, <2>1, <2>2 DEF Stored
  <1>4. QED
    BY <1>1, <1>2, <1>3

-----------------------------------------------------------------------------
(* The invariant of a SplitPair *)

\* Items of the two sides, by their numbers.
Both(A, B) == {<<"first", q>> : q \in A} \union {<<"second", q>> : q \in B}

SplitFields ==
  /\ mode \in {"vec", "fill", "parts", "iter", "dropped"}
  /\ made \in Nat /\ source \in Nat /\ made + source <= ItemsMax
  /\ mode # "fill" => source = 0
  /\ Stored(first, made + source) /\ Stored(second, made)
  /\ promised \in Nat /\ promised <= Split!room

\* The two storages are in step, but for what clone_from does to one of them
\* before the other, and for what the caller does with the parts.
Partnered ==
  /\ mode = "fill" => first.items = [i \in 1 .. source |-> made + i]
  /\ mode \in {"vec", "iter"} => first.items = second.items
  /\ mode = "parts" =>
       \A i \in 1 .. Len(first.items) : i <= Len(second.items) => first.items[i] = second.items[i]

SplitBooks ==
  /\ born \subseteq Both(1 .. made + source, 1 .. made)
  /\ Books(Both(Ids(first), Ids(second)), born, gone)

SplitInv == SplitFields /\ Partnered /\ SplitBooks

LEMMA SplitItems ==
  ASSUME NEW s
  PROVE  /\ Split!ItemsOf("first", s) = {<<"first", q>> : q \in Ids(s)}
         /\ Split!ItemsOf("second", s) = {<<"second", q>> : q \in Ids(s)}
  BY DEF Split!ItemsOf, Split!Tagged, Ids

LEMMA SplitLeave ==
  ASSUME NEW S
  PROVE  Split!Leave(S) <=> gone' = gone (+) SetToBag(S)
  BY DEF Split!Leave, Split!(+), (+), Split!SetToBag, SetToBag

LEMMA UpTo ==
  ASSUME NEW m \in Nat, NEW n \in Nat, NEW k \in Nat, NEW l \in Nat, k >= m, k + l >= m + n
  PROVE  1 .. m + n \subseteq 1 .. k + l /\ 1 .. m \subseteq 1 .. k
  OBVIOUS

\* Items leave the two storages.
LEMMA SplitGo ==
  ASSUME SplitFields, SplitBooks, NEW A, A \subseteq Ids(first), NEW B, B \subseteq Ids(second),
         Split!Leave(Both(A, B)), born' = born, made' >= made, made' \in Nat, source' \in Nat,
         made' + source' >= made + source,
         Ids(first') = Ids(first) \ A, Ids(second') = Ids(second) \ B
  PROVE  SplitBooks'
  <1>1. Both(A, B) \subseteq Both(Ids(first), Ids(second))
    BY DEF Both
  <1>2. Both(Ids(first'), Ids(second')) = Both(Ids(first), Ids(second)) \ Both(A, B)
    BY DEF Both
  <1>3. Books(Both(Ids(first), Ids(second)) \ Both(A, B), born, gone (+) SetToBag(Both(A, B)))
    BY <1>1, BooksOut DEF SplitBooks
  <1>4. Both(1 .. made + source, 1 .. made) \subseteq Both(1 .. made' + source', 1 .. made')
    <2>1. 1 .. made + source \subseteq 1 .. made' + source' /\ 1 .. made \subseteq 1 .. made'
      BY UpTo DEF SplitFields
    <2>2. QED
      BY <2>1 DEF Both
  <1>5. gone' = gone (+) SetToBag(Both(A, B))
    BY SplitLeave
  <1>6. born' \subseteq Both(1 .. made' + source', 1 .. made')
    BY <1>4 DEF SplitBooks
  <1>7. Books(Both(Ids(first'), Ids(second')), born', gone')
    BY <1>2, <1>3, <1>5
  <1>8. QED
    BY <1>6, <1>7 DEF SplitBooks

\* What a storage still holds after all of it has left.
LEMMA SplitAllGo ==
  ASSUME SplitFields, SplitBooks, first' = Split!Cleared(first), second' = Split!Cleared(second),
         Split!Leave(Split!ItemsOf("first", first) \union Split!ItemsOf("second", second)),
         born' = born, made' >= made, made' \in Nat, source' \in Nat,
         made' + source' >= made + source
  PROVE  /\ SplitBooks'
         /\ Stored(first', made' + source') /\ Stored(second', made')
         /\ first'.items = <<>> /\ second'.items = <<>>
         /\ Len(first'.items) = 0 /\ Len(second'.items) = 0
         /\ first'.capacity = first.capacity /\ second'.capacity = second.capacity
  <1>1. made \in Nat /\ source \in Nat /\ made + source \in Nat
    BY DEF SplitFields
  <1>2. /\ Stored(first', made + source) /\ first'.items = <<>> /\ Len(first'.items) = 0
        /\ Ids(first') = {} /\ first'.capacity = first.capacity
    BY <1>1, AllCleared DEF SplitFields
  <1>3. /\ Stored(second', made) /\ second'.items = <<>> /\ Len(second'.items) = 0
        /\ Ids(second') = {} /\ second'.capacity = second.capacity
    BY <1>1, AllCleared DEF SplitFields
  <1>4. Stored(first', made' + source') /\ Stored(second', made')
    BY <1>1, <1>2, <1>3, StoredMore
  <1>5. Split!Leave(Both(Ids(first), Ids(second)))
    BY SplitItems DEF Both
  <1>6. SplitBooks'
    BY <1>2, <1>3, <1>5, SplitGo
  <1>7. QED
    BY <1>2, <1>3, <1>4, <1>6

\* Room, as it is while the SplitPair is whole.
LEMMA SplitRoom ==
  ASSUME SplitFields
  PROVE  /\ mode = "vec" => Split!room = Split!Smaller(first.capacity, second.capacity) - Len(first.items)
         /\ mode # "vec" => Split!room = 0 /\ promised = 0
         /\ Len(first.items) \in Nat /\ first.capacity \in Nat /\ Len(first.items) <= first.capacity
         /\ Len(second.items) \in Nat /\ second.capacity \in Nat /\ Len(second.items) <= second.capacity
         /\ made + source \in Nat /\ made \in Nat /\ source \in Nat
  <1>1. made + source \in Nat /\ made \in Nat /\ source \in Nat
    BY DEF SplitFields
  <1>2. /\ Len(first.items) \in Nat /\ first.capacity \in Nat /\ Len(first.items) <= first.capacity
        /\ Len(second.items) \in Nat /\ second.capacity \in Nat /\ Len(second.items) <= second.capacity
    BY <1>1, StoredLength DEF SplitFields
  <1>3. QED
    BY <1>1, <1>2 DEF SplitFields, Split!room, Split!capacity

LEMMA RoomGrows ==
  ASSUME NEW a \in Nat, NEW b \in Nat, NEW c \in Nat, NEW d \in Nat, c >= a, d >= b, NEW l \in Nat
  PROVE  /\ Split!Smaller(a, b) - l \in Int /\ Split!Smaller(c, d) - l \in Int
         /\ Split!Smaller(c, d) - l >= Split!Smaller(a, b) - l
  BY DEF Split!Smaller

\* A storage grows, or both do.
LEMMA SplitGrows ==
  ASSUME SplitInv, NEW n \in 1 .. FirstMax, Split!EnsureRoom(n) \/ Split!SecondRefuses(n)
  PROVE  /\ SplitInv'
         /\ mode = "vec" /\ mode' = mode /\ made' = made
         /\ first'.items = first.items /\ second'.items = second.items
         /\ Split!room' >= Split!room /\ promised' >= promised
  <1>1. /\ SplitFields /\ Partnered /\ SplitBooks /\ mode = "vec" /\ mode' = "vec" /\ source = 0
        /\ UNCHANGED <<source, made, born, gone>> /\ n \in Nat
        /\ promised' = (IF n > promised THEN n ELSE promised) \/ promised' = promised
        /\ promised \in Nat
    BY LimitsAssumption DEF SplitInv, SplitFields, Split!EnsureRoom, Split!SecondRefuses, Split!history
  <1>2. /\ Stored(first', made + source) /\ first'.items = first.items
        /\ first'.capacity >= first.capacity /\ first'.capacity >= Len(first.items) + n
    <2>1. first' \in Split!ensure_room(first, n, FirstMax)
      BY DEF Split!EnsureRoom, Split!SecondRefuses
    <2>2. QED
      BY <1>1, <2>1, RoomMade, LimitsAssumption, SplitRoom DEF SplitFields
  <1>3. /\ Stored(second', made) /\ second'.items = second.items
        /\ second'.capacity >= second.capacity
        /\ second'.capacity >= Len(second.items) + n \/ (second' = second /\ promised' = promised)
    <2>1. CASE Split!EnsureRoom(n)
      <3>1. second' \in Split!ensure_room(second, n, SecondMax)
        BY <2>1 DEF Split!EnsureRoom
      <3>2. QED
        BY <1>1, <3>1, RoomMade, LimitsAssumption, SplitRoom DEF SplitFields
    <2>2. CASE Split!SecondRefuses(n)
      <3>1. second' = second /\ promised' = promised
        BY <2>2 DEF Split!SecondRefuses
      <3>2. QED
        BY <1>1, <3>1, SplitRoom DEF SplitFields
    <2>3. QED
      BY <2>1, <2>2
  <1>4. Ids(first') = Ids(first) /\ Ids(second') = Ids(second)
    BY <1>2, <1>3 DEF Ids
  <1>5. Partnered'
    BY <1>1, <1>2, <1>3 DEF Partnered
  <1>6. SplitBooks'
    BY <1>1, <1>4 DEF SplitBooks
  <1>7. Split!room' >= Split!room /\ promised' >= promised /\ promised' <= Split!room' /\ promised' \in Nat
    <2>1. Split!room' = Split!Smaller(first'.capacity, second'.capacity) - Len(first'.items)
      BY <1>1 DEF Split!room, Split!capacity
    <2>2. /\ Split!room = Split!Smaller(first.capacity, second.capacity) - Len(first.items)
          /\ promised <= Split!room
      BY <1>1, SplitRoom DEF SplitFields
    <2>3. /\ first.capacity \in Nat /\ second.capacity \in Nat /\ Len(first.items) \in Nat
          /\ first'.capacity \in Nat /\ second'.capacity \in Nat
          /\ Len(second.items) = Len(first.items)
      BY <1>1, <1>2, <1>3, SplitRoom DEF Stored, Partnered
    <2>4. Split!room' >= Split!room /\ Split!room \in Int /\ Split!room' \in Int
      <3>1. second'.capacity >= second.capacity /\ Len(first'.items) = Len(first.items)
        BY <1>2, <1>3, <2>3
      <3>2. QED
        BY <1>2, <2>1, <2>2, <2>3, <3>1, RoomGrows
    <2>5. CASE promised' = promised
      BY <1>1, <2>2, <2>4, <2>5
    <2>6. CASE promised' # promised
      <3>1. promised' = n /\ n > promised
        BY <1>1, <2>6
      <3>2. first'.capacity >= Len(first.items) + n /\ second'.capacity >= Len(first.items) + n
        BY <1>2, <1>3, <2>3, <2>6
      <3>3. Split!room' >= n
        BY <1>1, <1>2, <2>1, <2>3, <3>2 DEF Split!Smaller
      <3>4. QED
        BY <1>1, <2>4, <3>1, <3>3
    <2>7. QED
      BY <2>5, <2>6
  <1>8. SplitFields'
    BY <1>1, <1>2, <1>3, <1>7 DEF SplitFields
  <1>9. QED
    BY <1>1, <1>2, <1>3, <1>5, <1>6, <1>7, <1>8 DEF SplitInv

LEMMA SplitPushes ==
  ASSUME SplitInv, Split!Push
  PROVE  /\ SplitInv'
         /\ mode = "vec" /\ mode' = mode /\ made' = made + 1
         /\ first'.items = Append(first.items, made + 1) /\ second'.items = first'.items
         /\ Split!room' = Split!room - 1
         /\ promised' = IF promised = 0 THEN 0 ELSE promised - 1
  <1>1. /\ SplitFields /\ Partnered /\ SplitBooks /\ mode = "vec" /\ mode' = "vec" /\ source = 0
        /\ source' = source /\ gone' = gone /\ made' = made + 1 /\ made < ItemsMax
        /\ born' = born \union {<<"first", made + 1>>, <<"second", made + 1>>}
        /\ promised' = IF promised = 0 THEN 0 ELSE promised - 1
        /\ promised \in Nat /\ first.items = second.items /\ made \in Nat
        /\ first' = Split!Pushed(first, made + 1) /\ second' = Split!Pushed(second, made + 1)
        /\ Len(first.items) < Split!capacity
    BY DEF SplitInv, SplitFields, Partnered, Split!Push
  <1>2. /\ Len(first.items) \in Nat /\ first.capacity \in Nat /\ second.capacity \in Nat
        /\ Split!room = Split!Smaller(first.capacity, second.capacity) - Len(first.items)
        /\ promised <= Split!room
        /\ Stored(first, made) /\ Stored(second, made)
    <2>1. made + source = made
      BY <1>1
    <2>2. QED
      BY <1>1, <2>1, SplitRoom DEF SplitFields
  <1>3. Len(first.items) < first.capacity /\ Len(second.items) < second.capacity
    BY <1>1, <1>2 DEF Split!capacity, Split!Smaller
  <1>4. /\ Stored(first', made + 1) /\ first'.capacity = first.capacity
        /\ first'.items = Append(first.items, made + 1) /\ Len(first'.items) = Len(first.items) + 1
        /\ Ids(first') = Ids(first) \union {made + 1}
    BY <1>1, <1>2, <1>3, ItemPushed
  <1>5. /\ Stored(second', made + 1) /\ second'.capacity = second.capacity
        /\ second'.items = Append(second.items, made + 1)
        /\ Ids(second') = Ids(second) \union {made + 1}
    BY <1>1, <1>2, <1>3, ItemPushed
  <1>6. Partnered'
    BY <1>1, <1>4, <1>5 DEF Partnered
  <1>7. SplitBooks'
    <2>1. born \subseteq Both(1 .. made, 1 .. made) /\ made + 1 \notin 1 .. made
      <3>1. made + source = made
        BY <1>1
      <3>2. QED
        BY <1>1, <3>1 DEF SplitBooks
    <2> DEFINE S == {<<"first", made + 1>>, <<"second", made + 1>>}
               H == Both(Ids(first), Ids(second))
    <2>2. S \intersect born = {}
      BY <2>1 DEF Both
    <2>3. Both(Ids(first'), Ids(second')) = H \union S
      BY <1>4, <1>5 DEF Both
    <2>4. Books(H, born, gone)
      BY <1>1 DEF SplitBooks
    <2>5. born' \subseteq Both(1 .. made + 1, 1 .. made + 1)
      <3>1. 1 .. made \subseteq 1 .. made + 1 /\ made + 1 \in 1 .. made + 1
        BY <1>1
      <3>2. QED
        BY <1>1, <2>1, <3>1 DEF Both
    <2>6. made' + source' = made + 1
      BY <1>1
    <2> HIDE DEF S, H
    <2>7. Books(H \union S, born \union S, gone)
      BY <2>2, <2>4, BooksIn
    <2>8. born' = born \union S
      BY <1>1 DEF S
    <2>9. QED
      BY <1>1, <2>3, <2>5, <2>6, <2>7, <2>8 DEF SplitBooks
  <1>8. Split!room' = Split!room - 1 /\ promised' \in Nat /\ promised' <= Split!room'
    <2>1. Split!room' = Split!Smaller(first'.capacity, second'.capacity) - Len(first'.items)
      BY <1>1 DEF Split!room, Split!capacity
    <2>2. Split!Smaller(first.capacity, second.capacity) \in Nat
      BY <1>2 DEF Split!Smaller
    <2>3. Split!room > 0
      BY <1>1, <1>2, <2>2 DEF Split!capacity
    <2>4. QED
      BY <1>1, <1>2, <1>4, <1>5, <2>1, <2>2, <2>3
  <1>9. SplitFields'
    <2>1. made' + source' = made + 1 /\ made' = made + 1 /\ made + 1 <= ItemsMax /\ made + 1 \in Nat
      BY <1>1, BoundsAssumption
    <2>2. QED
      BY <1>1, <1>4, <1>5, <1>8, <2>1 DEF SplitFields
  <1>10. QED
    BY <1>1, <1>4, <1>5, <1>6, <1>7, <1>8, <1>9 DEF SplitInv

\* The last pair leaves.
LEMMA SplitLastGoes ==
  ASSUME SplitInv, Split!Pop \/ Split!IterNextBack
  PROVE  /\ SplitInv'
         /\ mode \in {"vec", "iter"} /\ mode' = mode /\ made' = made /\ promised' = promised
         /\ Len(first'.items) = Len(first.items) - 1 /\ Len(first.items) > 0
         /\ \A i \in 1 .. Len(first.items) - 1 : first'.items[i] = first.items[i]
         /\ Split!room' \in {Split!room, Split!room + 1}
  <1> DEFINE f == first.items[Len(first.items)]
             s == second.items[Len(second.items)]
  <1>1. /\ SplitFields /\ Partnered /\ SplitBooks /\ mode \in {"vec", "iter"} /\ mode' = mode
        /\ UNCHANGED <<promised, source, made, born>> /\ source = 0 /\ first.items = second.items
        /\ first.items # <<>> /\ made \in Nat /\ promised \in Nat
    BY DEF SplitInv, SplitFields, Partnered, Split!Pop, Split!IterNextBack
  <1>2. /\ Len(first.items) \in Nat /\ Len(first.items) > 0
        /\ first.capacity \in Nat /\ second.capacity \in Nat
        /\ mode = "vec" => Split!room = Split!Smaller(first.capacity, second.capacity) - Len(first.items)
        /\ mode # "vec" => Split!room = 0
        /\ promised <= Split!room
        /\ Stored(first, made) /\ Stored(second, made)
    <2>1. made + source = made
      BY <1>1
    <2>2. QED
      BY <1>1, <2>1, SplitRoom, StoredLength DEF SplitFields
  <1>3. first' = Split!Popped(first) /\ second' = Split!Popped(second)
    BY <1>1 DEF Split!Pop, Split!IterNextBack
  <1>4. /\ Stored(first', made) /\ first'.capacity = first.capacity
        /\ Len(first'.items) = Len(first.items) - 1
        /\ \A i \in 1 .. Len(first.items) - 1 : first'.items[i] = first.items[i]
        /\ f \in Ids(first) /\ Ids(first') = Ids(first) \ {f}
    BY <1>1, <1>2, <1>3, LastTaken
  <1>5. /\ Stored(second', made) /\ second'.capacity = second.capacity
        /\ s \in Ids(second) /\ Ids(second') = Ids(second) \ {s}
    BY <1>1, <1>2, <1>3, LastTaken
  <1>6. second'.items = first'.items
    <2>1. first'.items = SubSeq(first.items, 1, Len(first.items) - 1)
      BY <1>2, <1>3 DEF Split!Popped, Stored
    <2>2. second'.items = SubSeq(second.items, 1, Len(second.items) - 1)
      BY <1>2, <1>3 DEF Split!Popped, Stored
    <2>3. QED
      BY <1>1, <2>1, <2>2
  <1>7. Partnered'
    BY <1>1, <1>6 DEF Partnered
  <1>8. SplitBooks'
    <2>1. Split!Leave(Both({f}, {s}))
      <3>1. CASE Split!Pop
        <4>1. Split!Tagged("second", {second.items[i] : i \in {Len(second.items)} \ {0}}) = {<<"second", s>>}
          <5>1. {Len(second.items)} \ {0} = {Len(second.items)}
            BY <1>1, <1>2
          <5>2. QED
            BY <5>1 DEF Split!Tagged
        <4>2. Both({f}, {s}) = {<<"first", f>>} \union {<<"second", s>>}
          BY DEF Both
        <4>3. QED
          BY <3>1, <4>1, <4>2 DEF Split!Pop
      <3>2. CASE Split!IterNextBack
        <4>1. Both({f}, {s}) = {<<"first", f>>, <<"second", s>>}
          BY DEF Both
        <4>2. QED
          BY <3>2, <4>1 DEF Split!IterNextBack
      <3>3. QED
        BY <3>1, <3>2
    <2> HIDE DEF f, s
    <2>2. QED
      BY <1>1, <1>4, <1>5, <2>1, SplitGo
  <1>9. Split!room' \in {Split!room, Split!room + 1} /\ promised' <= Split!room'
    <2>1. CASE mode = "vec"
      <3>1. Split!room' = Split!Smaller(first'.capacity, second'.capacity) - Len(first'.items)
        BY <1>1, <2>1 DEF Split!room, Split!capacity
      <3>2. Split!Smaller(first.capacity, second.capacity) \in Nat
        BY <1>2 DEF Split!Smaller
      <3>3. QED
        BY <1>1, <1>2, <1>4, <1>5, <2>1, <3>1, <3>2
    <2>2. CASE mode # "vec"
      <3>1. Split!room' = 0
        BY <1>1, <2>2 DEF Split!room
      <3>2. QED
        BY <1>1, <1>2, <2>2, <3>1
    <2>3. QED
      BY <2>1, <2>2
  <1>10. SplitFields'
    <2>1. made' + source' = made /\ made' = made /\ made + source <= ItemsMax
      BY <1>1 DEF SplitFields
    <2>2. QED
      BY <1>1, <1>4, <1>5, <1>9, <2>1 DEF SplitFields
  <1>11. QED
    BY <1>1, <1>2, <1>4, <1>7, <1>8, <1>9, <1>10 DEF SplitInv

\* The first pair leaves.
LEMMA SplitFirstGoes ==
  ASSUME SplitInv, Split!IterNext
  PROVE  /\ SplitInv'
         /\ mode = "iter" /\ mode' = mode /\ made' = made /\ promised' = promised
         /\ Len(first'.items) = Len(first.items) - 1 /\ Len(first.items) > 0
         /\ \A i \in 1 .. Len(first.items) - 1 : first'.items[i] = first.items[i + 1]
  <1> DEFINE f == Head(first.items)
             s == Head(second.items)
  <1>1. /\ SplitFields /\ Partnered /\ SplitBooks /\ mode = "iter" /\ mode' = mode
        /\ UNCHANGED <<promised, source, made, born>> /\ source = 0 /\ first.items = second.items
        /\ first.items # <<>> /\ made \in Nat /\ promised \in Nat
    BY DEF SplitInv, SplitFields, Partnered, Split!IterNext
  <1>2. first' = [first EXCEPT !.items = Tail(@)] /\ second' = [second EXCEPT !.items = Tail(@)]
    BY DEF Split!IterNext
  <1>3. Stored(first, made) /\ Stored(second, made) /\ promised = 0 /\ Len(first.items) > 0
    <2>1. made + source = made
      BY <1>1
    <2>2. QED
      BY <1>1, <2>1, SplitRoom, StoredLength DEF SplitFields
  <1>4. /\ Stored(first', made) /\ Len(first'.items) = Len(first.items) - 1
        /\ \A i \in 1 .. Len(first.items) - 1 : first'.items[i] = first.items[i + 1]
        /\ f \in Ids(first) /\ Ids(first') = Ids(first) \ {f}
    BY <1>1, <1>3, <1>2, FirstTaken
  <1>5. Stored(second', made) /\ s \in Ids(second) /\ Ids(second') = Ids(second) \ {s}
    BY <1>1, <1>3, <1>2, FirstTaken
  <1>6. second'.items = first'.items
    <2>1. first'.items = Tail(first.items)
      BY <1>3, <1>2 DEF Stored
    <2>2. second'.items = Tail(second.items)
      BY <1>3, <1>2 DEF Stored
    <2>3. QED
      BY <1>1, <2>1, <2>2
  <1>7. Partnered'
    BY <1>1, <1>6 DEF Partnered
  <1>8. SplitBooks'
    <2>1. Both({f}, {s}) = {<<"first", f>>, <<"second", s>>}
      BY DEF Both
    <2>2. Split!Leave(Both({f}, {s}))
      BY <2>1 DEF Split!IterNext
    <2> HIDE DEF f, s
    <2>3. QED
      BY <1>1, <1>4, <1>5, <2>2, SplitGo
  <1>9. Split!room' = 0
    BY <1>1 DEF Split!room
  <1>10. SplitFields'
    <2>1. made' + source' = made /\ made' = made /\ made + source <= ItemsMax
      BY <1>1 DEF SplitFields
    <2>2. QED
      BY <1>1, <1>3, <1>4, <1>5, <1>9, <2>1 DEF SplitFields
  <1>11. QED
    BY <1>1, <1>3, <1>4, <1>7, <1>8, <1>10 DEF SplitInv

\* The caller pops an item of one of the parts.
LEMMA PartPops ==
  ASSUME SplitInv, Split!PopFirst \/ Split!PopSecond
  PROVE  /\ SplitInv'
         /\ mode = "parts" /\ mode' = mode /\ made' = made /\ promised' = promised
         /\ \/ /\ second' = second /\ Len(first'.items) = Len(first.items) - 1
               /\ \A i \in 1 .. Len(first.items) - 1 : first'.items[i] = first.items[i]
            \/ first' = first /\ Len(second'.items) = Len(second.items) - 1
  <1>1. /\ SplitFields /\ Partnered /\ SplitBooks /\ mode = "parts" /\ mode' = mode
        /\ UNCHANGED <<promised, source, made, born>> /\ source = 0 /\ made \in Nat
        /\ promised = 0
    BY SplitRoom DEF SplitInv, SplitFields, Split!PopFirst, Split!PopSecond
  <1>2. Stored(first, made) /\ Stored(second, made)
    <2>1. made + source = made
      BY <1>1
    <2>2. QED
      BY <1>1, <2>1 DEF SplitFields
  <1>3. /\ Len(first.items) \in Nat /\ Len(second.items) \in Nat
        /\ \A i \in 1 .. Len(first.items) : i <= Len(second.items) => first.items[i] = second.items[i]
    BY <1>1, <1>2, StoredLength DEF Partnered
  <1>4. Split!room' = 0 /\ made' + source' = made /\ made + source <= ItemsMax
    BY <1>1 DEF Split!room, SplitFields
  <1>5. CASE Split!PopFirst
    <2> DEFINE f == first.items[Len(first.items)]
    <2>1. first' = Split!Popped(first) /\ second' = second /\ first.items # <<>>
      BY <1>5 DEF Split!PopFirst
    <2>2. /\ Stored(first', made) /\ Len(first'.items) = Len(first.items) - 1
          /\ \A i \in 1 .. Len(first.items) - 1 : first'.items[i] = first.items[i]
          /\ f \in Ids(first) /\ Ids(first') = Ids(first) \ {f}
      BY <1>1, <1>2, <2>1, LastTaken
    <2>3. \A i \in 1 .. Len(first'.items) : i <= Len(second.items) => first'.items[i] = second.items[i]
      BY <1>3, <2>2
    <2>4. Partnered'
      BY <1>1, <2>1, <2>3 DEF Partnered
    <2>5. SplitBooks'
      <3>1. Both({f}, {}) = {<<"first", f>>}
        BY DEF Both
      <3>2. Split!Leave(Both({f}, {}))
        BY <1>5, <3>1 DEF Split!PopFirst
      <3> HIDE DEF f
      <3>3. QED
        BY <1>1, <2>1, <2>2, <3>2, SplitGo
    <2>6. SplitFields'
      BY <1>1, <1>2, <1>4, <2>1, <2>2 DEF SplitFields
    <2>7. QED
      BY <1>1, <2>1, <2>2, <2>4, <2>5, <2>6 DEF SplitInv
  <1>6. CASE Split!PopSecond
    <2> DEFINE s == second.items[Len(second.items)]
    <2>1. second' = Split!Popped(second) /\ first' = first /\ second.items # <<>>
      BY <1>6 DEF Split!PopSecond
    <2>2. /\ Stored(second', made) /\ Len(second'.items) = Len(second.items) - 1
          /\ \A i \in 1 .. Len(second.items) - 1 : second'.items[i] = second.items[i]
          /\ s \in Ids(second) /\ Ids(second') = Ids(second) \ {s}
      BY <1>1, <1>2, <2>1, LastTaken
    <2>3. \A i \in 1 .. Len(first.items) : i <= Len(second'.items) => first.items[i] = second'.items[i]
      BY <1>3, <2>2
    <2>4. Partnered'
      BY <1>1, <2>1, <2>3 DEF Partnered
    <2>5. SplitBooks'
      <3>1. Both({}, {s}) = {<<"second", s>>}
        BY DEF Both
      <3>2. Split!Leave(Both({}, {s}))
        BY <1>6, <3>1 DEF Split!PopSecond
      <3> HIDE DEF s
      <3>3. QED
        BY <1>1, <2>1, <2>2, <3>2, SplitGo
    <2>6. SplitFields'
      BY <1>1, <1>2, <1>4, <2>1, <2>2 DEF SplitFields
    <2>7. QED
      BY <1>1, <2>1, <2>2, <2>4, <2>5, <2>6 DEF SplitInv
  <1>7. QED
    BY <1>5, <1>6

\* Both storages are emptied.
LEMMA SplitEmpties ==
  ASSUME SplitInv, Split!Clear \/ Split!ClonePanics \/ Split!PartsRefused \/ Split!Drop
  PROVE  /\ SplitInv'
         /\ mode' \in {"vec", "dropped"} /\ first'.items = <<>> /\ second'.items = <<>>
         /\ mode = "fill" => /\ made' = made + source /\ promised' = 0 /\ mode' = "vec"
         /\ mode # "fill" => made' = made
         /\ promised' = 0 \/ (/\ mode = "vec" /\ mode' = "vec" /\ promised' = promised
                              /\ Split!room' = Split!room + Len(first.items))
  <1>1. /\ SplitFields /\ Partnered /\ SplitBooks
        /\ made \in Nat /\ source \in Nat /\ made + source \in Nat
        /\ made + source <= ItemsMax /\ promised \in Nat
        /\ first' = Split!Cleared(first) /\ second' = Split!Cleared(second) /\ born' = born
        /\ Split!Leave(Split!ItemsOf("first", first) \union Split!ItemsOf("second", second))
    BY SplitRoom DEF SplitInv, SplitFields, Split!Clear, Split!ClonePanics, Split!PartsRefused, Split!Drop
  <1>2. /\ made' \in Nat /\ source' \in Nat /\ made' >= made /\ made' + source' >= made + source
        /\ made' + source' <= ItemsMax /\ source' = 0
        /\ mode = "fill" => /\ made' = made + source /\ promised' = 0 /\ mode' = "vec"
        /\ mode # "fill" => made' = made
    <2>1. CASE Split!ClonePanics
      <3>1. made' = made + source /\ source' = 0 /\ promised' = 0 /\ mode' = "vec"
        BY <2>1 DEF Split!ClonePanics
      <3>2. mode # "fill" => source = 0
        BY <1>1 DEF SplitFields
      <3>3. QED
        BY <1>1, <3>1, <3>2
    <2>2. CASE Split!Clear \/ Split!PartsRefused \/ Split!Drop
      <3>1. made' = made /\ source' = source /\ mode # "fill"
        BY <2>2 DEF Split!Clear, Split!PartsRefused, Split!Drop
      <3>2. source = 0
        BY <1>1, <3>1 DEF SplitFields
      <3>3. QED
        BY <1>1, <3>1, <3>2
    <2>3. QED
      BY <2>1, <2>2
  <1>3. /\ SplitBooks'
        /\ Stored(first', made' + source') /\ Stored(second', made')
        /\ first'.items = <<>> /\ second'.items = <<>>
        /\ Len(first'.items) = 0 /\ Len(second'.items) = 0
        /\ first'.capacity = first.capacity /\ second'.capacity = second.capacity
    BY <1>1, <1>2, SplitAllGo
  <1>4. /\ mode' \in {"vec", "dropped"}
        /\ promised' = 0 \/ (mode = "vec" /\ mode' = "vec" /\ promised' = promised)
    <2>1. mode = "parts" => promised = 0
      BY <1>1, SplitRoom
    <2>2. QED
      BY <2>1 DEF Split!Clear, Split!ClonePanics, Split!PartsRefused, Split!Drop
  <1>5. Partnered'
    BY <1>3, <1>4 DEF Partnered
  <1>6. Split!Smaller(first.capacity, second.capacity) \in Nat /\ Len(first.items) \in Nat
    BY <1>1, SplitRoom DEF Split!Smaller
  <1>7. Split!room' \in Nat
    <2>1. Split!room' = IF mode' = "vec" THEN Split!Smaller(first.capacity, second.capacity) - 0 ELSE 0
      BY <1>3 DEF Split!room, Split!capacity
    <2>2. QED
      BY <1>6, <2>1
  <1>8. ASSUME mode = "vec", mode' = "vec" PROVE Split!room' = Split!room + Len(first.items)
    <2>1. Split!room' = Split!Smaller(first.capacity, second.capacity) - 0
      BY <1>3, <1>8 DEF Split!room, Split!capacity
    <2>2. Split!room = Split!Smaller(first.capacity, second.capacity) - Len(first.items)
      BY <1>1, <1>8, SplitRoom
    <2>3. QED
      BY <1>6, <2>1, <2>2
  <1>9. promised' \in Nat /\ promised' <= Split!room'
    <2>1. CASE promised' = 0
      BY <1>7, <2>1
    <2>2. CASE promised' # 0
      <3>1. Split!room' = Split!room + Len(first.items) /\ promised' = promised /\ promised <= Split!room
        BY <1>1, <1>4, <1>8, <2>2 DEF SplitFields
      <3>2. Split!room \in Int
        BY <1>1, <1>4, <1>6, <2>2, SplitRoom
      <3>3. QED
        BY <1>1, <1>6, <3>1, <3>2
    <2>3. QED
      BY <2>1, <2>2
  <1>10. SplitFields'
    BY <1>1, <1>2, <1>3, <1>4, <1>9 DEF SplitFields
  <1>11. QED
    BY <1>1, <1>2, <1>3, <1>4, <1>5, <1>8, <1>10 DEF SplitInv

\* clone_from has the clones of the first items.
LEMMA SplitClonesFirst ==
  ASSUME SplitInv, NEW n \in 0 .. ItemsMax, Split!CloneFirst(n)
  PROVE  SplitInv' /\ mode = "vec" /\ mode' = "fill" /\ made' = made /\ promised' = 0
  <1>1. /\ SplitFields /\ Partnered /\ SplitBooks /\ mode = "vec" /\ mode' = "fill"
        /\ made' = made /\ source' = n /\ source = 0 /\ promised' = 0 /\ made + n <= ItemsMax
        /\ made \in Nat /\ n \in Nat /\ first' = Split!Cloned(first, n) /\ second' = second
        /\ born' = born \union Split!Tagged("first", made + 1 .. made + n)
        /\ Split!Leave(Split!ItemsOf("first", first))
    BY BoundsAssumption DEF SplitInv, SplitFields, Split!CloneFirst
  <1>2. Stored(first, made) /\ Stored(second, made)
    <2>1. made + source = made
      BY <1>1
    <2>2. QED
      BY <1>1, <2>1 DEF SplitFields
  <1>3. /\ Stored(first', made + n) /\ first'.items = [i \in 1 .. n |-> made + i]
        /\ Ids(first') = made + 1 .. made + n
    BY <1>1, <1>2, WasCloned
  <1>4. Partnered'
    BY <1>1, <1>3 DEF Partnered
  <1>5. Split!room' = 0
    BY <1>1 DEF Split!room
  <1>6. SplitFields'
    BY <1>1, <1>2, <1>3, <1>5 DEF SplitFields
  <1>7. SplitBooks'
    <2> DEFINE S == {<<"first", q>> : q \in made + 1 .. made + n}
               L == {<<"first", q>> : q \in Ids(first)}
               H == Both(Ids(first), Ids(second))
    <2>1. Books(H, born, gone) /\ L \subseteq H
      BY <1>1 DEF SplitBooks, Both
    <2>2. born \subseteq Both(1 .. made, 1 .. made) /\ \A q \in made + 1 .. made + n : q \notin 1 .. made
      <3>1. made + source = made
        BY <1>1
      <3>2. QED
        BY <1>1, <3>1 DEF SplitBooks
    <2>3. S \intersect born = {}
      BY <2>2 DEF Both
    <2>4. Both(Ids(first'), Ids(second')) = (H \ L) \union S
      BY <1>1, <1>3 DEF Both
    <2>5. born \union S \subseteq Both(1 .. made + n, 1 .. made)
      <3>1. 1 .. made \subseteq 1 .. made + n /\ made + 1 .. made + n \subseteq 1 .. made + n
        BY <1>1
      <3>2. QED
        BY <2>2, <3>1 DEF Both
    <2>6. gone' = gone (+) SetToBag(L) /\ born' = born \union S
      BY <1>1, SplitLeave, SplitItems DEF Split!Tagged
    <2> HIDE DEF S, L, H
    <2>7. Books(H \ L, born, gone (+) SetToBag(L))
      BY <2>1, BooksOut
    <2>8. Books((H \ L) \union S, born \union S, gone (+) SetToBag(L))
      BY <2>3, <2>7, BooksIn
    <2>9. QED
      BY <1>1, <2>4, <2>5, <2>6, <2>8 DEF SplitBooks
  <1>8. QED
    BY <1>1, <1>4, <1>6, <1>7 DEF SplitInv

\* ... and then those of the second ones.
LEMMA SplitClonesSecond ==
  ASSUME SplitInv, Split!CloneSecond
  PROVE  /\ SplitInv'
         /\ mode = "fill" /\ mode' = "vec" /\ made' = made + source /\ promised' = 0
         /\ first'.items = [i \in 1 .. source |-> made + i] /\ Len(first'.items) = source
  <1>1. /\ SplitFields /\ Partnered /\ SplitBooks /\ mode = "fill" /\ mode' = "vec"
        /\ made' = made + source /\ source' = 0 /\ made + source <= ItemsMax
        /\ made \in Nat /\ source \in Nat /\ made + source \in Nat
        /\ second' = Split!Cloned(second, source) /\ first' = first
        /\ born' = born \union Split!Tagged("second", made + 1 .. made + source)
        /\ Split!Leave(Split!ItemsOf("second", second))
        /\ Stored(first, made + source) /\ Stored(second, made)
        /\ first.items = [i \in 1 .. source |-> made + i]
    BY DEF SplitInv, SplitFields, Partnered, Split!CloneSecond
  <1>2. promised = 0 /\ promised' = 0
    BY <1>1, SplitRoom DEF Split!CloneSecond
  <1>3. /\ Stored(second', made + source) /\ second'.items = [i \in 1 .. source |-> made + i]
        /\ Ids(second') = made + 1 .. made + source /\ Len(second'.items) = source
    BY <1>1, WasCloned
  <1>4. first'.items = second'.items
    BY <1>1, <1>3
  <1>5. Partnered'
    BY <1>1, <1>4 DEF Partnered
  <1>6. Split!room' \in Nat
    <2>1. Split!room' = Split!Smaller(first'.capacity, second'.capacity) - Len(first'.items)
      BY <1>1 DEF Split!room, Split!capacity
    <2>2. /\ first'.capacity \in Nat /\ second'.capacity \in Nat
          /\ source <= first'.capacity /\ source <= second'.capacity
      BY <1>1, <1>3, <1>4 DEF Stored
    <2>3. QED
      BY <1>1, <1>3, <1>4, <2>1, <2>2 DEF Split!Smaller
  <1>7. SplitFields'
    <2>1. made' + source' = made + source
      BY <1>1
    <2>2. QED
      BY <1>1, <1>2, <1>3, <1>6, <2>1 DEF SplitFields
  <1>8. SplitBooks'
    <2> DEFINE S == {<<"second", q>> : q \in made + 1 .. made + source}
               L == {<<"second", q>> : q \in Ids(second)}
               H == Both(Ids(first), Ids(second))
    <2>1. Books(H, born, gone) /\ L \subseteq H
      BY <1>1 DEF SplitBooks, Both
    <2>2. /\ born \subseteq Both(1 .. made + source, 1 .. made)
          /\ \A q \in made + 1 .. made + source : q \notin 1 .. made
      BY <1>1 DEF SplitBooks
    <2>3. S \intersect born = {}
      BY <2>2 DEF Both
    <2>4. Both(Ids(first'), Ids(second')) = (H \ L) \union S
      BY <1>1, <1>3 DEF Both
    <2>5. born \union S \subseteq Both(1 .. made + source, 1 .. made + source)
      <3>1. 1 .. made \subseteq 1 .. made + source /\ made + 1 .. made + source \subseteq 1 .. made + source
        BY <1>1
      <3>2. QED
        BY <2>2, <3>1 DEF Both
    <2>6. gone' = gone (+) SetToBag(L) /\ born' = born \union S
      BY <1>1, SplitLeave, SplitItems DEF Split!Tagged
    <2>7. made' + source' = made + source
      BY <1>1
    <2> HIDE DEF S, L, H
    <2>8. Books(H \ L, born, gone (+) SetToBag(L))
      BY <2>1, BooksOut
    <2>9. Books((H \ L) \union S, born \union S, gone (+) SetToBag(L))
      BY <2>3, <2>8, BooksIn
    <2>10. QED
      BY <1>1, <2>4, <2>5, <2>6, <2>7, <2>9 DEF SplitBooks
  <1>9. QED
    BY <1>1, <1>2, <1>3, <1>4, <1>5, <1>7, <1>8 DEF SplitInv

\* The storages stay as they are, as parts, in an iterator, or put together.
LEMMA SplitTurns ==
  ASSUME SplitInv, Split!IntoParts \/ Split!FromParts \/ Split!IntoIter
  PROVE  /\ SplitInv'
         /\ mode \in {"vec", "parts"} /\ mode' \in {"vec", "parts", "iter"} /\ mode' # mode
         /\ made' = made /\ promised' = 0 /\ first' = first /\ second' = second
         /\ mode' # "vec" => mode = "vec"
         /\ mode' = "vec" => promised = 0 /\ Len(first.items) = Len(second.items)
  <1>1. /\ SplitFields /\ Partnered /\ SplitBooks /\ UNCHANGED <<first, second, source, made, born, gone>>
        /\ mode \in {"vec", "parts"} /\ mode' \in {"vec", "parts", "iter"} /\ mode' # mode
        /\ mode' # "vec" => mode = "vec"
        /\ mode' = "vec" => Len(first.items) = Len(second.items)
        /\ source = 0 /\ promised' = 0
        /\ mode = "parts" => promised = 0
    <2>1. SplitFields /\ (mode = "parts" => promised = 0)
      BY SplitRoom DEF SplitInv
    <2>2. QED
      BY <2>1 DEF SplitInv, SplitFields, Split!IntoParts, Split!FromParts, Split!IntoIter, Split!history
  <1>2. Stored(first, made) /\ Stored(second, made)
    <2>1. made + source = made
      BY <1>1 DEF SplitFields
    <2>2. QED
      BY <1>1, <2>1 DEF SplitFields
  <1>3. mode' = "vec" => first.items = second.items
    <2>1. SUFFICES ASSUME mode' = "vec" PROVE first.items = second.items
      OBVIOUS
    <2>2. \A i \in 1 .. Len(first.items) : first.items[i] = second.items[i]
      BY <1>1, <1>2, <2>1, StoredLength DEF Partnered, SplitFields
    <2>3. QED
      BY <1>1, <1>2, <2>1, <2>2, SeqEqual DEF Stored
  <1>4. mode = "vec" => first.items = second.items
    BY <1>1 DEF Partnered
  <1>5. Partnered'
    BY <1>1, <1>3, <1>4 DEF Partnered
  <1>6. Split!room' \in Nat
    <2>1. mode' # "vec" => Split!room' = 0
      BY DEF Split!room
    <2>2. mode' = "vec" => Split!room' = Split!Smaller(first.capacity, second.capacity) - Len(first.items)
      BY <1>1 DEF Split!room, Split!capacity
    <2>3. QED
      BY <1>1, <2>1, <2>2, SplitRoom DEF Split!Smaller
  <1>7. SplitFields'
    BY <1>1, <1>6 DEF SplitFields
  <1>8. SplitBooks'
    BY <1>1 DEF SplitBooks
  <1>9. QED
    BY <1>1, <1>5, <1>7, <1>8 DEF SplitInv

LEMMA InitSplitInv == Split!Init => SplitInv
  <1> SUFFICES ASSUME Split!Init PROVE SplitInv
    OBVIOUS
  <1>1. PICK c \in 0 .. FirstMax : first = [items |-> <<>>, capacity |-> c]
    BY DEF Split!Init, Split!Empty
  <1>2. PICK d \in 0 .. SecondMax : second = [items |-> <<>>, capacity |-> d]
    BY DEF Split!Init, Split!Empty
  <1>3. /\ promised = 0 /\ mode = "vec" /\ source = 0 /\ made = 0 /\ born = {} /\ gone = EmptyBag
    BY DEF Split!Init, Split!EmptyBag, Split!SetToBag, EmptyBag, SetToBag
  <1>4. c \in Nat /\ d \in Nat
    BY LimitsAssumption
  <1>5. Stored(first, 0) /\ Stored(second, 0) /\ Ids(first) = {} /\ Ids(second) = {}
    BY <1>1, <1>2, <1>4 DEF Stored, Ids
  <1>6. Split!room = Split!Smaller(c, d) - 0
    BY <1>1, <1>2, <1>3 DEF Split!room, Split!capacity
  <1>7. SplitFields
    BY <1>3, <1>4, <1>5, <1>6, BoundsAssumption DEF SplitFields, Split!Smaller
  <1>8. SplitBooks
    BY <1>3, <1>5 DEF SplitBooks, Books, Both, EmptyBag, SetToBag
  <1>9. Partnered
    BY <1>1, <1>2, <1>3 DEF Partnered
  <1>10. QED
    BY <1>7, <1>8, <1>9 DEF SplitInv

LEMMA StepSplitInv == SplitInv /\ [Split!Next]_(Split!vars) => SplitInv'
  <1> SUFFICES ASSUME SplitInv, [Split!Next]_(Split!vars) PROVE SplitInv'
    OBVIOUS
  <1>1. CASE Split!Next
    BY <1>1, SplitGrows, SplitPushes, SplitLastGoes, SplitEmpties, SplitClonesFirst,
       SplitClonesSecond, SplitTurns, PartPops, SplitFirstGoes DEF Split!Next
  <1>2. CASE UNCHANGED Split!vars
    BY <1>2 DEF Split!vars, Split!history, SplitInv, SplitFields, Partnered, SplitBooks,
                Split!room, Split!capacity
  <1>3. QED
    BY <1>1, <1>2

LEMMA SplitCardinality ==
  ASSUME NEW S
  PROVE  Split!Cardinality(S) = Cardinality(S)
  BY DEF Split!Cardinality, Cardinality

LEMMA SplitOwnedOnce == SplitInv => Split!OwnedOnce
  <1> SUFFICES ASSUME SplitInv PROVE Split!OwnedOnce
    OBVIOUS
  <1>1. /\ Stored(first, made + source) /\ Stored(second, made)
        /\ Books(Both(Ids(first), Ids(second)), born, gone)
    BY DEF SplitInv, SplitFields, SplitBooks
  <1>2. ASSUME NEW s, NEW n, Stored(s, n), NEW q
        PROVE  Cardinality({i \in 1 .. Len(s.items) : s.items[i] = q}) = IF q \in Ids(s) THEN 1 ELSE 0
    <2> DEFINE P == {i \in 1 .. Len(s.items) : s.items[i] = q}
    <2>1. CASE q \in Ids(s)
      <3>1. PICK i \in 1 .. Len(s.items) : s.items[i] = q
        BY <2>1 DEF Ids
      <3>2. P = {i}
        BY <1>2, <3>1 DEF Stored
      <3> HIDE DEF P
      <3>3. Cardinality(P) = 1
        BY <3>2, FS_Singleton
      <3>4. QED
        BY <2>1, <3>3 DEF P
    <2>2. CASE q \notin Ids(s)
      <3>1. P = {}
        BY <2>2 DEF Ids
      <3>2. QED
        BY <2>2, <3>1, FS_EmptySet
    <2>3. QED
      BY <2>1, <2>2
  <1>3. ASSUME NEW k
        PROVE  /\ k \in Both(Ids(first), Ids(second)) => k \in born /\ Split!TimesGone(k) = 0
               /\ k \notin Both(Ids(first), Ids(second)) =>
                    Split!TimesGone(k) = IF k \in born THEN 1 ELSE 0
    <2>1. Split!TimesGone(k) = IF BagIn(k, gone) THEN gone[k] ELSE 0
      BY DEF Split!TimesGone, Split!BagIn, Split!BagToSet, BagIn, BagToSet
    <2>2. QED
      BY <1>1, <2>1, BooksOnce
  <1>4. ASSUME NEW q \in 1 .. ItemsMax
        PROVE  /\ <<"first", q>> \in Both(Ids(first), Ids(second)) <=> q \in Ids(first)
               /\ <<"second", q>> \in Both(Ids(first), Ids(second)) <=> q \in Ids(second)
    BY DEF Both
  <1>5. ASSUME NEW q \in 1 .. ItemsMax
        PROVE  Cardinality({i \in 1 .. Len(first.items) : first.items[i] = q})
                 + Split!TimesGone(<<"first", q>>) = IF <<"first", q>> \in born THEN 1 ELSE 0
    <2> DEFINE N == Cardinality({i \in 1 .. Len(first.items) : first.items[i] = q})
               k == <<"first", q>>
    <2>1. N = IF q \in Ids(first) THEN 1 ELSE 0
      BY <1>1, <1>2
    <2>2. k \in Both(Ids(first), Ids(second)) <=> q \in Ids(first)
      BY <1>4
    <2> HIDE DEF N, k
    <2>3. N + Split!TimesGone(k) = IF k \in born THEN 1 ELSE 0
      <3>1. /\ k \in Both(Ids(first), Ids(second)) => k \in born /\ Split!TimesGone(k) = 0
            /\ k \notin Both(Ids(first), Ids(second)) =>
                 Split!TimesGone(k) = IF k \in born THEN 1 ELSE 0
        BY <1>3
      <3>2. QED
        BY <2>1, <2>2, <3>1
    <2>4. QED
      BY <2>3 DEF N, k
  <1>6. ASSUME NEW q \in 1 .. ItemsMax
        PROVE  Cardinality({i \in 1 .. Len(second.items) : second.items[i] = q})
                 + Split!TimesGone(<<"second", q>>) = IF <<"second", q>> \in born THEN 1 ELSE 0
    <2> DEFINE N == Cardinality({i \in 1 .. Len(second.items) : second.items[i] = q})
               k == <<"second", q>>
    <2>1. N = IF q \in Ids(second) THEN 1 ELSE 0
      BY <1>1, <1>2
    <2>2. k \in Both(Ids(first), Ids(second)) <=> q \in Ids(second)
      BY <1>4
    <2> HIDE DEF N, k
    <2>3. N + Split!TimesGone(k) = IF k \in born THEN 1 ELSE 0
      <3>1. /\ k \in Both(Ids(first), Ids(second)) => k \in born /\ Split!TimesGone(k) = 0
            /\ k \notin Both(Ids(first), Ids(second)) =>
                 Split!TimesGone(k) = IF k \in born THEN 1 ELSE 0
        BY <1>3
      <3>2. QED
        BY <2>1, <2>2, <3>1
    <2>4. QED
      BY <2>3 DEF N, k
  <1>7. QED
    BY <1>5, <1>6, SplitCardinality DEF Split!OwnedOnce

-----------------------------------------------------------------------------
(* Both storages *)

StoragesInv ==
  /\ kind \in {"PairVec", "SplitPair"}
  /\ kind = "PairVec" => PairInv
  /\ kind = "SplitPair" => SplitInv

LEMMA InitStoragesInv == StoragesInit => StoragesInv
  BY InitPairInv, InitSplitInv DEF StoragesInit, PairVecInit, SplitInit, StoragesInv

LEMMA StepStoragesInv == StoragesInv /\ [StoragesNext]_<<kind, vars, split_vars>> => StoragesInv'
  <1> SUFFICES ASSUME StoragesInv, [StoragesNext]_<<kind, vars, split_vars>> PROVE StoragesInv'
    OBVIOUS
  <1>1. kind' = kind /\ kind \in {"PairVec", "SplitPair"}
    BY DEF StoragesInv, StoragesNext, PairVecStep, SplitStep
  <1>2. CASE kind = "PairVec"
    <2>1. PairInv /\ [Next]_vars
      BY <1>2 DEF StoragesInv, StoragesNext, PairVecStep, SplitStep
    <2>2. PairInv'
      BY <2>1, StepPairInv
    <2>3. QED
      BY <1>1, <1>2, <2>2 DEF StoragesInv
  <1>3. CASE kind = "SplitPair"
    <2>1. SplitInv /\ [Split!Next]_(Split!vars)
      BY <1>3 DEF StoragesInv, StoragesNext, PairVecStep, SplitStep, vars, clone_vars, split_vars,
                  Split!vars, Split!history
    <2>2. SplitInv'
      BY <2>1, StepSplitInv
    <2>3. QED
      BY <1>1, <1>3, <2>2 DEF StoragesInv
  <1>4. QED
    BY <1>1, <1>2, <1>3

LEMMA StoragesInvariance == StoragesSpec => []StoragesInv
  BY InitStoragesInv, StepStoragesInv, PTL DEF StoragesSpec

\* In a PairVec and in a SplitPair, for items of any sizes and alignments, and
\* storages with any limits: every item is at one position that its owner will
\* drop, or was dropped or handed out once.
THEOREM PairsOwnedOnce == StoragesSpec => []EachOwnedOnce
  <1>1. StoragesInv => EachOwnedOnce
    BY InvOwnedOnce, SplitOwnedOnce DEF StoragesInv, EachOwnedOnce
  <1>2. QED
    BY <1>1, StoragesInvariance, PTL

-----------------------------------------------------------------------------
(* Sequences that one step makes of another *)

LEMMA SequenceOf ==
  ASSUME NEW n \in Nat, NEW f, f = [i \in 1 .. n |-> f[i]], \A i \in 1 .. n : f[i] \in Nat
  PROVE  f \in Seq(Nat) /\ Len(f) = n
  <1>1. f \in [1 .. n -> Nat]
    BY Zenon
  <1>2. QED
    BY <1>1

LEMMA LastOff ==
  ASSUME NEW s \in Seq(Nat), NEW t \in Seq(Nat), Len(s) > 0, Len(t) = Len(s) - 1,
         \A i \in 1 .. Len(s) - 1 : t[i] = s[i]
  PROVE  s # <<>> /\ t = SubSeq(s, 1, Len(s) - 1)
  <1> DEFINE r == SubSeq(s, 1, Len(s) - 1)
  <1>1. s # <<>> /\ Len(s) \in Nat
    OBVIOUS
  <1>2. r \in Seq(Nat) /\ Len(r) = Len(s) - 1 /\ \A i \in 1 .. Len(s) - 1 : r[i] = s[i]
    <2>1. \A i \in 1 .. Len(s) - 1 : s[i] \in Nat
      BY <1>1
    <2>2. /\ r \in Seq(Nat) /\ Len(r) = IF 1 <= Len(s) - 1 THEN Len(s) - 1 - 1 + 1 ELSE 0
          /\ \A i \in 1 .. Len(s) - 1 - 1 + 1 : r[i] = s[1 + i - 1]
      <3>1. Len(s) - 1 \in Int
        BY <1>1
      <3>2. QED
        BY <2>1, <3>1, SubSeqProperties
    <2>3. QED
      BY <1>1, <2>2
  <1> HIDE DEF r
  <1>3. t = r
    BY <1>2, SeqEqual
  <1>4. QED
    BY <1>1, <1>3 DEF r

LEMMA FirstOff ==
  ASSUME NEW s \in Seq(Nat), NEW t \in Seq(Nat), Len(s) > 0, Len(t) = Len(s) - 1,
         \A i \in 1 .. Len(s) - 1 : t[i] = s[i + 1]
  PROVE  s # <<>> /\ t = Tail(s)
  <1> DEFINE r == Tail(s)
  <1>1. s # <<>>
    OBVIOUS
  <1>2. r \in Seq(Nat) /\ Len(r) = Len(s) - 1 /\ \A i \in 1 .. Len(s) - 1 : r[i] = s[i + 1]
    BY <1>1, HeadTailProperties
  <1> HIDE DEF r
  <1>3. t = r
    BY <1>2, SeqEqual
  <1>4. QED
    BY <1>1, <1>3 DEF r

LEMMA OneMore ==
  ASSUME NEW s \in Seq(Nat), NEW t \in Seq(Nat), NEW x \in Nat, Len(t) = Len(s) + 1,
         \A i \in 1 .. Len(s) : t[i] = s[i], t[Len(s) + 1] = x
  PROVE  t = Append(s, x)
  <1> DEFINE r == Append(s, x)
  <1>1. /\ r \in Seq(Nat) /\ Len(r) = Len(s) + 1 /\ r[Len(s) + 1] = x
        /\ \A i \in 1 .. Len(s) : r[i] = s[i]
    BY AppendProperties
  <1> HIDE DEF r
  <1>2. \A i \in 1 .. Len(s) + 1 : t[i] = r[i]
    <2>1. Len(s) \in Nat /\ \A i \in 1 .. Len(s) + 1 : i \in 1 .. Len(s) \/ i = Len(s) + 1
      OBVIOUS
    <2>2. QED
      BY <1>1, <2>1
  <1>3. t = r
    BY <1>1, <1>2, SeqEqual
  <1>4. QED
    BY <1>3 DEF r

-----------------------------------------------------------------------------
(* The steps of the storage, as the instance Rules sees it *)

Pairs == IF kind = "PairVec" THEN contents ELSE Split!contents
Room == IF kind = "PairVec" THEN room ELSE Split!room

LEMMA RulesSteps ==
  /\ Rules!Push <=>
       /\ made' > made /\ Pairs' = Append(Pairs, made + 1)
       /\ IF Room = 0 THEN Room' \in Nat ELSE Room' = Room - 1
       /\ promised' = IF promised = 0 THEN 0 ELSE promised - 1
  /\ Rules!EnsureRoom <=>
       Room' >= Room /\ promised' >= promised /\ Pairs' = Pairs /\ made' = made
  /\ Rules!TakeLast <=>
       /\ Pairs # <<>> /\ Pairs' = SubSeq(Pairs, 1, Len(Pairs) - 1)
       /\ Room' \in {Room, Room + 1} /\ promised' = promised /\ made' = made
  /\ Rules!TakeFirst <=>
       /\ Pairs # <<>> /\ Pairs' = Tail(Pairs)
       /\ Room' = Room /\ promised' = promised /\ made' = made
  /\ Rules!Empty <=>
       /\ Pairs' = <<>> /\ made' = made
       /\ (Room' = Room + Len(Pairs) /\ promised' = promised) \/ promised' = 0
  /\ Rules!Clones <=>
       /\ Pairs = <<>> /\ Pairs' = [i \in 1 .. Len(Pairs') |-> made + i]
       /\ made' >= made + Len(Pairs') /\ promised' = 0
  /\ Rules!IntoIter <=> Room' = 0 /\ promised' = 0 /\ Pairs' = Pairs /\ made' = made
  /\ UNCHANGED Rules!vars <=>
       Pairs' = Pairs /\ Room' = Room /\ promised' = promised /\ made' = made
  <1> USE DEF Pairs, Room
  <1>1. Rules!Push <=>
       /\ made' > made /\ Pairs' = Append(Pairs, made + 1)
       /\ IF Room = 0 THEN Room' \in Nat ELSE Room' = Room - 1
       /\ promised' = IF promised = 0 THEN 0 ELSE promised - 1
    BY Zenon DEF Rules!Push
  <1>2. Rules!EnsureRoom <=>
       Room' >= Room /\ promised' >= promised /\ Pairs' = Pairs /\ made' = made
    BY Zenon DEF Rules!EnsureRoom
  <1>3. Rules!TakeLast <=>
       /\ Pairs # <<>> /\ Pairs' = SubSeq(Pairs, 1, Len(Pairs) - 1)
       /\ Room' \in {Room, Room + 1} /\ promised' = promised /\ made' = made
    BY Zenon DEF Rules!TakeLast
  <1>4. Rules!TakeFirst <=>
       /\ Pairs # <<>> /\ Pairs' = Tail(Pairs)
       /\ Room' = Room /\ promised' = promised /\ made' = made
    BY Zenon DEF Rules!TakeFirst
  <1>5. Rules!Empty <=>
       /\ Pairs' = <<>> /\ made' = made
       /\ (Room' = Room + Len(Pairs) /\ promised' = promised) \/ promised' = 0
    BY Zenon DEF Rules!Empty
  <1>6. Rules!Clones <=>
       /\ Pairs = <<>> /\ Pairs' = [i \in 1 .. Len(Pairs') |-> made + i]
       /\ made' >= made + Len(Pairs') /\ promised' = 0
    BY DEF Rules!Clones
  <1>7. Rules!IntoIter <=> Room' = 0 /\ promised' = 0 /\ Pairs' = Pairs /\ made' = made
    BY Zenon DEF Rules!IntoIter
  <1>8. UNCHANGED Rules!vars <=>
       Pairs' = Pairs /\ Room' = Room /\ promised' = promised /\ made' = made
    BY DEF Rules!vars
  <1>9. QED
    BY <1>1, <1>2, <1>3, <1>4, <1>5, <1>6, <1>7, <1>8

-----------------------------------------------------------------------------
(* The PairVec implements the rules *)

\* The pairs of the contents are those of these positions.
PairsFrom == IF mode = "iter" THEN start ELSE 0
PairsLong ==
  CASE mode \in {"vec", "parts"} -> buffer.len
    [] mode = "iter" -> buffer.len - start
    [] OTHER -> 0

HasPairs ==
  /\ PairsLong \in Nat /\ contents \in Seq(Nat) /\ Len(contents) = PairsLong
  /\ \A i \in 1 .. PairsLong : \A p : p = PairsFrom + i - 1 => contents[i] = PairNo(p)

PairPromise == promised \in Nat /\ room \in Nat /\ promised <= room

LEMMA ContentsPairs == PairInv => HasPairs /\ PairPromise
  <1> SUFFICES ASSUME PairInv PROVE HasPairs /\ PairPromise
    OBVIOUS
  <1>1. PairFields /\ made \in Nat /\ buffer.len \in Nat /\ buffer.capacity \in Nat
    BY PairParts DEF PairInv
  <1>2. PairPromise
    <2>1. room \in Nat
      BY <1>1, PairParts DEF room
    <2>2. QED
      BY <1>1, <2>1 DEF PairFields, PairPromise
  <1>3. ASSUME mode # "fill", NEW p \in Whole PROVE PairNo(p) \in Nat
    <2>1. PairNo(p) \in 1 .. made
      BY <1>3 DEF PairInv, PairItems, InPairs
    <2>2. QED
      BY <1>1, <2>1
  <1>4. CASE mode \in {"vec", "parts"}
    <2>1. /\ contents = [i \in 1 .. buffer.len |-> PairNo(i - 1)] /\ PairsLong = buffer.len
          /\ PairsFrom = 0 /\ Whole = 0 .. buffer.len - 1
      BY <1>1, <1>4, PairParts DEF contents, PairNo, PairsLong, PairsFrom
    <2>2. \A i \in 1 .. PairsLong : contents[i] \in Nat
      BY <1>1, <1>3, <1>4, <2>1
    <2>3. contents = [i \in 1 .. PairsLong |-> contents[i]] /\ PairsLong \in Nat
      BY <1>1, <2>1
    <2>4. contents \in Seq(Nat) /\ Len(contents) = PairsLong
      BY <2>2, <2>3, SequenceOf
    <2>5. ASSUME NEW i \in 1 .. PairsLong, NEW p, p = PairsFrom + i - 1
          PROVE  contents[i] = PairNo(p)
      <3>1. p = i - 1
        BY <1>1, <2>1, <2>5
      <3>2. QED
        BY <2>1, <2>5, <3>1
    <2>6. QED
      BY <1>2, <2>3, <2>4, <2>5 DEF HasPairs
  <1>5. CASE mode = "iter"
    <2>1. /\ contents = [i \in 1 .. buffer.len - start |-> PairNo(start + i - 1)]
          /\ PairsLong = buffer.len - start /\ PairsFrom = start
          /\ Whole = start .. buffer.len - 1 /\ start \in Nat /\ start <= buffer.len
      BY <1>1, <1>5, PairParts DEF contents, PairNo, PairsLong, PairsFrom, PairFields
    <2>2. PairsLong \in Nat
      BY <1>1, <2>1
    <2>3. ASSUME NEW i \in 1 .. PairsLong PROVE contents[i] \in Nat
      <3>1. start + i - 1 \in Whole
        BY <1>1, <2>1
      <3>2. QED
        BY <1>3, <1>5, <2>1, <3>1
    <2>4. contents = [i \in 1 .. PairsLong |-> contents[i]]
      BY <2>1
    <2>5. contents \in Seq(Nat) /\ Len(contents) = PairsLong
      BY <2>2, <2>3, <2>4, SequenceOf
    <2>6. \A i \in 1 .. PairsLong : \A p : p = PairsFrom + i - 1 => contents[i] = PairNo(p)
      BY <2>1
    <2>7. QED
      BY <1>2, <2>2, <2>5, <2>6 DEF HasPairs
  <1>6. CASE mode \in {"fill", "dropped"}
    BY <1>2, <1>6 DEF contents, PairsLong, HasPairs
  <1>7. QED
    BY <1>1, <1>4, <1>5, <1>6 DEF PairFields

LEMMA NextContentsPairs == PairInv' => HasPairs' /\ PairPromise'
  BY ContentsPairs, PTL

\* Where the pairs are, by mode.
LEMMA PairPlaces ==
  ASSUME PairFields
  PROVE  /\ mode \in {"vec", "parts"} => PairsFrom = 0 /\ PairsLong = buffer.len
         /\ mode = "iter" => PairsFrom = start /\ PairsLong = buffer.len - start
         /\ mode \in {"fill", "dropped"} => PairsLong = 0
         /\ mode # "fill" => \A i \in 1 .. PairsLong : PairsFrom + i - 1 \in Whole
         /\ buffer.len \in Nat /\ start \in Nat /\ made \in Nat
         /\ mode = "vec" => room = buffer.capacity - buffer.len
         /\ mode # "vec" => room = 0
         /\ buffer.capacity \in Nat
  <1>1. /\ mode \in {"vec", "parts"} => PairsFrom = 0 /\ PairsLong = buffer.len
        /\ mode = "iter" => PairsFrom = start /\ PairsLong = buffer.len - start
        /\ mode \in {"fill", "dropped"} => PairsLong = 0
    BY DEF PairsFrom, PairsLong
  <1>2. /\ buffer.len \in Nat /\ start \in Nat /\ made \in Nat /\ buffer.capacity \in Nat
        /\ mode \in {"vec", "fill", "parts", "iter", "dropped"}
        /\ mode \in {"vec", "parts"} => Whole = 0 .. buffer.len - 1
        /\ mode = "iter" => Whole = start .. buffer.len - 1
    BY PairParts DEF PairFields
  <1>3. ASSUME mode # "fill", NEW i \in 1 .. PairsLong PROVE PairsFrom + i - 1 \in Whole
    BY <1>1, <1>2, <1>3
  <1>4. QED
    BY <1>1, <1>2, <1>3 DEF room

\* The same number of the same pairs.
LEMMA SameContents ==
  ASSUME HasPairs, HasPairs', PairsLong' = PairsLong,
         \A i \in 1 .. PairsLong : \A p, r :
           p = PairsFrom' + i - 1 /\ r = PairsFrom + i - 1 => PairNo(p)' = PairNo(r)
  PROVE  contents' = contents
  <1>1. /\ contents \in Seq(Nat) /\ contents' \in Seq(Nat)
        /\ Len(contents) = PairsLong /\ Len(contents') = PairsLong
    BY DEF HasPairs
  <1>2. ASSUME NEW i \in 1 .. PairsLong PROVE contents'[i] = contents[i]
    <2>1. PICK p : p = PairsFrom' + i - 1
      OBVIOUS
    <2>2. PICK r : r = PairsFrom + i - 1
      OBVIOUS
    <2>3. contents[i] = PairNo(r)
      BY <2>2 DEF HasPairs
    <2>4. contents'[i] = PairNo(p)'
      BY <2>1 DEF HasPairs
    <2>5. QED
      BY <2>1, <2>2, <2>3, <2>4
  <1>3. QED
    BY <1>1, <1>2, SeqEqual

LEMMA VecKind ==
  ASSUME kind = "PairVec", kind' = kind
  PROVE  Pairs = contents /\ Pairs' = contents' /\ Room = room /\ Room' = room'
  BY DEF Pairs, Room

\* The hypotheses of what follows: a step of a PairVec from a state of the
\* invariant to another.
VecStep == kind = "PairVec" /\ kind' = kind /\ PairInv /\ PairInv'

LEMMA VecStepParts ==
  ASSUME VecStep
  PROVE  /\ HasPairs /\ HasPairs' /\ PairPromise' /\ PairFields /\ PairFields'
         /\ Pairs = contents /\ Pairs' = contents' /\ Room = room /\ Room' = room'
         /\ contents \in Seq(Nat) /\ contents' \in Seq(Nat)
         /\ Len(contents) = PairsLong /\ Len(contents') = PairsLong'
         /\ PairsLong \in Nat /\ PairsLong' \in Nat
  BY ContentsPairs, NextContentsPairs, VecKind DEF VecStep, PairInv, HasPairs

LEMMA VecPushes ==
  ASSUME VecStep, Push
  PROVE  Rules!Push
  <1>1. /\ mode = "vec" /\ mode' = "vec" /\ made' = made + 1 /\ start' = start /\ promised \in Nat
        /\ promised' = Larger(promised - 1, 0)
    BY VecStepParts, PairParts DEF Push, VecStep
  <1>2. /\ buffer'.len = buffer.len + 1 /\ (room = 0 \/ room' = room - 1)
        /\ \A p \in {buffer.len} : PairNo(p)' = made + 1
        /\ \A p \in Whole : PairNo(p)' = PairNo(p)
    BY PushKeeps DEF VecStep
  <1>3. /\ PairsFrom = 0 /\ PairsLong = buffer.len /\ buffer.len \in Nat /\ made \in Nat
        /\ \A i \in 1 .. PairsLong : PairsFrom + i - 1 \in Whole
    BY <1>1, PairPlaces, VecStepParts
  <1>4. PairsFrom' = 0 /\ PairsLong' = PairsLong + 1
    BY <1>1, <1>2, <1>3 DEF PairsFrom, PairsLong
  <1>5. ASSUME NEW i \in 1 .. PairsLong PROVE contents'[i] = contents[i]
    <2>1. PICK p : p = PairsFrom + i - 1
      OBVIOUS
    <2>2. p \in Whole /\ p = PairsFrom' + i - 1 /\ i \in 1 .. PairsLong'
      BY <1>3, <1>4, <2>1
    <2>3. contents[i] = PairNo(p)
      BY <2>1, VecStepParts DEF HasPairs
    <2>4. contents'[i] = PairNo(p)'
      BY <2>2, VecStepParts DEF HasPairs
    <2>5. QED
      BY <1>2, <2>2, <2>3, <2>4
  <1>6. contents'[PairsLong + 1] = made + 1
    <2>1. PICK p : p = buffer.len
      OBVIOUS
    <2>2. p = PairsFrom' + (PairsLong + 1) - 1 /\ PairsLong + 1 \in 1 .. PairsLong'
      BY <1>3, <1>4, <2>1
    <2>3. contents'[PairsLong + 1] = PairNo(p)'
      BY <2>2, VecStepParts DEF HasPairs
    <2>4. QED
      BY <1>2, <2>1, <2>3
  <1>7. contents' = Append(contents, made + 1)
    <2>1. /\ contents \in Seq(Nat) /\ contents' \in Seq(Nat) /\ made + 1 \in Nat
          /\ Len(contents') = Len(contents) + 1 /\ Len(contents) = PairsLong
      BY <1>3, <1>4, VecStepParts
    <2>2. QED
      BY <1>5, <1>6, <2>1, OneMore
  <1>8. Room' \in Nat /\ (Room = 0 \/ Room' = Room - 1)
    BY <1>2, VecStepParts DEF PairPromise
  <1>9. promised' = IF promised = 0 THEN 0 ELSE promised - 1
    BY <1>1 DEF Larger
  <1>10. Pairs' = Append(Pairs, made + 1) /\ made' > made
    BY <1>1, <1>3, <1>7, VecStepParts
  <1>11. QED
    BY <1>8, <1>9, <1>10, RulesSteps

LEMMA VecTakesLast ==
  ASSUME VecStep, Pop \/ IterNextBack
  PROVE  Rules!TakeLast
  <1>1. /\ mode \in {"vec", "iter"} /\ mode' = mode /\ made' = made /\ start' = start
        /\ promised' = promised
    BY DEF Pop, IterNextBack
  <1>2. /\ Whole # {} /\ Whole' = Whole \ {buffer.len - 1} /\ buffer'.len = buffer.len - 1
        /\ room' \in {room, room + 1} /\ \A p \in Whole' : PairNo(p)' = PairNo(p)
    BY LastGoes DEF VecStep
  <1>3. /\ mode = "vec" => PairsFrom = 0 /\ PairsLong = buffer.len /\ Whole = 0 .. buffer.len - 1
        /\ mode = "iter" => /\ PairsFrom = start /\ PairsLong = buffer.len - start
                            /\ Whole = start .. buffer.len - 1
        /\ buffer.len \in Nat /\ start \in Nat
    BY VecStepParts, PairPlaces, PairParts
  <1>4. PairsLong > 0
    BY <1>1, <1>2, <1>3
  <1>5. PairsFrom' = PairsFrom /\ PairsLong' = PairsLong - 1
    BY <1>1, <1>2, <1>3 DEF PairsFrom, PairsLong
  <1>6. ASSUME NEW i \in 1 .. PairsLong - 1 PROVE contents'[i] = contents[i]
    <2>1. PICK p : p = PairsFrom + i - 1
      OBVIOUS
    <2>2. p \in Whole' /\ p = PairsFrom' + i - 1 /\ i \in 1 .. PairsLong' /\ i \in 1 .. PairsLong
      BY <1>1, <1>2, <1>3, <1>5, <2>1
    <2>3. contents[i] = PairNo(p)
      BY <2>1, <2>2, VecStepParts DEF HasPairs
    <2>4. contents'[i] = PairNo(p)'
      BY <2>2, VecStepParts DEF HasPairs
    <2>5. QED
      BY <1>2, <2>2, <2>3, <2>4
  <1>7. contents # <<>> /\ contents' = SubSeq(contents, 1, Len(contents) - 1)
    BY <1>4, <1>5, <1>6, VecStepParts, LastOff
  <1>8. QED
    BY <1>1, <1>2, <1>7, VecStepParts, RulesSteps

LEMMA VecTakesFirst ==
  ASSUME VecStep, IterNext
  PROVE  Rules!TakeFirst
  <1>1. /\ mode = "iter" /\ mode' = mode /\ made' = made /\ start' = start + 1
        /\ promised' = promised /\ buffer' = buffer
    BY DEF IterNext
  <1>2. /\ start < buffer.len /\ Whole' = Whole \ {start}
        /\ \A p \in Whole' : PairNo(p)' = PairNo(p)
    BY FirstGoes DEF VecStep
  <1>3. /\ PairsFrom = start /\ PairsLong = buffer.len - start /\ Whole = start .. buffer.len - 1
        /\ buffer.len \in Nat /\ start \in Nat /\ room = 0
    BY <1>1, VecStepParts, PairPlaces, PairParts
  <1>4. PairsLong > 0 /\ PairsFrom' = start + 1 /\ PairsLong' = PairsLong - 1 /\ room' = 0
    BY <1>1, <1>2, <1>3 DEF PairsFrom, PairsLong, room
  <1>5. ASSUME NEW i \in 1 .. PairsLong - 1 PROVE contents'[i] = contents[i + 1]
    <2>1. PICK p : p = start + i
      OBVIOUS
    <2>2. /\ p \in Whole' /\ p = PairsFrom' + i - 1 /\ i \in 1 .. PairsLong'
          /\ p = PairsFrom + (i + 1) - 1 /\ i + 1 \in 1 .. PairsLong
      BY <1>2, <1>3, <1>4, <2>1
    <2>3. contents[i + 1] = PairNo(p)
      BY <2>2, VecStepParts DEF HasPairs
    <2>4. contents'[i] = PairNo(p)'
      BY <2>2, VecStepParts DEF HasPairs
    <2>5. QED
      BY <1>2, <2>2, <2>3, <2>4
  <1>6. contents # <<>> /\ contents' = Tail(contents)
    BY <1>4, <1>5, VecStepParts, FirstOff
  <1>7. QED
    BY <1>1, <1>3, <1>4, <1>6, VecStepParts, RulesSteps

LEMMA VecMakesRoom ==
  ASSUME VecStep, NEW n \in 1 .. LenMax, EnsureRoom(n)
  PROVE  Rules!EnsureRoom
  <1>1. mode = "vec" /\ mode' = mode /\ made' = made /\ start' = start
    BY DEF EnsureRoom
  <1>2. /\ buffer'.len = buffer.len /\ room' >= room /\ promised' >= promised
        /\ \A p \in Whole : PairNo(p)' = PairNo(p)
    BY EnsureRoomKeeps DEF VecStep
  <1>3. PairsFrom' = PairsFrom /\ PairsLong' = PairsLong
    BY <1>1, <1>2 DEF PairsFrom, PairsLong
  <1>4. \A i \in 1 .. PairsLong : PairsFrom + i - 1 \in Whole
    BY <1>1, VecStepParts, PairPlaces
  <1>5. contents' = contents
    BY <1>2, <1>3, <1>4, VecStepParts, SameContents
  <1>6. QED
    BY <1>1, <1>2, <1>5, VecStepParts, RulesSteps

LEMMA VecTurns ==
  ASSUME VecStep, IntoRawParts \/ FromRawParts \/ IntoIter
  PROVE  Rules!IntoIter \/ Rules!EnsureRoom
  <1>1. /\ mode \in {"vec", "parts"} /\ mode' \in {"vec", "parts", "iter"} /\ made' = made
        /\ start' = start /\ buffer' = buffer
        /\ mode' # "vec" => promised' = 0
        /\ mode' = "vec" => promised' = promised /\ mode = "parts"
    BY DEF IntoRawParts, FromRawParts, IntoIter
  <1>2. Whole' = Whole /\ \A p \in Whole : PairNo(p)' = PairNo(p)
    BY IntoKeeps DEF VecStep
  <1>3. start = 0 /\ buffer.len \in Nat
    BY <1>1, VecStepParts, PairPlaces DEF PairFields
  <1>4. PairsFrom' = PairsFrom /\ PairsLong' = PairsLong
    BY <1>1, <1>3 DEF PairsFrom, PairsLong
  <1>5. \A i \in 1 .. PairsLong : PairsFrom + i - 1 \in Whole
    BY <1>1, VecStepParts, PairPlaces
  <1>6. contents' = contents
    BY <1>2, <1>4, <1>5, VecStepParts, SameContents
  <1>7. CASE mode' # "vec"
    <2>1. room' = 0
      BY <1>7 DEF room
    <2>2. QED
      BY <1>1, <1>6, <1>7, <2>1, VecStepParts, RulesSteps
  <1>8. CASE mode' = "vec"
    <2>1. room = 0 /\ room' \in Nat /\ promised \in Nat
      BY <1>1, <1>8, VecStepParts, PairPlaces, PairParts DEF PairPromise
    <2>2. room' >= room /\ promised' >= promised
      BY <1>1, <1>8, <2>1
    <2>3. QED
      BY <1>1, <1>6, <2>2, VecStepParts, RulesSteps
  <1>9. QED
    BY <1>7, <1>8

LEMMA VecEmpties ==
  ASSUME VecStep, Clear \/ (\E n \in 0 .. LenMax : CloneFrom(n)) \/ Drop \/ IterDrop
  PROVE  Rules!Empty
  <1>1. CASE Clear
    <2>1. /\ mode = "vec" /\ mode' = "vec" /\ made' = made /\ promised' = promised
          /\ buffer'.len = 0 /\ buffer'.capacity = buffer.capacity
      BY <1>1, AllGo DEF Clear, VecStep
    <2>2. /\ PairsLong = buffer.len /\ room = buffer.capacity - buffer.len
          /\ buffer.len \in Nat /\ buffer.capacity \in Nat
      BY <2>1, VecStepParts, PairPlaces
    <2>3. PairsLong' = 0 /\ room' = buffer.capacity - 0
      BY <2>1 DEF PairsLong, room
    <2>4. contents' = <<>> /\ room' = room + Len(contents)
      BY <2>2, <2>3, VecStepParts
    <2>5. QED
      BY <2>1, <2>4, VecStepParts, RulesSteps
  <1>2. CASE (\E n \in 0 .. LenMax : CloneFrom(n)) \/ Drop \/ IterDrop
    <2>1. mode' \in {"fill", "dropped"} /\ made' = made /\ promised' = 0
      BY <1>2 DEF CloneFrom, Drop, IterDrop
    <2>2. contents' = <<>>
      BY <2>1 DEF contents
    <2>3. QED
      BY <2>1, <2>2, VecStepParts, RulesSteps
  <1>3. QED
    BY <1>1, <1>2

LEMMA VecFills ==
  ASSUME VecStep, FillEnds
  PROVE  Rules!Clones
  <1>1. /\ mode = "fill" /\ mode' = "vec" /\ made' = made + source /\ promised' = promised
        /\ buffer'.len = seconds /\ \A p \in 0 .. seconds - 1 : PairNo(p)' = made + p + 1
    BY FillEndsKeeps DEF FillEnds, VecStep
  <1>2. /\ seconds \in Nat /\ source \in Nat /\ seconds <= source /\ made \in Nat /\ promised = 0
        /\ contents = <<>>
    <2>1. room = 0 /\ promised \in 0 .. room
      BY <1>1, VecStepParts, PairPlaces DEF PairFields
    <2>2. /\ seconds \in Nat /\ source \in Nat /\ firsts \in Nat
          /\ seconds <= firsts /\ firsts <= source
      BY <1>1, VecStepParts DEF PairFields
    <2>3. contents = <<>>
      BY <1>1 DEF contents
    <2>4. QED
      BY <2>1, <2>2, <2>3, VecStepParts, PairPlaces
  <1>3. PairsFrom' = 0 /\ PairsLong' = seconds
    BY <1>1 DEF PairsFrom, PairsLong
  <1>4. ASSUME NEW i \in 1 .. seconds PROVE contents'[i] = made + i
    <2>1. PICK p : p = i - 1
      OBVIOUS
    <2>2. p = PairsFrom' + i - 1 /\ p \in 0 .. seconds - 1 /\ made + p + 1 = made + i
      BY <1>2, <1>3, <2>1
    <2>3. contents'[i] = PairNo(p)'
      BY <1>3, <2>2, VecStepParts DEF HasPairs
    <2>4. QED
      BY <1>1, <2>2, <2>3
  <1>5. contents' = [i \in 1 .. Len(contents') |-> made + i] /\ Len(contents') = seconds
    <2>1. Len(contents') = seconds /\ contents' \in Seq(Nat)
      BY <1>3, VecStepParts
    <2>2. contents' = [i \in 1 .. seconds |-> contents'[i]]
      BY <2>1
    <2>3. QED
      BY <1>4, <2>1, <2>2
  <1>6. QED
    BY <1>1, <1>2, <1>5, VecStepParts, RulesSteps

LEMMA VecNext == VecStep /\ [Next]_vars => [Rules!Next]_(Rules!vars)
  <1> SUFFICES ASSUME VecStep, [Next]_vars PROVE [Rules!Next]_(Rules!vars)
    OBVIOUS
  <1>1. promised' <= Room' /\ Room' \in Nat
    BY VecStepParts DEF PairPromise
  <1>2. Rules!Next <=>
          /\ \/ Rules!Push \/ Rules!EnsureRoom \/ Rules!TakeLast \/ Rules!TakeFirst
             \/ Rules!Empty \/ Rules!Clones \/ Rules!IntoIter
          /\ promised' <= Room' /\ Room' \in Nat
    BY DEF Rules!Next, Room
  <1>3. CASE (\E n \in 1 .. LenMax : EnsureRoom(n)) \/ Push \/ Pop \/ IterNextBack \/ IterNext
    BY <1>1, <1>2, <1>3, VecMakesRoom, VecPushes, VecTakesLast, VecTakesFirst
  <1>4. CASE IntoRawParts \/ FromRawParts \/ IntoIter \/ FillEnds
    BY <1>1, <1>2, <1>4, VecTurns, VecFills
  <1>5. CASE Clear \/ (\E n \in 0 .. LenMax : CloneFrom(n)) \/ Drop \/ IterDrop
    BY <1>1, <1>2, <1>5, VecEmpties
  <1>6. CASE CloneFirst \/ CloneSecond
    <2>1. mode = "fill" /\ mode' = "fill" /\ made' = made /\ promised' = promised
      BY <1>6 DEF CloneFirst, CloneSecond
    <2>2. contents' = contents /\ room' = room
      BY <2>1 DEF contents, room
    <2>3. QED
      BY <2>1, <2>2, VecStepParts, RulesSteps
  <1>7. CASE UNCHANGED vars
    <2>1. UNCHANGED <<shape, buffer, promised, mode, start, made>>
      BY <1>7 DEF vars
    <2>2. PairsFrom' = PairsFrom /\ PairsLong' = PairsLong /\ room' = room
      BY <2>1 DEF PairsFrom, PairsLong, room
    <2>3. \A p : PairNo(p)' = PairNo(p)
      BY <2>1, SameShape DEF PairNo
    <2>4. contents' = contents
      BY <2>2, <2>3, VecStepParts, SameContents
    <2>5. QED
      BY <2>1, <2>2, <2>4, VecStepParts, RulesSteps
  <1>8. QED
    BY <1>3, <1>4, <1>5, <1>6, <1>7 DEF Next

-----------------------------------------------------------------------------
(* The SplitPair implements the rules *)

\* How many pairs the two storages hold between them.
PairCount == Split!Smaller(Len(first.items), Len(second.items))

HasPartners ==
  /\ Split!contents \in Seq(Nat)
  /\ mode \in {"vec", "iter"} => Len(Split!contents) = Len(first.items)
  /\ mode = "parts" => Len(Split!contents) = PairCount
  /\ mode \in {"fill", "dropped"} => Split!contents = <<>>
  /\ \A i \in 1 .. Len(Split!contents) : Split!contents[i] = first.items[i]

SplitPromise == promised \in Nat /\ Split!room \in Nat /\ promised <= Split!room

LEMMA ContentsPartners == SplitInv => HasPartners /\ SplitPromise
  <1> SUFFICES ASSUME SplitInv PROVE HasPartners /\ SplitPromise
    OBVIOUS
  <1>1. /\ SplitFields /\ Partnered /\ promised \in Nat /\ promised <= Split!room
        /\ mode \in {"vec", "fill", "parts", "iter", "dropped"}
        /\ Stored(first, made + source) /\ Stored(second, made)
    BY DEF SplitInv, SplitFields
  <1>2. /\ first.items \in Seq(Nat) /\ second.items \in Seq(Nat)
        /\ Len(first.items) \in Nat /\ Len(second.items) \in Nat
    BY <1>1, SplitRoom DEF Stored
  <1>3. SplitPromise
    <2>1. mode = "vec" => Split!room \in Int
      BY <1>1, SplitRoom DEF Split!Smaller
    <2>2. QED
      BY <1>1, <2>1, SplitRoom DEF SplitPromise
  <1>4. PairCount \in Nat /\ PairCount <= Len(first.items) /\ PairCount <= Len(second.items)
    BY <1>2 DEF PairCount, Split!Smaller
  <1>5. ASSUME \A i \in 1 .. PairCount : first.items[i] = second.items[i]
        PROVE  /\ Split!Partners \in Seq(Nat) /\ Len(Split!Partners) = PairCount
               /\ \A i \in 1 .. PairCount : Split!Partners[i] = first.items[i]
    <2> DEFINE f == Split!Partners
    <2>1. f = [i \in 1 .. PairCount |-> first.items[i]]
      BY <1>5 DEF Split!Partners, PairCount
    <2>2. \A i \in 1 .. PairCount : f[i] \in Nat /\ f[i] = first.items[i]
      BY <1>2, <1>4, <2>1
    <2>3. f = [i \in 1 .. PairCount |-> f[i]]
      BY <2>1
    <2> HIDE DEF f
    <2>4. f \in Seq(Nat) /\ Len(f) = PairCount
      BY <1>4, <2>2, <2>3, SequenceOf
    <2>5. QED
      BY <2>2, <2>4 DEF f
  <1>6. CASE mode \in {"vec", "iter"}
    <2>1. first.items = second.items
      BY <1>1, <1>6 DEF Partnered
    <2>2. PairCount = Len(first.items) /\ Split!contents = Split!Partners
      BY <1>6, <2>1 DEF PairCount, Split!Smaller, Split!contents, Split!InStep
    <2>3. QED
      BY <1>3, <1>5, <1>6, <2>1, <2>2 DEF HasPartners
  <1>7. CASE mode = "parts"
    <2>1. \A i \in 1 .. PairCount : first.items[i] = second.items[i]
      BY <1>1, <1>2, <1>4, <1>7 DEF Partnered
    <2>2. Split!contents = Split!Partners
      BY <1>7 DEF Split!contents
    <2>3. QED
      BY <1>3, <1>5, <1>7, <2>1, <2>2 DEF HasPartners
  <1>8. CASE mode \in {"fill", "dropped"}
    BY <1>3, <1>8 DEF HasPartners, Split!contents
  <1>9. QED
    BY <1>1, <1>6, <1>7, <1>8

LEMMA NextContentsPartners == SplitInv' => HasPartners' /\ SplitPromise'
  BY ContentsPartners, PTL

\* The hypotheses of what follows.
SplitPairStep == kind = "SplitPair" /\ kind' = kind /\ SplitInv /\ SplitInv'

LEMMA SplitStepParts ==
  ASSUME SplitPairStep
  PROVE  /\ HasPartners /\ HasPartners' /\ SplitPromise' /\ SplitFields /\ SplitFields'
         /\ Pairs = Split!contents /\ Pairs' = Split!contents'
         /\ Room = Split!room /\ Room' = Split!room'
         /\ Split!contents \in Seq(Nat) /\ Split!contents' \in Seq(Nat)
         /\ made \in Nat /\ source \in Nat /\ promised \in Nat /\ Split!room \in Nat
         /\ Len(first.items) \in Nat /\ Len(second.items) \in Nat
         /\ Len(first'.items) \in Nat /\ Len(second'.items) \in Nat
  <1>1. /\ Pairs = Split!contents /\ Pairs' = Split!contents'
        /\ Room = Split!room /\ Room' = Split!room'
    BY DEF SplitPairStep, Pairs, Room
  <1>2. HasPartners /\ HasPartners' /\ SplitPromise /\ SplitPromise' /\ SplitFields /\ SplitFields'
    BY ContentsPartners, NextContentsPartners DEF SplitPairStep, SplitInv
  <1>3. first'.items \in Seq(Nat) /\ second'.items \in Seq(Nat)
    BY <1>2 DEF SplitFields, Stored
  <1>4. Split!contents \in Seq(Nat) /\ Split!contents' \in Seq(Nat)
    BY <1>2 DEF HasPartners
  <1>5. /\ made \in Nat /\ source \in Nat /\ promised \in Nat /\ Split!room \in Nat
        /\ Len(first.items) \in Nat /\ Len(second.items) \in Nat
    BY <1>2, SplitRoom DEF SplitPromise
  <1>6. Len(first'.items) \in Nat /\ Len(second'.items) \in Nat
    BY <1>3
  <1>7. QED
    BY <1>1, <1>2, <1>4, <1>5, <1>6

LEMMA SplitRulesPush ==
  ASSUME SplitPairStep, Split!Push
  PROVE  Rules!Push
  <1>1. /\ mode = "vec" /\ mode' = mode /\ made' = made + 1 /\ first'.items = Append(first.items, made + 1)
        /\ Split!room' = Split!room - 1 /\ promised' = IF promised = 0 THEN 0 ELSE promised - 1
    BY SplitPushes DEF SplitPairStep
  <1>2. first.items \in Seq(Nat) /\ made + 1 \in Nat
    BY SplitStepParts DEF SplitFields, Stored
  <1>3. /\ Len(first'.items) = Len(first.items) + 1 /\ first'.items[Len(first.items) + 1] = made + 1
        /\ \A i \in 1 .. Len(first.items) : first'.items[i] = first.items[i]
    BY <1>1, <1>2, AppendProperties
  <1>4. Len(Split!contents) = Len(first.items) /\ Len(Split!contents') = Len(first.items) + 1
    BY <1>1, <1>3, SplitStepParts DEF HasPartners
  <1>5. \A i \in 1 .. Len(first.items) : i \in 1 .. Len(first.items) + 1
    BY SplitStepParts
  <1>6. \A i \in 1 .. Len(Split!contents) : Split!contents'[i] = Split!contents[i]
    BY <1>3, <1>4, <1>5, SplitStepParts DEF HasPartners
  <1>7. Split!contents'[Len(Split!contents) + 1] = made + 1
    <2>1. Len(Split!contents) + 1 \in 1 .. Len(Split!contents')
      BY <1>4, SplitStepParts
    <2>2. QED
      BY <1>3, <1>4, <2>1, SplitStepParts DEF HasPartners
  <1>8. Split!contents' = Append(Split!contents, made + 1)
    <2>1. /\ Split!contents \in Seq(Nat) /\ Split!contents' \in Seq(Nat) /\ made + 1 \in Nat
          /\ Len(Split!contents') = Len(Split!contents) + 1
      BY <1>2, <1>4, SplitStepParts
    <2>2. QED
      BY <1>6, <1>7, <2>1, OneMore
  <1>9. Room' \in Nat /\ Room' = Room - 1 /\ made' > made
    BY <1>1, SplitStepParts DEF SplitPromise
  <1>10. QED
    BY <1>1, <1>8, <1>9, SplitStepParts, RulesSteps

LEMMA SplitRulesLast ==
  ASSUME SplitPairStep, Split!Pop \/ Split!IterNextBack
  PROVE  Rules!TakeLast
  <1>1. /\ mode \in {"vec", "iter"} /\ mode' = mode /\ made' = made /\ promised' = promised
        /\ Len(first'.items) = Len(first.items) - 1 /\ Len(first.items) > 0
        /\ \A i \in 1 .. Len(first.items) - 1 : first'.items[i] = first.items[i]
        /\ Split!room' \in {Split!room, Split!room + 1}
    BY SplitLastGoes DEF SplitPairStep
  <1>2. Len(Split!contents) = Len(first.items) /\ Len(Split!contents') = Len(first.items) - 1
    BY <1>1, SplitStepParts DEF HasPartners
  <1>3. \A i \in 1 .. Len(first.items) - 1 : i \in 1 .. Len(first.items)
    BY SplitStepParts
  <1>4. \A i \in 1 .. Len(Split!contents) - 1 : Split!contents'[i] = Split!contents[i]
    BY <1>1, <1>2, <1>3, SplitStepParts DEF HasPartners
  <1>5. /\ Split!contents # <<>>
        /\ Split!contents' = SubSeq(Split!contents, 1, Len(Split!contents) - 1)
    BY <1>1, <1>2, <1>4, SplitStepParts, LastOff
  <1>6. QED
    BY <1>1, <1>5, SplitStepParts, RulesSteps

LEMMA SplitRulesFirst ==
  ASSUME SplitPairStep, Split!IterNext
  PROVE  Rules!TakeFirst
  <1>1. /\ mode = "iter" /\ mode' = mode /\ made' = made /\ promised' = promised
        /\ Len(first'.items) = Len(first.items) - 1 /\ Len(first.items) > 0
        /\ \A i \in 1 .. Len(first.items) - 1 : first'.items[i] = first.items[i + 1]
    BY SplitFirstGoes DEF SplitPairStep
  <1>2. Len(Split!contents) = Len(first.items) /\ Len(Split!contents') = Len(first.items) - 1
    BY <1>1, SplitStepParts DEF HasPartners
  <1>3. \A i \in 1 .. Len(first.items) - 1 : i + 1 \in 1 .. Len(first.items)
    BY SplitStepParts
  <1>4. \A i \in 1 .. Len(Split!contents) - 1 : Split!contents'[i] = Split!contents[i + 1]
    BY <1>1, <1>2, <1>3, SplitStepParts DEF HasPartners
  <1>5. Split!contents # <<>> /\ Split!contents' = Tail(Split!contents)
    BY <1>1, <1>2, <1>4, SplitStepParts, FirstOff
  <1>6. Split!room = 0 /\ Split!room' = 0
    BY <1>1 DEF Split!room
  <1>7. QED
    BY <1>1, <1>5, <1>6, SplitStepParts, RulesSteps

LEMMA SplitSameContents ==
  ASSUME SplitPairStep, Len(Split!contents') = Len(Split!contents),
         \A i \in 1 .. Len(Split!contents) : first'.items[i] = first.items[i]
  PROVE  Split!contents' = Split!contents
  <1>1. \A i \in 1 .. Len(Split!contents) : Split!contents'[i] = Split!contents[i]
    BY SplitStepParts DEF HasPartners
  <1>2. QED
    BY <1>1, SplitStepParts, SeqEqual

LEMMA SplitRulesRoom ==
  ASSUME SplitPairStep, NEW n \in 1 .. FirstMax, Split!EnsureRoom(n) \/ Split!SecondRefuses(n)
  PROVE  Rules!EnsureRoom
  <1>1. /\ mode = "vec" /\ mode' = mode /\ made' = made /\ first'.items = first.items
        /\ Split!room' >= Split!room /\ promised' >= promised
    BY SplitGrows DEF SplitPairStep
  <1>2. Len(Split!contents') = Len(Split!contents)
    BY <1>1, SplitStepParts DEF HasPartners
  <1>3. Split!contents' = Split!contents
    BY <1>1, <1>2, SplitSameContents
  <1>4. QED
    BY <1>1, <1>3, SplitStepParts, RulesSteps

\* A storage of the parts pops an item: if its partner is there, that is the
\* last of the pairs.
LEMMA SplitRulesParts ==
  ASSUME SplitPairStep, Split!PopFirst \/ Split!PopSecond
  PROVE  Rules!TakeLast \/ UNCHANGED Rules!vars
  <1>1. /\ mode = "parts" /\ mode' = mode /\ made' = made /\ promised' = promised
        /\ \/ /\ second' = second /\ Len(first'.items) = Len(first.items) - 1
              /\ \A i \in 1 .. Len(first.items) - 1 : first'.items[i] = first.items[i]
           \/ first' = first /\ Len(second'.items) = Len(second.items) - 1
    BY PartPops DEF SplitPairStep
  <1>2. Split!room = 0 /\ Split!room' = 0
    BY <1>1 DEF Split!room
  <1>3. /\ Len(Split!contents) = Split!Smaller(Len(first.items), Len(second.items))
        /\ Len(Split!contents') = Split!Smaller(Len(first'.items), Len(second'.items))
    BY <1>1, SplitStepParts DEF HasPartners, PairCount
  <1>4. ASSUME NEW i \in 1 .. Len(Split!contents') PROVE first'.items[i] = first.items[i]
    <2>1. i \in 1 .. Len(first'.items)
      BY <1>3, SplitStepParts DEF Split!Smaller
    <2>2. QED
      BY <1>1, <2>1
  <1>5. /\ Len(Split!contents) \in Nat /\ Len(Split!contents') \in Nat
        /\ Len(Split!contents') \in {Len(Split!contents), Len(Split!contents) - 1}
    BY <1>1, <1>3, SplitStepParts DEF Split!Smaller
  <1>6. CASE Len(Split!contents') = Len(Split!contents)
    <2>1. Split!contents' = Split!contents
      BY <1>4, <1>6, SplitSameContents
    <2>2. QED
      BY <1>1, <1>2, <2>1, SplitStepParts, RulesSteps
  <1>7. CASE Len(Split!contents') = Len(Split!contents) - 1
    <2>1. \A i \in 1 .. Len(Split!contents) - 1 : i \in 1 .. Len(Split!contents)
      BY <1>5
    <2>2. \A i \in 1 .. Len(Split!contents) - 1 : Split!contents'[i] = Split!contents[i]
      BY <1>4, <1>7, <2>1, SplitStepParts DEF HasPartners
    <2>3. Len(Split!contents) > 0
      BY <1>5, <1>7
    <2>4. /\ Split!contents # <<>>
          /\ Split!contents' = SubSeq(Split!contents, 1, Len(Split!contents) - 1)
      BY <1>7, <2>2, <2>3, SplitStepParts, LastOff
    <2>5. QED
      BY <1>1, <1>2, <2>4, SplitStepParts, RulesSteps
  <1>8. QED
    BY <1>5, <1>6, <1>7

LEMMA SplitRulesTurn ==
  ASSUME SplitPairStep, Split!IntoParts \/ Split!FromParts \/ Split!IntoIter
  PROVE  Rules!IntoIter \/ Rules!EnsureRoom
  <1>1. /\ mode \in {"vec", "parts"} /\ mode' \in {"vec", "parts", "iter"} /\ mode' # mode
        /\ made' = made /\ promised' = 0 /\ first' = first /\ second' = second
        /\ mode' # "vec" => mode = "vec"
        /\ mode' = "vec" => promised = 0 /\ Len(first.items) = Len(second.items)
    BY SplitTurns DEF SplitPairStep
  <1>2. Len(first.items) = Len(second.items)
    <2>1. mode = "vec" => first.items = second.items
      BY DEF SplitPairStep, SplitInv, Partnered
    <2>2. QED
      BY <1>1, <2>1
  <1>3. /\ Len(Split!contents) = Len(first.items)
        /\ Len(Split!contents') = Len(first.items)
    BY <1>1, <1>2, SplitStepParts DEF HasPartners, PairCount, Split!Smaller
  <1>4. Split!contents' = Split!contents
    BY <1>1, <1>3, SplitSameContents
  <1>5. CASE mode' # "vec"
    <2>1. Split!room' = 0
      BY <1>5 DEF Split!room
    <2>2. QED
      BY <1>1, <1>4, <2>1, SplitStepParts, RulesSteps
  <1>6. CASE mode' = "vec"
    <2>1. Split!room = 0 /\ promised = 0 /\ Split!room' \in Nat
      BY <1>1, <1>6, SplitStepParts DEF Split!room, SplitPromise
    <2>2. Split!room' >= Split!room /\ promised' >= promised
      BY <1>1, <2>1
    <2>3. QED
      BY <1>1, <1>4, <2>2, SplitStepParts, RulesSteps
  <1>7. QED
    BY <1>5, <1>6

LEMMA SplitRulesEmpty ==
  ASSUME SplitPairStep,
         Split!Clear \/ Split!ClonePanics \/ Split!PartsRefused \/ Split!Drop
           \/ \E n \in 0 .. ItemsMax : Split!CloneFirst(n)
  PROVE  Rules!Empty \/ Rules!Clones
  <1>1. CASE Split!Clear \/ Split!ClonePanics \/ Split!PartsRefused \/ Split!Drop
    <2>1. /\ mode' \in {"vec", "dropped"} /\ first'.items = <<>> /\ second'.items = <<>>
          /\ mode = "fill" => /\ made' = made + source /\ promised' = 0 /\ mode' = "vec"
          /\ mode # "fill" => made' = made
          /\ promised' = 0 \/ (/\ mode = "vec" /\ mode' = "vec" /\ promised' = promised
                               /\ Split!room' = Split!room + Len(first.items))
      BY <1>1, SplitEmpties DEF SplitPairStep
    <2>2. Split!contents' = <<>> /\ Len(Split!contents') = 0
      <3>1. mode' = "vec" => Len(Split!contents') = 0
        BY <2>1, SplitStepParts DEF HasPartners
      <3>2. mode' = "dropped" => Split!contents' = <<>>
        BY SplitStepParts DEF HasPartners
      <3>3. QED
        BY <2>1, <3>1, <3>2, SplitStepParts
    <2>3. CASE mode # "fill"
      <3>1. mode = "vec" => Len(Split!contents) = Len(first.items)
        BY SplitStepParts DEF HasPartners
      <3>2. promised' = 0 \/ (Split!room' = Split!room + Len(Split!contents) /\ promised' = promised)
        BY <2>1, <3>1
      <3>3. QED
        BY <2>1, <2>2, <2>3, <3>2, SplitStepParts, RulesSteps
    <2>4. CASE mode = "fill"
      <3>1. Split!contents = <<>>
        BY <2>4, SplitStepParts DEF HasPartners
      <3>2. Split!contents' = [i \in 1 .. Len(Split!contents') |-> made + i]
        BY <2>2
      <3>3. made' >= made + Len(Split!contents') /\ promised' = 0
        BY <2>1, <2>2, <2>4, SplitStepParts
      <3>4. QED
        BY <3>1, <3>2, <3>3, SplitStepParts, RulesSteps
    <2>5. QED
      BY <2>3, <2>4
  <1>2. CASE \E n \in 0 .. ItemsMax : Split!CloneFirst(n)
    <2>1. mode' = "fill" /\ made' = made /\ promised' = 0
      BY <1>2, SplitClonesFirst DEF SplitPairStep
    <2>2. Split!contents' = <<>>
      BY <2>1, SplitStepParts DEF HasPartners
    <2>3. QED
      BY <2>1, <2>2, SplitStepParts, RulesSteps
  <1>3. QED
    BY <1>1, <1>2

LEMMA SplitRulesClones ==
  ASSUME SplitPairStep, Split!CloneSecond
  PROVE  Rules!Clones
  <1>1. /\ mode = "fill" /\ mode' = "vec" /\ made' = made + source /\ promised' = 0
        /\ first'.items = [i \in 1 .. source |-> made + i] /\ Len(first'.items) = source
    BY SplitClonesSecond DEF SplitPairStep
  <1>2. Split!contents = <<>> /\ Len(Split!contents') = source
    BY <1>1, SplitStepParts DEF HasPartners
  <1>3. \A i \in 1 .. source : Split!contents'[i] = made + i
    BY <1>1, <1>2, SplitStepParts DEF HasPartners
  <1>4. Split!contents' = [i \in 1 .. Len(Split!contents') |-> made + i]
    <2>1. Split!contents' = [i \in 1 .. source |-> Split!contents'[i]]
      BY <1>2, SplitStepParts
    <2>2. QED
      BY <1>2, <1>3, <2>1
  <1>5. QED
    BY <1>1, <1>2, <1>4, SplitStepParts, RulesSteps

LEMMA SplitNext == SplitPairStep /\ [Split!Next]_(Split!vars) => [Rules!Next]_(Rules!vars)
  <1> SUFFICES ASSUME SplitPairStep, [Split!Next]_(Split!vars) PROVE [Rules!Next]_(Rules!vars)
    OBVIOUS
  <1>1. promised' <= Room' /\ Room' \in Nat
    BY SplitStepParts DEF SplitPromise
  <1>2. Rules!Next <=>
          /\ \/ Rules!Push \/ Rules!EnsureRoom \/ Rules!TakeLast \/ Rules!TakeFirst
             \/ Rules!Empty \/ Rules!Clones \/ Rules!IntoIter
          /\ promised' <= Room' /\ Room' \in Nat
    BY DEF Rules!Next, Room
  <1>3. CASE \/ \E n \in 1 .. FirstMax : Split!EnsureRoom(n) \/ Split!SecondRefuses(n)
             \/ Split!Push \/ Split!Pop \/ Split!IterNextBack \/ Split!IterNext
    BY <1>1, <1>2, <1>3, SplitRulesRoom, SplitRulesPush, SplitRulesLast, SplitRulesFirst
  <1>4. CASE Split!PopFirst \/ Split!PopSecond \/ Split!IntoParts \/ Split!FromParts \/ Split!IntoIter
    BY <1>1, <1>2, <1>4, SplitRulesParts, SplitRulesTurn
  <1>5. CASE \/ Split!Clear \/ Split!ClonePanics \/ Split!PartsRefused \/ Split!Drop
             \/ \E n \in 0 .. ItemsMax : Split!CloneFirst(n)
             \/ Split!CloneSecond
    BY <1>1, <1>2, <1>5, SplitRulesEmpty, SplitRulesClones
  <1>6. CASE UNCHANGED Split!vars
    <2>1. UNCHANGED <<first, second, promised, mode, made>>
      BY <1>6 DEF Split!vars, Split!history
    <2>2. Split!contents' = Split!contents /\ Split!room' = Split!room
      BY <2>1 DEF Split!contents, Split!InStep, Split!Partners, Split!room, Split!capacity
    <2>3. QED
      BY <2>1, <2>2, SplitStepParts, RulesSteps
  <1>7. QED
    BY <1>3, <1>4, <1>5, <1>6 DEF Split!Next

-----------------------------------------------------------------------------

LEMMA InitRules == StoragesInit => Rules!Init
  <1> SUFFICES ASSUME StoragesInit PROVE Rules!Init
    OBVIOUS
  <1>1. Rules!Init <=> Pairs = <<>> /\ Room \in Nat /\ promised = 0 /\ made = 0
    BY DEF Rules!Init, Pairs, Room
  <1>2. CASE PairVecInit
    <2>1. kind = "PairVec" /\ Init /\ PairInv
      BY <1>2, InitPairInv DEF PairVecInit
    <2>2. HasPairs /\ PairPromise /\ mode = "vec" /\ promised = 0 /\ made = 0 /\ buffer.len = 0
      BY <2>1, ContentsPairs DEF Init, with_capacity
    <2>3. PairsLong = 0
      BY <2>2 DEF PairsLong
    <2>4. contents = <<>> /\ room \in Nat
      BY <2>2, <2>3 DEF HasPairs, PairPromise
    <2>5. QED
      BY <1>1, <2>1, <2>2, <2>4 DEF Pairs, Room
  <1>3. CASE SplitInit
    <2>1. kind = "SplitPair" /\ Split!Init /\ SplitInv
      BY <1>3, InitSplitInv DEF SplitInit
    <2>2. HasPartners /\ SplitPromise
      BY <2>1, ContentsPartners
    <2>3. mode = "vec" /\ promised = 0 /\ made = 0 /\ first.items = <<>>
      BY <2>1 DEF Split!Init, Split!Empty
    <2>4. Split!contents \in Seq(Nat) /\ Len(Split!contents) = 0
      BY <2>2, <2>3 DEF HasPartners
    <2>5. Split!contents = <<>> /\ Split!room \in Nat
      BY <2>2, <2>4 DEF SplitPromise
    <2>6. QED
      BY <1>1, <2>1, <2>3, <2>5 DEF Pairs, Room
  <1>4. QED
    BY <1>2, <1>3 DEF StoragesInit

LEMMA StepRules ==
  StoragesInv /\ StoragesInv' /\ [StoragesNext]_<<kind, vars, split_vars>> => [Rules!Next]_(Rules!vars)
  <1> SUFFICES ASSUME StoragesInv, StoragesInv', [StoragesNext]_<<kind, vars, split_vars>>
               PROVE  [Rules!Next]_(Rules!vars)
    OBVIOUS
  <1>1. kind' = kind /\ kind \in {"PairVec", "SplitPair"}
    BY DEF StoragesInv, StoragesNext, PairVecStep, SplitStep
  <1>2. CASE kind = "PairVec"
    <2>1. VecStep
      BY <1>1, <1>2 DEF StoragesInv, VecStep
    <2>2. [Next]_vars
      BY <1>2 DEF StoragesNext, PairVecStep, SplitStep
    <2>3. QED
      BY <2>1, <2>2, VecNext
  <1>3. CASE kind = "SplitPair"
    <2>1. SplitPairStep
      BY <1>1, <1>3 DEF StoragesInv, SplitPairStep
    <2>2. [Split!Next]_(Split!vars)
      BY <1>3 DEF StoragesNext, PairVecStep, SplitStep, vars, clone_vars, split_vars,
                  Split!vars, Split!history
    <2>3. QED
      BY <2>1, <2>2, SplitNext
  <1>4. QED
    BY <1>1, <1>2, <1>3

\* A PairVec and a SplitPair are each a sequence of pairs as the rules of
\* PairStorage describe it: whatever grew or refused to, moved in a buffer,
\* was cloned, taken apart, put together or iterated, and wherever a clone
\* panicked, the two slices are in step, the pairs are those that were pushed
\* in their order, and there is the room that ensure_room promised.
THEOREM PairStoragesRefine == StoragesSpec => ImplementsPairStorage
  BY InitRules, StepRules, StoragesInvariance, PTL
     DEF StoragesSpec, ImplementsPairStorage, Rules!Spec

=============================================================================
