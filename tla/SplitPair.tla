------------------------------ MODULE SplitPair ------------------------------
(***************************************************************************)
(* The pair storage of src/src/storage/pair.rs that keeps its two slices   *)
(* in two storages of their own.  Each of the two is any storage that      *)
(* follows the rules of SliceStorage: items, and a capacity that it may    *)
(* raise, or refuse to, each to a limit of its own.                        *)
(*                                                                         *)
(* The q-th pair there ever was is of item q of the first storage and item *)
(* q of the second one.  What a panic may stop half way is a step for each *)
(* storage: the drops of clear, and the clones of clone_from.  A storage   *)
(* drops all its items also when one of the drops panics.                  *)
(***************************************************************************)
EXTENDS Integers, Sequences, FiniteSets, Bags

CONSTANTS
  FirstMax,   \* the most items that the first storage can get room for
  SecondMax,  \* the most items that the second one can
  ItemsMax    \* bound: how many pairs there are over time

VARIABLES
  first,     \* the storage of the first items: its items and its capacity
  second,    \* the storage of the second items
  promised,  \* history: how many pushes ensure_room has promised room for
  mode,      \* "vec", "fill" half way through clone_from, "parts" while the
             \* caller has the two storages, "iter", or "dropped"
  source,    \* how many pairs the source of clone_from has
  made,      \* history: how many pairs there have been
  born,      \* history: the items there have been
  gone       \* history: the items dropped or handed out, each as often as it was

history == <<made, born, gone>>
vars == <<first, second, promised, mode, source, history>>

-----------------------------------------------------------------------------
(* One storage *)

Empty(c) == [items |-> <<>>, capacity |-> c]
Smaller(m, n) == IF m < n THEN m ELSE n

\* What ensure_room(n) of a storage that can have up to max items gives: the
\* storage with room, or nothing if it refuses.
ensure_room(s, n, max) ==
  IF Len(s.items) + n <= s.capacity THEN {s}
  ELSE {[s EXCEPT !.capacity = c] : c \in Len(s.items) + n .. max}

Pushed(s, q) == [s EXCEPT !.items = Append(@, q)]
Popped(s) == [s EXCEPT !.items = SubSeq(@, 1, Len(@) - 1)]
Cleared(s) == [s EXCEPT !.items = <<>>]

\* A storage that was cloned into: the clones of n items, and room for them.
Cloned(s, n) ==
  [items |-> [i \in 1 .. n |-> made + i], capacity |-> IF s.capacity < n THEN n ELSE s.capacity]

Tagged(side, ids) == {<<side, q>> : q \in ids}
ItemsOf(side, s) == Tagged(side, {s.items[i] : i \in 1 .. Len(s.items)})

\* The items that leave are handed out or dropped.
Leave(items) == gone' = gone (+) SetToBag(items)

-----------------------------------------------------------------------------
(* The methods of a SplitPair *)

capacity == Smaller(first.capacity, second.capacity)

\* Mutant: the first storage alone decides.
EnsureRoom_first_only(n) ==
  /\ mode = "vec"
  /\ first' \in ensure_room(first, n, FirstMax)
  /\ promised' = IF n > promised THEN n ELSE promised
  /\ UNCHANGED <<second, mode, source, history>>

\* ensure_room: the first storage makes room, and then the second one ...
EnsureRoom(n) ==
  /\ mode = "vec"
  /\ first' \in ensure_room(first, n, FirstMax)
  /\ second' \in ensure_room(second, n, SecondMax)
  /\ promised' = IF n > promised THEN n ELSE promised
  /\ UNCHANGED <<mode, source, history>>

\* ... which may refuse after the first one has grown.
SecondRefuses(n) ==
  /\ mode = "vec"
  /\ first' \in ensure_room(first, n, FirstMax)
  /\ Len(second.items) + n > second.capacity
  /\ UNCHANGED <<second, promised, mode, source, history>>

\* push_unchecked, which a map only calls where there is room.
Push ==
  /\ mode = "vec"
  /\ made < ItemsMax
  /\ Len(first.items) < capacity
  /\ first' = Pushed(first, made + 1)
  /\ second' = Pushed(second, made + 1)
  /\ made' = made + 1
  /\ born' = born \union {<<"first", made + 1>>, <<"second", made + 1>>}
  /\ promised' = IF promised = 0 THEN 0 ELSE promised - 1
  /\ UNCHANGED <<mode, source, gone>>

\* pop: the last item of the first storage, then that of the second one.  If
\* the second one has none, the item of the first one is lost.
Pop ==
  /\ mode = "vec"
  /\ first.items # <<>>
  /\ first' = Popped(first)
  /\ second' = IF second.items = <<>> THEN second ELSE Popped(second)
  /\ Leave({<<"first", first.items[Len(first.items)]>>}
           \union Tagged("second", {second.items[i] : i \in {Len(second.items)} \ {0}}))
  /\ UNCHANGED <<promised, mode, source, made, born>>

\* Mutant: a panic in the first storage keeps the second one from being cleared.
Clear_without_guard ==
  /\ mode = "vec"
  /\ first' = Cleared(first)
  /\ second' \in {second, Cleared(second)}
  /\ Leave(ItemsOf("first", first) \union (ItemsOf("second", second) \ ItemsOf("second", second')))
  /\ UNCHANGED <<promised, mode, source, made, born>>

\* clear: ClearOnDrop clears the second storage also while a panic unwinds.
Clear ==
  /\ mode = "vec"
  /\ first' = Cleared(first)
  /\ second' = Cleared(second)
  /\ Leave(ItemsOf("first", first) \union ItemsOf("second", second))
  /\ UNCHANGED <<promised, mode, source, made, born>>

\* clone_from a source of n pairs: the first storage holds its clones.  (clone
\* gives a new pair what clone_from gives an empty one.)
CloneFirst(n) ==
  /\ mode = "vec"
  /\ made + n <= ItemsMax /\ n <= FirstMax /\ n <= SecondMax
  /\ first' = Cloned(first, n)
  /\ Leave(ItemsOf("first", first))
  /\ born' = born \union Tagged("first", made + 1 .. made + n)
  /\ mode' = "fill"
  /\ source' = n
  /\ promised' = 0
  /\ UNCHANGED <<second, made>>

\* The second one holds its clones too, and the guards are forgotten.
CloneSecond ==
  /\ mode = "fill"
  /\ second' = Cloned(second, source)
  /\ Leave(ItemsOf("second", second))
  /\ born' = born \union Tagged("second", made + 1 .. made + source)
  /\ mode' = "vec"
  /\ made' = made + source
  /\ source' = 0
  /\ UNCHANGED <<first, promised>>

\* Mutant: without ClearOnUnwind around the first storage.
ClonePanics_without_guard ==
  /\ mode = "fill"
  /\ second' = Cleared(second)
  /\ Leave(ItemsOf("second", second))
  /\ mode' = "vec"
  /\ made' = made + source
  /\ source' = 0
  /\ UNCHANGED <<first, promised, born>>

\* A clone panics, in the first storage or in the second one: the two guards
\* clear what both hold by then.
ClonePanics ==
  /\ mode \in {"vec", "fill"}
  /\ first' = Cleared(first)
  /\ second' = Cleared(second)
  /\ Leave(ItemsOf("first", first) \union ItemsOf("second", second))
  /\ mode' = "vec"
  /\ made' = made + source
  /\ source' = 0
  /\ promised' = 0
  /\ UNCHANGED born

\* into_parts; first_mut and second_mut lend the caller the same storages.
IntoParts ==
  /\ mode = "vec"
  /\ mode' = "parts"
  /\ promised' = 0
  /\ UNCHANGED <<first, second, source, history>>

\* The caller pops an item off one of the storages.
PopFirst ==
  /\ mode = "parts"
  /\ first.items # <<>>
  /\ first' = Popped(first)
  /\ Leave({<<"first", first.items[Len(first.items)]>>})
  /\ UNCHANGED <<second, promised, mode, source, made, born>>

PopSecond ==
  /\ mode = "parts"
  /\ second.items # <<>>
  /\ second' = Popped(second)
  /\ Leave({<<"second", second.items[Len(second.items)]>>})
  /\ UNCHANGED <<first, promised, mode, source, made, born>>

\* Mutant: storages of any lengths are put together.
FromParts_unchecked ==
  /\ mode = "parts"
  /\ mode' = "vec"
  /\ UNCHANGED <<first, second, promised, source, history>>

\* from_parts puts two storages of the same length together ...
FromParts ==
  /\ mode = "parts"
  /\ Len(first.items) = Len(second.items)
  /\ mode' = "vec"
  /\ UNCHANGED <<first, second, promised, source, history>>

\* ... and it returns None for two of other lengths, which it drops.
PartsRefused ==
  /\ mode = "parts"
  /\ Len(first.items) # Len(second.items)
  /\ first' = Cleared(first)
  /\ second' = Cleared(second)
  /\ Leave(ItemsOf("first", first) \union ItemsOf("second", second))
  /\ mode' = "dropped"
  /\ UNCHANGED <<promised, source, made, born>>

\* into_iter: the iterators of the two storages.
IntoIter ==
  /\ mode = "vec"
  /\ mode' = "iter"
  /\ promised' = 0
  /\ UNCHANGED <<first, second, source, history>>

\* SplitPairIntoIter::next
IterNext ==
  /\ mode = "iter"
  /\ first.items # <<>> /\ second.items # <<>>
  /\ first' = [first EXCEPT !.items = Tail(@)]
  /\ second' = [second EXCEPT !.items = Tail(@)]
  /\ Leave({<<"first", Head(first.items)>>, <<"second", Head(second.items)>>})
  /\ UNCHANGED <<promised, mode, source, made, born>>

\* SplitPairIntoIter::next_back
IterNextBack ==
  /\ mode = "iter"
  /\ first.items # <<>> /\ second.items # <<>>
  /\ first' = Popped(first)
  /\ second' = Popped(second)
  /\ Leave({<<"first", first.items[Len(first.items)]>>,
            <<"second", second.items[Len(second.items)]>>})
  /\ UNCHANGED <<promised, mode, source, made, born>>

\* The drop of a SplitPair, of its iterator, or of its parts: both storages.
Drop ==
  /\ mode \in {"vec", "iter", "parts"}
  /\ first' = Cleared(first)
  /\ second' = Cleared(second)
  /\ Leave(ItemsOf("first", first) \union ItemsOf("second", second))
  /\ mode' = "dropped"
  /\ promised' = 0
  /\ UNCHANGED <<source, made, born>>

-----------------------------------------------------------------------------

\* empty, with_capacity, and from_parts of two empty storages.
Init ==
  /\ \E c \in 0 .. FirstMax : first = Empty(c)
  /\ \E c \in 0 .. SecondMax : second = Empty(c)
  /\ promised = 0
  /\ mode = "vec"
  /\ source = 0
  /\ made = 0
  /\ born = {}
  /\ gone = EmptyBag

Next ==
  \/ \E n \in 1 .. FirstMax : EnsureRoom(n) \/ SecondRefuses(n)
  \/ Push
  \/ Pop
  \/ Clear
  \/ \E n \in 0 .. ItemsMax : CloneFirst(n)
  \/ CloneSecond
  \/ ClonePanics
  \/ IntoParts
  \/ PopFirst
  \/ PopSecond
  \/ FromParts
  \/ PartsRefused
  \/ IntoIter
  \/ IterNext
  \/ IterNextBack
  \/ Drop

Spec == Init /\ [][Next]_vars

-----------------------------------------------------------------------------
(* Properties *)

\* How often an item was dropped or handed out.
TimesGone(item) == IF BagIn(item, gone) THEN gone[item] ELSE 0

\* Every item is in its storage once, or was dropped or handed out once: none
\* twice and none never, although the two storages are changed one by one and
\* a panic or a refusal may come in between.
OwnedOnce ==
  \A q \in 1 .. ItemsMax :
    /\ Cardinality({i \in 1 .. Len(first.items) : first.items[i] = q})
         + TimesGone(<<"first", q>>) = IF <<"first", q>> \in born THEN 1 ELSE 0
    /\ Cardinality({i \in 1 .. Len(second.items) : second.items[i] = q})
         + TimesGone(<<"second", q>>) = IF <<"second", q>> \in born THEN 1 ELSE 0

\* The pairs that the two storages hold between them: an item without a
\* partner is in none, and 0 is a pair of items that never were one.
Partners ==
  [i \in 1 .. Smaller(Len(first.items), Len(second.items)) |->
     IF first.items[i] = second.items[i] THEN first.items[i] ELSE 0]

\* Where the two must be in step, items without a partner are pairs of no kind.
InStep == Len(first.items) = Len(second.items)

contents ==
  CASE mode \in {"vec", "iter"} -> IF InStep THEN Partners ELSE <<0>>
    [] mode = "parts" -> Partners
    [] OTHER -> <<>>

room == IF mode = "vec" THEN capacity - Len(first.items) ELSE 0

=============================================================================
