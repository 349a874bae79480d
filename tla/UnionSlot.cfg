\* Two slots with generations of two bits, and four values.
CONSTANTS
  MaxGen = 3
  Names = {a, b}
  ItemsMax = 4
SPECIFICATION SlotSpec
INVARIANTS
  EachInOneSlot
PROPERTIES
  ImplementsEnumSlot
\* All values are used up and every slot is dropped.
CHECK_DEADLOCK FALSE
