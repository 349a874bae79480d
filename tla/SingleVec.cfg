\* A length type that counts four, memory for three items, growing from one.
CONSTANTS
  LenMax = 4
  RoomMax = 3
  Smallest = 1
  ItemsMax = 5
SPECIFICATION Spec
INVARIANTS
  OwnedOnce
PROPERTIES
  ImplementsSliceStorage
\* What was dropped takes no more steps.
CHECK_DEADLOCK FALSE
