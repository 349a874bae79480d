\* Three slots of two generations, which retire; either storage may lack room.
CONSTANTS
  Values = {v1, v2}
  MaxIdx = 2
  NoSlot = 3
  MaxGen = 3
  GenMax = 3
  Wrap = FALSE
  StorageMax = 3
  PairsMax = 3
  ReserveMax = 2
SPECIFICATION Spec
INVARIANTS
  TypeOK
  SlotsMatchPairs
  FreeListComplete
  PromiseKept
  RetainSeesEachOnce
PROPERTIES
  ImplementsKeyedMap
SYMMETRY Symmetry
