\* Three indexes of two generations; either storage may lack room for some.
CONSTANTS
  Values = {1, 2}
  MaxIdx = 2
  MaxGen = 3
  Strategy <- NewerWins
  StorageMax = 3
  PairsMax = 3
SPECIFICATION Spec
INVARIANTS
  TypeOK
  SlotsMatchPairs
  RetainSeesEachOnce
PROPERTIES
  ImplementsSparse
