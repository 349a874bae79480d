\* Up to three pairs: a PairVec whose length type counts three, growing from
\* one, or a SplitPair of a storage with room for three and one for two.
CONSTANTS
  Shapes <- AllShapes
  LenMax = 3
  BytesMax = 15
  Smallest = 1
  ItemsMax = 4
  FirstMax = 3
  SecondMax = 2
SPECIFICATION StoragesSpec
INVARIANTS
  EachOwnedOnce
PROPERTIES
  ImplementsPairStorage
CHECK_DEADLOCK FALSE
