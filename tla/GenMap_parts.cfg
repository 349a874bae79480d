\* A packed key type, whose generations (to 3) are fewer than those of its type
\* (to 7) and wrap, and every map of up to two slots to begin with.
CONSTANTS
  Values = {v1, v2}
  MaxIdx = 2
  NoSlot = 4
  MaxGen = 3
  GenMax = 7
  Wrap = TRUE
  StorageMax = 3
  ReserveMax = 1
  PartsSlots = 2
SPECIFICATION PartsSpec
SYMMETRY Symmetry
INVARIANTS
  PartsRules
PROPERTIES
  RetiredStaysRetired
  StepsOfKeyedMap
