\* Generations wrap (one of four is a key's), and every map of up to three slots
\* to begin with.
CONSTANTS
  Values = {v1, v2}
  MaxIdx = 2
  NoSlot = 3
  MaxGen = 1
  GenMax = 3
  Wrap = TRUE
  StorageMax = 3
  PairsMax = 3
  ReserveMax = 1
  PartsSlots = 3
SPECIFICATION PartsSpec
INVARIANTS
  PartsRules
PROPERTIES
  StepsOfKeyedMap
  LoopsEnd
