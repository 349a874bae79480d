\* A key type whose generations fill their type (two bits each), slots retire.
CONSTANTS
  Values = {v1, v2}
  MaxIdx = 2
  NoSlot = 3
  MaxGen = 3
  GenMax = 3
  Wrap = FALSE
  StorageMax = 4
  ReserveMax = 2
SPECIFICATION Spec
SYMMETRY Symmetry
INVARIANTS
  TypeOK
  FreeListComplete
  LenExact
  EntryKeyUnused
  DrainedBehind
  PromiseKept
PROPERTIES
  StaleKeysStayStale
  ImplementsKeyedMap
