\* Two indexes of two generations; the storage may lack room for the second.
CONSTANTS
  Values = {1, 2}
  MaxIdx = 1
  NoSlot = 3
  MaxGen = 3
  Strategy <- NewerWins
  StorageMax = 2
SPECIFICATION SysSpec
INVARIANTS
  TypeOK
  LenExact
  LiveKeyNeverRefused
PROPERTIES
  LiveDataKept
  ImplementsSparse
