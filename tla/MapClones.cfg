\* Maps of up to two slots of one generation, and of all links a slot may hold.
CONSTANTS
  Values = {0}
  MaxIdx = 1
  NoSlot = 2
  MaxGen = 1
  GenMax = 3
SPECIFICATION ClonesSpec
INVARIANT
  WholeOrEmpty
