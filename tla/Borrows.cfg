\* Every map of up to three slots, with two iterators, one a clone of the other,
\* or with up to three references at once.
CONSTANTS
  SlotsMax = 3
  GensMax = 3
  Names = {i, j}
  KeysMax = 3
SPECIFICATION BorrowsSpec
INVARIANTS
  EachYieldedOnce
  SizeHintsHold
  LentApart
