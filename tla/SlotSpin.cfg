\* Six stops of every reel, which between them show all that the reels can
\* show, in every combination, in a normal and in a free spin.
SPECIFICATION SpinSpec
CONSTANT Stops = {0, 3, 6, 9, 11, 14}
INVARIANTS
  ShownWinIsPaid
  PaysTheBetter
  FreePaysNoLess
  SymbolFound
CHECK_DEADLOCK FALSE
