\* A slot given away to one player while the other spins it.
SPECIFICATION FairSpec
CONSTANTS
  Slots = 1
  MaxId = 1
  Players = {p1, p2}
  Nobody = Nobody
  SeatTime = 2
  MaxTime = 4
  Word = 16
PROPERTIES
  SelectableIsQuiet
