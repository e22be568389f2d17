\* Two players at one slot, through two minutes; id 1 does not exist.
SPECIFICATION Spec
CONSTANTS
  Slots = 1
  MaxId = 1
  Players = {p1, p2}
  Nobody = Nobody
  SeatTime = 2
  MaxTime = 4
  Word = 16
SYMMETRY PlayerSymmetry
INVARIANTS
  TypeOK
  SeatsExclusive
  OnlyStraysCrash
