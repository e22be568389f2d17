\* Two threads in the same slot, one after the other or together, with up to
\* two winning lines in a spin.
SPECIFICATION AccountSpec
CONSTANTS
  Threads = {t1, t2}
  Award <- SmallAwards
  MaxLines = 2
  MaxCount = 9
SYMMETRY Symmetry
INVARIANTS
  TypeOK
  HonestAccount
  RestIsSound
