\* Two requests of two users against one tournament and its scheduler.
SPECIFICATION Spec
CONSTANTS
  Period = 4
  Break = 2
  Zones = 1
  MaxLag = 0
  MaxSql = 1
  MaxDelay = 1
  Uid = {u1, u2}
  NoUid = NoUid
  Workers = {w1, w2}
  Sched = Sched
  Nobody = Nobody
  Faults <- Survivable
SYMMETRY Symmetry
INVARIANTS
  TypeOK
  OwnBetCounts
  RowsAreNamed
  WritersExclude
