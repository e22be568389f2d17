\* Two requests of two users against one tournament and its scheduler.
SPECIFICATION FairSpec
CONSTANTS
  Period = 4
  Break = 2
  Zones = 1
  MaxLag = 0
  MaxSql = 1
  MaxDelay = 1
  Uid = {u1, u2}
  NoUid = NoUid
  Workers = {w1, w2}
  Sched = Sched
  Nobody = Nobody
  Faults <- NoFaults
PROPERTIES
  RefusedDuringReset
