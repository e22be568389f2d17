\* One request at a time against two tournaments and a scheduler thread that
\* lags, at the edge of TimingAssumption, with every failure.
SPECIFICATION FairSpec
CONSTANTS
  Period = 8
  Break = 4
  Zones = 2
  MaxLag = 1
  MaxSql = 0
  MaxDelay = 1
  Uid = {u1}
  NoUid = NoUid
  Workers = {w1}
  Sched = Sched
  Nobody = Nobody
  Faults <- AllFaults
PROPERTIES
  RoundSpec
  LockReleased
