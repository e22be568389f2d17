\* A period of 8 seconds with a break of 3.  The reset statement may take
\* longer than two periods, and the thread may lag by a second or two: by
\* nearly a break each time it runs.
SPECIFICATION FairSchedSpec
CONSTANTS
  Period = 8
  Break = 3
  Zones = 2
  MaxLag = 2
  MaxSql = 18
INVARIANTS
  SchedTypeOK
  OneResetPerPeriod
  FlagFollowsClock
PROPERTIES
  ComesBack
  KeepsResetting
