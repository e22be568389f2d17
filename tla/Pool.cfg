\* More threads than connections, one connection object to spare for a
\* replacement, and everything that can go wrong.
SPECIFICATION FairSpec
CONSTANTS
  Conn = {c1, c2, c3}
  Threads = {t1, t2, t3}
  PoolSize = 2
  NoConn = NoConn
  Faults <- AllFaults
INVARIANTS
  TypeOK
  PoolConserved
  ExclusiveUse
  CapacitySuffices
PROPERTIES
  LeaseSpec
  LiveConnectionServes
