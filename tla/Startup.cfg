\* Two requests at any moment of the start-up.
SPECIFICATION Spec
CONSTANTS
  Workers = {w1, w2}
  PoolSize = 2
  Zones = 3
INVARIANTS
  TypeOK
  TournamentsFindThePool
PROPERTIES
  OnlyStartupCrashes
