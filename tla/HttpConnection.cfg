\* Three requests of one client, of every kind, sent ahead or in turn.
SPECIFICATION FairSpec
CONSTANTS
  MaxRequests = 3
INVARIANTS
  TypeOK
  GuardedByTimer
  TimersFollowStage
  ReadInTurn
PROPERTIES
  ConnectionEnds
