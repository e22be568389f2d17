\* Prizes: ints of five bits, which some four bets make wrap around, a
\* negative bet, a period of six seconds in steps of two, and two readers.
\* Rows: every ranking of up to five of five users, for every user.
SPECIFICATION ReplySpec
CONSTANTS
  Period = 6
  Interval = 2
  MaxArea = 3
  EndBet = 1
  MaxInt = 15
  Bets <- SomeBets
  Readers = {r1, r2}
  Uid = {u1, u2, u3, u4, u5}
  MaxRanking = 5
  AnyUser = u1
INVARIANTS
  TypeOK
  PrizeFitsInt
  OwnNeighbourhood
  DefinedExactlyWhen
PROPERTIES
  PrizeNeverFalls
\* The rows are built once, then nothing is left to do.
CHECK_DEADLOCK FALSE
