----------------------------- MODULE ReplyProofs -----------------------------
(***************************************************************************)
(* What a reply tells the player: theorems about the prize (PrizePool) and *)
(* about the rows of the ranking (Standings), whatever is bet, in which    *)
(* order and how often, and however long the ranking is.                   *)
(***************************************************************************)
EXTENDS PrizePool, Standings, FiniteSetTheorems, TLAPS

-----------------------------------------------------------------------------
(* The prize *)

(* The addition of the atomic has an int for its result. *)
LEMMA WrapIsInt ==
  ASSUME NEW n \in Int
  PROVE  Wrap(n) \in Int32
<1> DEFINE W == 2 * MaxInt + 2
<1>1. MaxInt \in Nat /\ W \in Nat /\ W > 0
  BY PrizeAssumption
<1>2. (n + MaxInt + 1) % W \in 0..(W - 1)
  <2> HIDE DEF W
  <2> QED BY <1>1
<1>3. QED
  BY <1>1, <1>2 DEF Wrap, Int32

(* A fifth of an int. *)
FifthRange == -MaxInt..(MaxInt \div 5)

LEMMA FifthBounds ==
  ASSUME NEW n \in Int32
  PROVE  Fifth(n) \in FifthRange
<1>1. MaxInt \in Nat
  BY PrizeAssumption
<1>2. QED
  BY <1>1 DEF Fifth, FifthRange, Int32

(* The doubled subtraction of the code is the seconds themselves. *)
LEMMA AreaIsOfSeconds ==
  ASSUME NEW s \in Nat
  PROVE  pool_area(s) = AreaAt(s)
<1>1. Period - (Period - s) = s
  BY PrizeAssumption
<1>2. QED
  BY <1>1 DEF pool_area

(* The steps of the prize are counted from 1 to MaxArea. *)
LEMMA AreaBounds ==
  ASSUME NEW s \in Nat
  PROVE  pool_area(s) \in 1..MaxArea
<1>1. Interval \in Nat \ {0} /\ MaxArea \in Nat \ {0}
  BY PrizeAssumption
<1>2. s \div Interval \in Nat
  BY <1>1
<1> DEFINE q == s \div Interval
<1> HIDE DEF q
<1>3. q \in Nat
  BY <1>2 DEF q
<1>4. pool_area(s) = IF q + 1 > MaxArea THEN MaxArea ELSE q + 1
  BY AreaIsOfSeconds DEF AreaAt, q
<1>5. QED
  BY <1>1, <1>3, <1>4

LEMMA PrizeBounds ==
  ASSUME NEW pool \in FifthRange, NEW s \in Nat
  PROVE  PrizeOf(pool, s) \in Int32
<1> DEFINE a == pool_area(s)
<1>1. a \in 1..MaxArea
  BY AreaBounds
<1>2. PrizeOf(pool, s) = EndBet * 4 * a + pool
  BY DEF PrizeOf
<1> HIDE DEF a
<1>3. /\ EndBet \in Nat /\ MaxArea \in Nat /\ MaxInt \in Nat
      /\ EndBet * 4 * MaxArea + MaxInt \div 5 <= MaxInt
  BY PrizeAssumption
<1>4. EndBet * 4 * a \in 0..(EndBet * 4 * MaxArea)
  BY <1>1, <1>3
<1> DEFINE top == EndBet * 4 * MaxArea
           part == EndBet * 4 * a
<1>5. /\ top \in Nat /\ top + MaxInt \div 5 <= MaxInt
      /\ part \in 0..top
      /\ PrizeOf(pool, s) = part + pool
  BY <1>2, <1>3, <1>4
<1> HIDE DEF top, part
<1>6. QED
  BY <1>3, <1>5 DEF FifthRange, Int32

(* Besides its type, what get_prize_pool() has loaded is a fifth of an int, *)
(* and what it has returned is an int.                                      *)
PrizeInv ==
  /\ TypeOK
  /\ \A r \in Readers : bet_pool[r] \in FifthRange
  /\ PrizeFitsInt

(* PrizeInv holds initially and every step preserves it. *)
THEOREM PrizeInvariant == Spec => []PrizeInv
<1> USE PrizeAssumption
<1>0. 0 \in Int32 /\ 0 \in FifthRange /\ Nothing \in Int
  BY DEF Int32, FifthRange, Nothing
<1>1. Init => PrizeInv
  BY <1>0 DEF Init, PrizeInv, TypeOK, PrizeFitsInt
<1>2. ASSUME PrizeInv, [Next]_vars
      PROVE  PrizeInv'
  <2> USE <1>2 DEF PrizeInv, TypeOK, PrizeFitsInt
  <2>0. Int32 \subseteq Int /\ FifthRange \subseteq Int32
    BY DEF Int32, FifthRange
  <2>1. ASSUME NEW b \in Bets, add_bet_credit(b)
        PROVE  PrizeInv'
    <3>1. b \in Int
      BY <2>0
    <3>2. bet_credits' \in Int32
      BY <2>0, <2>1, <3>1, WrapIsInt DEF add_bet_credit
    <3>3. seen' \in Int /\ floor' \in [Readers -> Int] /\ fallen' \subseteq Readers
      BY <1>0, <2>1 DEF add_bet_credit, HistoryOfBet, Fall
    <3>4. QED
      BY <2>1, <3>2, <3>3 DEF add_bet_credit
  <2>2. ASSUME NEW r \in Readers, LoadBets(r)
        PROVE  PrizeInv'
    <3>1. Fifth(bet_credits) \in FifthRange
      BY FifthBounds
    <3>2. bet_pool' \in [Readers -> Int32] /\ prize_pool' \in [Readers -> Int]
      <4>1. bet_pool' \in [Readers -> Int32]
        BY <2>0, <2>2, <3>1 DEF LoadBets
      <4>2. 0 \in Int
        OBVIOUS
      <4>3. prize_pool' = [prize_pool EXCEPT ![r] = 0]
        BY <2>2 DEF LoadBets
      <4>4. prize_pool' \in [Readers -> Int]
        BY <4>2, <4>3
      <4>5. QED
        BY <4>1, <4>4
    <3>3. \A q \in Readers : bet_pool'[q] \in FifthRange /\ prize_pool'[q] \in Int32
      BY <1>0, <2>2, <3>1 DEF LoadBets
    <3>4. rpc' \in [Readers -> {"idle", "time"}] /\ floor' \in [Readers -> Int]
      BY <2>2 DEF LoadBets
    <3>5. QED
      BY <2>2, <3>2, <3>3, <3>4 DEF LoadBets
  <2>3. ASSUME NEW r \in Readers, AskTime(r)
        PROVE  PrizeInv'
    <3>1. PrizeOf(bet_pool[r], second) \in Int32
      BY PrizeBounds
    <3>2. /\ prize_pool' \in [Readers -> Int] /\ bet_pool' \in [Readers -> Int32]
          /\ seen' \in Int /\ floor' \in [Readers -> Int] /\ fallen' \subseteq Readers
      BY <1>0, <2>0, <2>3, <3>1 DEF AskTime
    <3>3. \A q \in Readers : bet_pool'[q] \in FifthRange /\ prize_pool'[q] \in Int32
      BY <1>0, <2>3, <3>1 DEF AskTime
    <3>4. rpc' \in [Readers -> {"idle", "time"}]
      BY <2>3 DEF AskTime
    <3>5. QED
      BY <2>3, <3>2, <3>3, <3>4 DEF AskTime
  <2>4. CASE Tick
    <3>1. second' \in 0..(Period - 1)
      BY <2>4 DEF Tick
    <3>2. seen' \in Int /\ floor' \in [Readers -> Int] /\ fallen' \subseteq Readers
      BY <1>0, <2>4 DEF Tick, Fall
    <3>3. QED
      BY <2>4, <3>1, <3>2 DEF Tick
  <2>5. CASE reset
    <3>1. seen' \in Int /\ floor' \in [Readers -> Int] /\ fallen' \subseteq Readers
      BY <1>0, <2>5 DEF reset, Fall
    <3>2. QED
      BY <1>0, <2>5, <3>1 DEF reset
  <2>6. CASE UNCHANGED vars
    BY <2>6 DEF vars
  <2>7. QED
    BY <1>2, <2>1, <2>2, <2>3, <2>4, <2>5, <2>6 DEF Next
<1>3. QED
  BY <1>1, <1>2, PTL DEF Spec

(* The type invariant of the prize pool. *)
THEOREM PrizeTypeCorrect == Spec => []TypeOK
<1>1. PrizeInv => TypeOK
  BY DEF PrizeInv
<1>2. QED
  BY <1>1, PrizeInvariant, PTL

(* The prize fits an int, for every sequence of bets, negative ones         *)
(* included, and every reader.                                              *)
THEOREM PrizeAlwaysFits == Spec => []PrizeFitsInt
<1>1. PrizeInv => PrizeFitsInt
  BY DEF PrizeInv
<1>2. QED
  BY <1>1, PrizeInvariant, PTL

-----------------------------------------------------------------------------
(* The players never see the prize fall.                                    *)

(* Nothing wraps around within the range of an int. *)
LEMMA WrapExact ==
  ASSUME NEW n \in Int32
  PROVE  Wrap(n) = n
<1>1. MaxInt \in Nat /\ n \in Int
  BY PrizeAssumption DEF Int32
<1>2. (n + MaxInt + 1) % (2 * MaxInt + 2) = n + MaxInt + 1
  <2> DEFINE m == n + MaxInt + 1
             W == 2 * MaxInt + 2
  <2>1. m \in Nat /\ W \in Nat /\ m < W
    BY <1>1 DEF Int32
  <2> HIDE DEF m, W
  <2>2. m % W = m
    BY <2>1
  <2>3. QED
    BY <2>2 DEF m, W
<1>3. QED
  BY <1>1, <1>2 DEF Wrap

(* The steps of the prize go up with the clock. *)
LEMMA AreaGrows ==
  ASSUME NEW s \in Nat
  PROVE  pool_area(s) <= pool_area(s + 1)
<1>1. Interval \in Nat \ {0} /\ MaxArea \in Nat \ {0}
  BY PrizeAssumption
<1> DEFINE q == s \div Interval
           p == (s + 1) \div Interval
<1>2. q \in Nat /\ p \in Nat
  BY <1>1
<1>3. /\ Interval * q <= s /\ s < Interval * q + Interval
      /\ Interval * p <= s + 1 /\ s + 1 < Interval * p + Interval
  BY <1>1
<1> HIDE DEF q, p
<1>4. q <= p
  <2>1. SUFFICES ASSUME p + 1 <= q
                 PROVE  FALSE
    BY <1>2
  <2>2. Interval * (p + 1) <= Interval * q
    BY <1>1, <1>2, <2>1
  <2>3. Interval * (p + 1) = Interval * p + Interval
    BY <1>1, <1>2
  <2>4. Interval * p \in Nat /\ Interval * q \in Nat
    BY <1>1, <1>2
  <2>5. QED
    BY <1>1, <1>3, <2>2, <2>3, <2>4
<1>5. /\ pool_area(s) = IF q + 1 > MaxArea THEN MaxArea ELSE q + 1
      /\ pool_area(s + 1) = IF p + 1 > MaxArea THEN MaxArea ELSE p + 1
  BY AreaIsOfSeconds DEF AreaAt, q, p
<1>6. QED
  BY <1>1, <1>2, <1>4, <1>5

LEMMA PrizeGrows ==
  ASSUME NEW pool \in Int, NEW s \in Nat
  PROVE  PrizeOf(pool, s) <= PrizeOf(pool, s + 1)
<1> DEFINE a == pool_area(s)
           b == pool_area(s + 1)
<1>1. a \in Nat /\ b \in Nat /\ a <= b
  BY AreaBounds, AreaGrows, PrizeAssumption
<1>2. PrizeOf(pool, s) = EndBet * 4 * a + pool /\ PrizeOf(pool, s + 1) = EndBet * 4 * b + pool
  BY DEF PrizeOf
<1> HIDE DEF a, b
<1>3. EndBet \in Nat
  BY PrizeAssumption
<1>4. EndBet * 4 * a <= EndBet * 4 * b /\ EndBet * 4 * a \in Nat /\ EndBet * 4 * b \in Nat
  BY <1>1, <1>3
<1>5. QED
  BY <1>2, <1>4

(* So does the prize with the pool. *)
LEMMA PrizeOfMore ==
  ASSUME NEW p \in Int, NEW q \in Int, p <= q, NEW s \in Nat
  PROVE  PrizeOf(p, s) <= PrizeOf(q, s)
<1> DEFINE part == EndBet * 4 * pool_area(s)
<1>1. part \in Int
  <2>1. pool_area(s) \in Int /\ EndBet \in Int
    BY AreaBounds, PrizeAssumption
  <2>2. QED
    BY <2>1
<1>2. PrizeOf(p, s) = part + p /\ PrizeOf(q, s) = part + q
  BY DEF PrizeOf
<1> HIDE DEF part
<1>3. QED
  BY <1>1, <1>2

LEMMA FifthGrows ==
  ASSUME NEW m \in Int, NEW n \in Int, m <= n
  PROVE  Fifth(m) <= Fifth(n)
BY DEF Fifth

(* No prize that has been seen is above the prize of now, and what a reader *)
(* has loaded is no more than a fifth of the bets of now, but enough for    *)
(* what had been seen when it was called.                                   *)
SeenIsReached == seen <= Prize

LoadedInTime ==
  \A r \in Readers :
    rpc[r] = "time" /\ r \notin fallen =>
      bet_pool[r] <= Fifth(bet_credits) /\ floor[r] <= PrizeOf(bet_pool[r], second)

NeverFallsInv == SeenIsReached /\ LoadedInTime

(* The ints the steps compare. *)
LEMMA PrizeTypes ==
  ASSUME PrizeInv
  PROVE  /\ second \in Nat /\ bet_credits \in Int /\ seen \in Int
         /\ bet_pool \in [Readers -> Int] /\ floor \in [Readers -> Int]
         /\ Fifth(bet_credits) \in FifthRange /\ Fifth(bet_credits) \in Int
         /\ Prize \in Int32 /\ Prize \in Int
         /\ \A r \in Readers : PrizeOf(bet_pool[r], second) \in Int
         /\ rpc \in [Readers -> {"idle", "time"}]
<1>1. Int32 \subseteq Int /\ FifthRange \subseteq Int
  BY PrizeAssumption DEF Int32, FifthRange
<1>2. second \in Nat /\ Fifth(bet_credits) \in FifthRange
  BY FifthBounds, PrizeAssumption DEF PrizeInv, TypeOK
<1>3. Prize \in Int32
  BY <1>2, PrizeBounds DEF Prize
<1>4. \A r \in Readers : PrizeOf(bet_pool[r], second) \in Int32
  BY <1>2, PrizeBounds DEF PrizeInv
<1>5. QED
  BY <1>1, <1>2, <1>3, <1>4 DEF PrizeInv, TypeOK

(* After a fall there is nothing to keep. *)
LEMMA AfterFall ==
  ASSUME PrizeInv', Fall, UNCHANGED rpc
  PROVE  NeverFallsInv'
<1>1. SeenIsReached'
  <2>1. Prize' \in Int32
    BY PrizeAssumption, FifthBounds, PrizeBounds DEF Prize, PrizeInv, TypeOK
  <2>2. QED
    BY <2>1, PrizeAssumption DEF SeenIsReached, Fall, Nothing, Int32
<1>2. LoadedInTime'
  BY DEF LoadedInTime, Fall
<1>3. QED
  BY <1>1, <1>2 DEF NeverFallsInv

(* A bet that does not make the sum wrap around raises the prize. *)
LEMMA BetRaises ==
  ASSUME PrizeInv, NeverFallsInv, PrizeInv', NEW b \in Bets, add_bet_credit(b)
  PROVE  NeverFallsInv'
<1>1. CASE b < 0 \/ bet_credits + b > MaxInt
  BY <1>1, AfterFall DEF add_bet_credit, HistoryOfBet
<1>2. CASE ~(b < 0 \/ bet_credits + b > MaxInt)
  <2>1. b \in Int /\ bet_credits \in Int32 /\ bet_credits \in Int
    BY PrizeAssumption DEF Int32, PrizeInv, TypeOK
  <2>2. bet_credits + b \in Int32 /\ bet_credits <= bet_credits + b
    BY <1>2, <2>1, PrizeAssumption DEF Int32
  <2>3. bet_credits' = bet_credits + b
    BY <2>2, WrapExact DEF add_bet_credit
  <2>4. Fifth(bet_credits) <= Fifth(bet_credits')
    BY <2>1, <2>2, <2>3, FifthGrows
  <2>5. UNCHANGED <<second, rpc, bet_pool, seen, floor, fallen>>
    BY <1>2 DEF add_bet_credit, HistoryOfBet
  <2>6. Fifth(bet_credits') \in Int /\ Prize' \in Int
    BY PrizeAssumption, FifthBounds, PrizeBounds
    DEF Prize, PrizeInv, TypeOK, FifthRange, Int32
  <2>7. Prize <= Prize'
    BY <2>4, <2>5, <2>6, PrizeTypes, PrizeOfMore DEF Prize
  <2>8. SeenIsReached'
    BY <2>5, <2>6, <2>7, PrizeTypes DEF NeverFallsInv, SeenIsReached
  <2>9. LoadedInTime'
    BY <2>4, <2>5, <2>6, PrizeTypes DEF NeverFallsInv, LoadedInTime
  <2>10. QED
    BY <2>8, <2>9 DEF NeverFallsInv
<1>3. QED
  BY <1>1, <1>2

(* A second within the period raises it. *)
LEMMA SecondRaises ==
  ASSUME PrizeInv, NeverFallsInv, PrizeInv', Tick
  PROVE  NeverFallsInv'
<1>1. CASE second = Period - 1
  BY <1>1, AfterFall DEF Tick
<1>2. CASE second # Period - 1
  <2>1. second' = second + 1 /\ UNCHANGED <<bet_credits, rpc, bet_pool, seen, floor, fallen>>
    BY <1>2, PrizeAssumption DEF Tick, PrizeInv, TypeOK
  <2>2. second \in Nat /\ second' \in Nat
    BY <2>1, PrizeTypes
  <2>3. ASSUME NEW r \in Readers
        PROVE  /\ PrizeOf(bet_pool[r], second) <= PrizeOf(bet_pool[r], second')
               /\ PrizeOf(bet_pool[r], second') \in Int
    <3>1. bet_pool[r] \in Int /\ bet_pool[r] \in FifthRange
      BY PrizeTypes DEF PrizeInv
    <3>2. PrizeOf(bet_pool[r], second') \in Int32
      BY <2>2, <3>1, PrizeBounds
    <3>3. QED
      BY <2>1, <2>2, <3>1, <3>2, PrizeGrows, PrizeAssumption DEF Int32
  <2>4. Prize' = PrizeOf(Fifth(bet_credits), second') /\ Prize <= Prize' /\ Prize' \in Int
    <3>1. Prize' = PrizeOf(Fifth(bet_credits), second')
      BY <2>1 DEF Prize
    <3>2. Prize <= Prize'
      BY <2>1, <2>2, <3>1, PrizeTypes, PrizeGrows DEF Prize
    <3>3. Prize' \in Int32
      BY <2>2, <3>1, PrizeTypes, PrizeBounds
    <3>4. QED
      BY <3>1, <3>2, <3>3, PrizeAssumption DEF Int32
  <2>5. SeenIsReached'
    BY <2>1, <2>4, PrizeTypes DEF NeverFallsInv, SeenIsReached
  <2>6. LoadedInTime'
    <3>1. SUFFICES ASSUME NEW r \in Readers, rpc[r] = "time", r \notin fallen
                   PROVE  /\ bet_pool[r] <= Fifth(bet_credits)
                          /\ floor[r] <= PrizeOf(bet_pool[r], second')
      BY <2>1 DEF LoadedInTime
    <3>2. floor[r] <= PrizeOf(bet_pool[r], second) /\ bet_pool[r] <= Fifth(bet_credits)
      BY <3>1 DEF NeverFallsInv, LoadedInTime
    <3>3. floor[r] \in Int /\ PrizeOf(bet_pool[r], second) \in Int
      BY PrizeTypes
    <3>4. QED
      BY <2>3, <3>2, <3>3
  <2>7. QED
    BY <2>5, <2>6 DEF NeverFallsInv
<1>3. QED
  BY <1>1, <1>2

(* What a call returns has been reached. *)
LEMMA CallEnds ==
  ASSUME PrizeInv, NeverFallsInv, NEW r \in Readers, AskTime(r)
  PROVE  NeverFallsInv'
<1>1. Prize' = Prize
  BY DEF AskTime, Prize
<1>2. ASSUME r \notin fallen
      PROVE  PrizeOf(bet_pool[r], second) <= Prize
  <2>1. bet_pool[r] <= Fifth(bet_credits)
    BY <1>2 DEF AskTime, NeverFallsInv, LoadedInTime
  <2>2. QED
    BY <2>1, PrizeTypes, PrizeOfMore DEF Prize
<1>3. SeenIsReached'
  BY <1>1, <1>2 DEF AskTime, NeverFallsInv, SeenIsReached
<1>4. LoadedInTime'
  BY PrizeTypes DEF AskTime, NeverFallsInv, LoadedInTime
<1>5. QED
  BY <1>3, <1>4 DEF NeverFallsInv

LEMMA NeverFallsStep ==
  ASSUME PrizeInv, NeverFallsInv, PrizeInv', [Next]_vars
  PROVE  NeverFallsInv'
<1>1. ASSUME NEW r \in Readers, LoadBets(r)
      PROVE  NeverFallsInv'
  <2>1. SeenIsReached'
    BY <1>1 DEF LoadBets, Prize, NeverFallsInv, SeenIsReached
  <2>2. bet_pool'[r] = Fifth(bet_credits) /\ floor'[r] = seen
    BY <1>1, PrizeTypes DEF LoadBets
  <2>3. seen <= PrizeOf(Fifth(bet_credits), second)
    BY DEF NeverFallsInv, SeenIsReached, Prize
  <2>4. LoadedInTime'
    BY <1>1, <2>2, <2>3, PrizeTypes DEF LoadBets, NeverFallsInv, LoadedInTime
  <2>5. QED
    BY <2>1, <2>4 DEF NeverFallsInv
<1>2. CASE reset
  BY <1>2, AfterFall DEF reset
<1>3. CASE UNCHANGED vars
  BY <1>3 DEF vars, NeverFallsInv, SeenIsReached, LoadedInTime, Prize
<1>4. QED
  BY <1>1, <1>2, <1>3, BetRaises, SecondRaises, CallEnds DEF Next

(* The players never see the prize fall, for any number of readers, any     *)
(* bets and any order of bets, seconds, resets and reads: a call returns no *)
(* less than one that had ended when it began.                              *)
THEOREM PrizeDoesNotFall == Spec => PrizeNeverFalls
<1> DEFINE NoFall ==
             \A r \in Readers :
               rpc[r] = "time" /\ rpc'[r] = "idle" /\ r \notin fallen
               => floor[r] <= prize_pool'[r]
<1>1. ASSUME PrizeInv, NeverFallsInv, [Next]_vars
      PROVE  [NoFall]_vars
  <2>1. SUFFICES ASSUME NEW r \in Readers,
                        rpc[r] = "time", rpc'[r] = "idle", r \notin fallen
                 PROVE  floor[r] <= prize_pool'[r]
    OBVIOUS
  <2>2. AskTime(r)
    <3>1. ASSUME NEW q \in Readers, LoadBets(q) \/ AskTime(q), q # r
          PROVE  rpc'[r] = rpc[r]
      BY <1>1, <3>1, PrizeTypes DEF LoadBets, AskTime
    <3>2. ~LoadBets(r)
      BY <2>1 DEF LoadBets
    <3>3. QED
      BY <1>1, <2>1, <3>1, <3>2 DEF Next, add_bet_credit, Tick, reset, vars
  <2>3. prize_pool'[r] = PrizeOf(bet_pool[r], second)
    BY <1>1, <2>2 DEF AskTime, PrizeInv, TypeOK
  <2>4. QED
    BY <1>1, <2>1, <2>3 DEF NeverFallsInv, LoadedInTime
<1>2. Init => NeverFallsInv
  <2>1. ASSUME Init
        PROVE  NeverFallsInv
    <3>1. Fifth(0) \in FifthRange /\ second \in Nat
      BY <2>1, PrizeAssumption, FifthBounds DEF Init, Int32
    <3>2. Prize \in Int32
      BY <2>1, <3>1, PrizeBounds DEF Prize, Init
    <3>3. SeenIsReached
      BY <2>1, <3>2, PrizeAssumption DEF SeenIsReached, Init, Nothing, Int32
    <3>4. QED
      BY <2>1, <3>3 DEF NeverFallsInv, LoadedInTime, Init
  <2>2. QED
    BY <2>1
<1>3. Spec => []NeverFallsInv
  BY <1>2, NeverFallsStep, PrizeInvariant, PTL DEF Spec
<1>4. QED
  BY <1>1, <1>3, PrizeInvariant, PTL DEF Spec, PrizeNeverFalls

-----------------------------------------------------------------------------
(* The ranking *)

(* Rankings are sequences of users, none of them twice. *)
IsRanking(s) ==
  /\ s \in Seq(Uid)
  /\ \A i, j \in 1..Len(s) : s[i] = s[j] => i = j

LEMMA RankingsAreRankings ==
  ASSUME NEW s \in SetToAllKPermutations(Uid)
  PROVE  IsRanking(s)
<1>1. PICK R \in SUBSET Uid : s \in SetToSeqs(R)
  BY DEF SetToAllKPermutations
<1> DEFINE n == Cardinality(R)
<1>2. n \in Nat
  BY StandingsAssumption, FS_Subset, FS_CardinalityType
<1>3. s \in [1..n -> R] /\ \A i, j \in 1..n : i # j => s[i] # s[j]
  BY <1>1 DEF SetToSeqs
<1> HIDE DEF n
<1>4. s \in Seq(Uid) /\ Len(s) = n
  BY <1>2, <1>3
<1>5. QED
  BY <1>3, <1>4 DEF IsRanking

(* Where a user is found, and that another is not. *)
LEMMA IndexOf ==
  ASSUME NEW u \in Uid, NEW s, IsRanking(s)
  PROVE  LET index == find_user_index(u, s)
         IN  IF u \in ToSet(s)
             THEN index \in 0..(Len(s) - 1) /\ s[index + 1] = u
             ELSE index = -1
<1>1. DOMAIN s = 1..Len(s) /\ Len(s) \in Nat
  BY DEF IsRanking
<1>2. CASE u \in ToSet(s)
  <2>1. \E i \in DOMAIN s : s[i] = u
    BY <1>2 DEF ToSet
  <2> DEFINE i == CHOOSE i \in DOMAIN s : s[i] = u
  <2>2. i \in DOMAIN s /\ s[i] = u
    BY <2>1
  <2>3. find_user_index(u, s) = i - 1
    BY <2>1 DEF find_user_index
  <2> HIDE DEF i
  <2>4. QED
    BY <1>1, <1>2, <2>2, <2>3
<1>3. CASE u \notin ToSet(s)
  BY <1>3 DEF ToSet, find_user_index
<1>4. QED
  BY <1>2, <1>3

LEMMA LeastBounds ==
  ASSUME NEW n \in Nat
  PROVE  /\ Least(n, 3) \in 0..n
         /\ Least(n, 3) = 3 \/ (Least(n, 3) = n /\ n < 3)
BY DEF Least

(* For a ranked user at most three consecutive rows are copied, with the    *)
(* user's own among them and, unless it is the first or last, in between.   *)
LEMMA RankedCopy ==
  ASSUME NEW u \in Uid, NEW s, IsRanking(s), u \in ToSet(s)
  PROVE  LET n == Least(Len(s), 3)
             c == Copied(u, s)
         IN  \E k \in 0..(Len(s) - n) :
               /\ c \in Seq(Uid) /\ Len(c) = n
               /\ \A i \in 1..n : c[i] = s[k + i]
               /\ \E i \in 1..n : c[i] = u
               /\ n = 3 => u \in {c[2], s[1], s[Len(s)]}
<1> DEFINE size == Len(s)
           n == Least(size, 3)
           index == find_user_index(u, s)
           k == FirstRow(index, size)
           l == LastRow(index, size)
           c == Copied(u, s)
<1>1. s \in Seq(Uid) /\ size \in Nat
  BY DEF IsRanking
<1>2. index \in 0..(size - 1) /\ s[index + 1] = u
  BY IndexOf
<1> HIDE DEF size, index
<1>3. /\ k \in 0..(size - n) /\ l = k + n - 1
      /\ n \in 0..size
      /\ k <= index /\ index <= l
      /\ n = 3 => index \in {k + 1, 0, size - 1}
  <2>1. CASE size < 3
    BY <1>1, <1>2, <2>1 DEF FirstRow, LastRow, Least, max_tournament_pool
  <2>2. CASE size >= 3 /\ index = 0
    BY <1>1, <1>2, <2>2 DEF FirstRow, LastRow, Least, max_tournament_pool
  <2>3. CASE size >= 3 /\ index = size - 1
    BY <1>1, <1>2, <2>3 DEF FirstRow, LastRow, Least, max_tournament_pool
  <2>4. CASE size >= 3 /\ index \notin {0, size - 1}
    BY <1>1, <1>2, <2>4 DEF FirstRow, LastRow, Least, max_tournament_pool
  <2>5. QED
    BY <1>1, <2>1, <2>2, <2>3, <2>4
<1>4. c = SubSeq(s, k + 1, l + 1)
  <2>1. ~(k < 0)
    BY <1>1, <1>3
  <2>2. QED
    BY <2>1 DEF Copied, index, size
<1> HIDE DEF n, k, l, c
<1>5. /\ c \in Seq(Uid) /\ Len(c) = n
      /\ \A i \in 1..n : c[i] = s[k + i]
  BY <1>1, <1>3, <1>4 DEF size
<1>6. index - k + 1 \in 1..n /\ k + (index - k + 1) = index + 1
  BY <1>1, <1>2, <1>3
<1>7. c[index - k + 1] = u
  BY <1>2, <1>5, <1>6
<1>8. n = 3 => u \in {c[2], s[1], s[size]}
  <2>1. ASSUME n = 3
        PROVE  c[2] = s[k + 2]
    BY <1>5, <2>1
  <2>2. n = 3 => index + 1 \in {k + 2, 1, size}
    BY <1>1, <1>2, <1>3
  <2>3. QED
    BY <1>2, <2>1, <2>2
<1>9. QED
  BY <1>3, <1>5, <1>6, <1>7, <1>8 DEF size, n, c

(* For a user who is not ranked everything is copied when there are fewer   *)
(* than three rows, and nothing otherwise.                                  *)
LEMMA UnrankedCopy ==
  ASSUME NEW u \in Uid, NEW s, IsRanking(s), u \notin ToSet(s)
  PROVE  IF Len(s) < 3 THEN Copied(u, s) = s ELSE Copied(u, s) = <<>>
<1>1. s \in Seq(Uid) /\ Len(s) \in Nat
  BY DEF IsRanking
<1>2. find_user_index(u, s) = -1
  BY IndexOf
<1>3. CASE Len(s) < 3
  <2>1. /\ FirstRow(-1, Len(s)) = 0
        /\ LastRow(-1, Len(s)) = Len(s) - 1
    BY <1>1, <1>3 DEF FirstRow, LastRow, max_tournament_pool
  <2>2. Copied(u, s) = SubSeq(s, 1, Len(s))
    BY <1>1, <1>2, <2>1 DEF Copied
  <2>3. QED
    BY <1>1, <1>3, <2>2
<1>4. CASE ~(Len(s) < 3)
  <2>1. FirstRow(-1, Len(s)) = -2
    BY <1>1, <1>4 DEF FirstRow, max_tournament_pool
  <2>2. QED
    BY <1>2, <1>4, <2>1 DEF Copied
<1>5. QED
  BY <1>3, <1>4

(* The reply is built from the ranking for the user. *)
StandingsInv ==
  /\ uid \in Uid /\ IsRanking(tournament_infos)
  /\ results # <<>> => results = get_tournament_infos(uid, tournament_infos)

LEMMA StandingsInvariant == StandingsSpec => []StandingsInv
<1>1. StandingsInit => StandingsInv
  BY RankingsAreRankings DEF StandingsInit, StandingsInv
<1>2. StandingsInv /\ [Build]_standingsVars => StandingsInv'
  BY DEF StandingsInv, Build, standingsVars
<1>3. QED
  BY <1>1, <1>2, PTL DEF StandingsSpec

(* A ranked user sees the three rows around the own one, or all there are.  *)
THEOREM RankedSeeNeighbours == StandingsSpec => []OwnNeighbourhood
<1>1. ASSUME StandingsInv, results # <<>>, Ranked
      PROVE  OwnNeighbourhood
  <2> DEFINE s == tournament_infos
             n == Least(Len(s), 3)
             c == Copied(uid, s)
  <2>1. PICK k \in 0..(Len(s) - n) :
          /\ c \in Seq(Uid) /\ Len(c) = n
          /\ \A i \in 1..n : c[i] = s[k + i]
          /\ \E i \in 1..n : c[i] = uid
          /\ n = 3 => uid \in {c[2], s[1], s[Len(s)]}
    BY <1>1, RankedCopy DEF StandingsInv, Ranked
  <2>2. s \in Seq(Uid) /\ Len(s) \in Nat /\ n \in 0..Len(s) /\ n \in 0..3
    <3>1. s \in Seq(Uid) /\ Len(s) \in Nat
      BY <1>1 DEF StandingsInv, IsRanking
    <3>2. QED
      BY <3>1, LeastBounds
  <2>3. results = [i \in 1..Len(s) |->
                     IF i <= n THEN c[i]
                     ELSE IF i <= 3 THEN Uninitialised ELSE OutOfBounds]
    <3>1. DOMAIN s = 1..Len(s) /\ Len(c) = n
      BY <2>1, <2>2
    <3>2. QED
      BY <1>1, <3>1 DEF StandingsInv, get_tournament_infos, max_tournament_pool
  <2> HIDE DEF n, c
  <2>4. \A i \in 1..n : results[i] = c[i] /\ c[i] \in Uid
    BY <2>1, <2>2, <2>3
  <2>5. DOMAIN results = 1..Len(s)
    BY <2>3
  <2>6. \A i \in 1..Len(s) : i <= n \/ results[i] \notin Uid
    BY <2>2, <2>3, NoRowAssumption
  <2>7. {i \in DOMAIN results : results[i] \in Uid} = 1..n
    BY <2>2, <2>4, <2>5, <2>6
  <2>8. \A i \in 1..n : results[i] = s[k + i]
    BY <2>1, <2>4
  <2>9. \E i \in 1..n : results[i] = uid
    BY <2>1, <2>4
  <2>10. n = 3 => uid \in {results[2], Head(s), Last(s)}
    BY <2>1, <2>2, <2>4 DEF Last
  <2>11. QED
    BY <2>7, <2>8, <2>9, <2>10 DEF OwnNeighbourhood, n
<1>2. StandingsInv => OwnNeighbourhood
  BY <1>1 DEF OwnNeighbourhood
<1>3. QED
  BY <1>2, StandingsInvariant, PTL

(* A reply holds nothing but rows exactly when the ranking has fewer than   *)
(* three, or three with the user among them.                                *)
THEOREM RowsExactlyWhen == StandingsSpec => []DefinedExactlyWhen
<1>1. ASSUME StandingsInv, results # <<>>
      PROVE  ToSet(results) \subseteq Uid
               <=> \/ Len(tournament_infos) < 3
                   \/ Len(tournament_infos) = 3 /\ Ranked
  <2> DEFINE s == tournament_infos
             c == Copied(uid, s)
  <2>1. s \in Seq(Uid) /\ Len(s) \in Nat
    BY <1>1 DEF StandingsInv, IsRanking
  <2>2. /\ c \in Seq(Uid) /\ Len(c) \in 0..Len(s)
        /\ Len(c) = Len(s) <=> (Len(s) < 3 \/ (Len(s) = 3 /\ Ranked))
    <3> USE DEF Ranked
    <3>1. CASE Ranked
      <4>1. c \in Seq(Uid) /\ Len(c) = Least(Len(s), 3)
        BY <1>1, <3>1, RankedCopy DEF StandingsInv
      <4> HIDE DEF c
      <4>2. Len(s) < 3 => Len(c) = Len(s)
        BY <2>1, <4>1, LeastBounds
      <4>3. ~(Len(s) < 3) => Len(c) = 3
        BY <2>1, <4>1, LeastBounds
      <4>4. CASE Len(s) < 3
        BY <2>1, <4>1, <4>2, <4>4
      <4>5. CASE ~(Len(s) < 3)
        <5>1. Len(c) = 3 /\ Len(s) \in Nat /\ 3 <= Len(s)
          BY <2>1, <4>3, <4>5
        <5>2. c \in Seq(Uid)
          BY <4>1
        <5>3. QED
          BY <3>1, <4>5, <5>1, <5>2
      <4>6. QED
        BY <4>4, <4>5
    <3>2. CASE ~Ranked
      <4>1. IF Len(s) < 3 THEN c = s ELSE c = <<>>
        BY <1>1, <3>2, UnrankedCopy DEF StandingsInv
      <4> HIDE DEF c
      <4>2. CASE Len(s) < 3
        BY <2>1, <4>1, <4>2
      <4>3. CASE ~(Len(s) < 3)
        <5>1. c = <<>> /\ c \in Seq(Uid) /\ Len(c) = 0
          BY <4>1, <4>3
        <5>2. QED
          BY <2>1, <3>2, <4>3, <5>1
      <4>4. QED
        BY <4>2, <4>3
    <3>3. QED
      BY <3>1, <3>2
  <2>3. results = [i \in 1..Len(s) |->
                     IF i <= Len(c) THEN c[i]
                     ELSE IF i <= 3 THEN Uninitialised ELSE OutOfBounds]
    BY <1>1, <2>1 DEF StandingsInv, get_tournament_infos, max_tournament_pool
  <2> HIDE DEF c
  <2>4. ToSet(results) = {results[i] : i \in 1..Len(s)}
    BY <2>3 DEF ToSet
  <2>5. Len(c) = Len(s) => ToSet(results) \subseteq Uid
    BY <2>1, <2>2, <2>3, <2>4
  <2>6. ASSUME Len(c) # Len(s)
        PROVE  ~(ToSet(results) \subseteq Uid)
    <3>1. Len(s) \in 1..Len(s) /\ ~(Len(s) <= Len(c))
      BY <2>1, <2>2, <2>6
    <3>2. results[Len(s)] \notin Uid
      BY <2>3, <3>1, NoRowAssumption
    <3>3. QED
      BY <2>4, <3>1, <3>2
  <2>7. ToSet(results) \subseteq Uid <=> Len(c) = Len(s)
    BY <2>5, <2>6
  <2>8. QED
    BY <2>2, <2>7 DEF Ranked
<1>2. StandingsInv => DefinedExactlyWhen
  BY <1>1 DEF DefinedExactlyWhen
<1>3. QED
  BY <1>2, StandingsInvariant, PTL

=============================================================================
