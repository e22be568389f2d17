------------------------------ MODULE PrizePool ------------------------------
(***************************************************************************)
(* The prize of one tournament: tournament::add_bet_credit, reset and      *)
(* get_prize_pool of scheduler_md.cpp.                                     *)
(*                                                                         *)
(* The prize grows by a step every Interval seconds of the period and by a *)
(* fifth of all bets.  bet_credits_ is a std::atomic<int>: adding to it    *)
(* wraps around, and what is added is any int a client sends.              *)
(* get_prize_pool() loads it first and asks for the time afterwards, while *)
(* other threads bet, the clock goes on and the scheduler resets: at the   *)
(* boot in the middle of a period, else some time after it has begun.      *)
(***************************************************************************)
EXTENDS Integers

CONSTANTS
  Period,    \* 330 seconds
  Interval,  \* update_interval, 10 seconds
  MaxArea,   \* max_pool_area, 30
  EndBet,    \* end_bet_: 500, 5000 or 1000000
  MaxInt,    \* the largest int, 2^31 - 1
  Bets,      \* the bets of a run
  Readers    \* threads in get_prize_pool()

Int32 == (-MaxInt - 1)..MaxInt

ASSUME PrizeAssumption ==
  /\ Period \in Nat \ {0}
  /\ Interval \in Nat \ {0}
  /\ MaxArea \in Nat \ {0}
  /\ EndBet \in Nat
  /\ MaxInt \in Nat
  /\ EndBet * 4 * MaxArea + MaxInt \div 5 <= MaxInt
  /\ Bets \subseteq Int32

VARIABLES
  second,       \* time(0) % Period
  bet_credits,  \* bet_credits_
  rpc,          \* where each reader is in get_prize_pool()
  bet_pool,     \* its local variable
  prize_pool,   \* what it has returned, 0 while it is called
  seen,         \* history: the highest prize returned since the last fall
  floor,        \* history: what seen was when the reader was called
  fallen        \* history: the calls during which there was a fall

vars == <<second, bet_credits, rpc, bet_pool, prize_pool, seen, floor, fallen>>

TypeOK ==
  /\ second \in 0..(Period - 1)
  /\ bet_credits \in Int32
  /\ rpc \in [Readers -> {"idle", "time"}]
  /\ bet_pool \in [Readers -> Int32]
  /\ prize_pool \in [Readers -> Int]
  /\ seen \in Int
  /\ floor \in [Readers -> Int]
  /\ fallen \subseteq Readers

-----------------------------------------------------------------------------
(* Addition of ints in the atomic wraps around. *)
Wrap(n) == ((n + MaxInt + 1) % (2 * MaxInt + 2)) - MaxInt - 1

(* Wrong on purpose: all bets go to the pool. *)
Whole(n) == n

(* Division of ints rounds towards zero. *)
Fifth(n) == IF n < 0 THEN -((-n) \div 5) ELSE n \div 5

AreaAt(seconds) ==
  IF seconds \div Interval + 1 > MaxArea THEN MaxArea ELSE seconds \div Interval + 1

(* Wrong on purpose: what its name says, the time that remains. *)
area_remaining(s) == AreaAt(Period - s)

(* remaining_time is 330 - (330 - s): the seconds since the period began. *)
pool_area(s) == AreaAt(Period - (Period - s))

PrizeOf(pool, s) == EndBet * 4 * pool_area(s) + pool

Prize == PrizeOf(Fifth(bet_credits), second)

(* No prize is less. *)
Nothing == -MaxInt - 1

Init ==
  /\ second \in 0..(Period - 1)
  /\ bet_credits = 0
  /\ rpc = [r \in Readers |-> "idle"]
  /\ bet_pool = [r \in Readers |-> 0]
  /\ prize_pool = [r \in Readers |-> 0]
  /\ seen = Nothing
  /\ floor = [r \in Readers |-> Nothing]
  /\ fallen = {}

(* The prize may fall: what has been seen of it, also by the calls under    *)
(* way, is of the past.                                                     *)
Fall ==
  /\ seen' = Nothing
  /\ floor' = [r \in Readers |-> Nothing]
  /\ fallen' = {r \in Readers : rpc[r] = "time"}

(* A bet does not make the prize fall, unless it is negative or makes the   *)
(* sum wrap around.                                                         *)
HistoryOfBet(b) ==
  IF b < 0 \/ bet_credits + b > MaxInt THEN Fall ELSE UNCHANGED <<seen, floor, fallen>>

(* Wrong on purpose: an int that is not bounded. *)
add_without_wrap(b) ==
  /\ bet_credits' = bet_credits + b
  /\ HistoryOfBet(b)
  /\ UNCHANGED <<second, rpc, bet_pool, prize_pool>>

add_bet_credit(b) ==
  /\ bet_credits' = Wrap(bet_credits + b)
  /\ HistoryOfBet(b)
  /\ UNCHANGED <<second, rpc, bet_pool, prize_pool>>

(* get_prize_pool(): load bet_credits_ ... *)
LoadBets(r) ==
  /\ rpc[r] = "idle"
  /\ rpc' = [rpc EXCEPT ![r] = "time"]
  /\ bet_pool' = [bet_pool EXCEPT ![r] = Fifth(bet_credits)]
  /\ prize_pool' = [prize_pool EXCEPT ![r] = 0]
  /\ floor' = [floor EXCEPT ![r] = seen]
  /\ UNCHANGED <<second, bet_credits, seen, fallen>>

(* ... then ask for the time. *)
AskTime(r) ==
  LET result == PrizeOf(bet_pool[r], second) IN
  /\ rpc[r] = "time"
  /\ rpc' = [rpc EXCEPT ![r] = "idle"]
  /\ prize_pool' = [prize_pool EXCEPT ![r] = result]
  /\ bet_pool' = [bet_pool EXCEPT ![r] = 0]
  /\ seen' = IF r \notin fallen /\ result > seen THEN result ELSE seen
  /\ floor' = [floor EXCEPT ![r] = Nothing]
  /\ fallen' = fallen \ {r}
  /\ UNCHANGED <<second, bet_credits>>

(* With the period begins the growth of the prize, whenever the reset is.   *)
Tick ==
  /\ second' = (second + 1) % Period
  /\ IF second = Period - 1 THEN Fall ELSE UNCHANGED <<seen, floor, fallen>>
  /\ UNCHANGED <<bet_credits, rpc, bet_pool, prize_pool>>

(* bet_credits_ = 0, in whatever second the scheduler gets there. *)
reset ==
  /\ bet_credits' = 0
  /\ Fall
  /\ UNCHANGED <<second, rpc, bet_pool, prize_pool>>

Next ==
  \/ \E b \in Bets : add_bet_credit(b)
  \/ \E r \in Readers : LoadBets(r) \/ AskTime(r)
  \/ Tick
  \/ reset

Spec == Init /\ [][Next]_vars

-----------------------------------------------------------------------------
(* No thread computes in int what an int cannot hold, whatever has been     *)
(* bet, and even after bet_credits_ has wrapped around.                     *)
PrizeFitsInt == \A r \in Readers : prize_pool[r] \in Int32

(* The players never see the prize fall: a call of get_prize_pool() returns *)
(* no less than one that had ended when it began, in whatever order bets,   *)
(* seconds and the two reads of each call come, unless in between a new     *)
(* period or a reset makes it fall, a negative bet, or a bet that makes the *)
(* sum wrap around (2148 bets of 1000000 are enough).                       *)
PrizeNeverFalls ==
  [][\A r \in Readers :
       rpc[r] = "time" /\ rpc'[r] = "idle" /\ r \notin fallen
       => floor[r] <= prize_pool'[r]]_vars

=============================================================================
