------------------------ MODULE TournamentRoundProofs ------------------------
(***************************************************************************)
(* What the tournaments owe to time: theorems for every period, break,     *)
(* number of threads, users and tournaments.                               *)
(*                                                                         *)
(* First comes the scheduler thread by itself, however late it is.  Then,  *)
(* for lateness within TimingAssumption, when the scheduler is where       *)
(* (TimeInv), where it is while a request is under way (RoundInv), and     *)
(* last the refinement of TournamentRound: requests and resets exclude     *)
(* each other.                                                             *)
(***************************************************************************)
EXTENDS TournamentServer, TLAPS

-----------------------------------------------------------------------------
(* The inductive invariant behind OneResetPerPeriod. *)
ResetInv == SchedTypeOK /\ OneResetPerPeriod /\ NextResetIsLater

LEMMA ResetInvInit == SchedInit => ResetInv
BY SchedulerAssumption
   DEF SchedInit, ResetInv, SchedTypeOK, OneResetPerPeriod, NextResetIsLater,
       SchedulerSteps

(* The steps of the loop's head and of the break. *)
LEMMA BreakSteps ==
  ASSUME ResetInv,
         ReadClock \/ ArmBreak \/ CloseForBreak \/ WakeFromBreak
  PROVE  ResetInv'
<1> USE SchedulerAssumption
    DEF ResetInv, SchedTypeOK, OneResetPerPeriod, NextResetIsLater,
        SchedulerSteps, RemainingNow, Goto
<1>1. CASE ReadClock
  BY <1>1 DEF ReadClock
<1>2. CASE ArmBreak
  BY <1>2 DEF ArmBreak
<1>3. CASE CloseForBreak
  BY <1>3 DEF CloseForBreak
<1>4. CASE WakeFromBreak
  BY <1>4 DEF WakeFromBreak
<1>5. QED
  BY <1>1, <1>2, <1>3, <1>4

(* The steps of the reset. *)
LEMMA StepsOfReset ==
  ASSUME ResetInv,
         \/ StartReset \/ ResetStatementEnds \/ ResetStatementUnavailable
         \/ Reopen \/ ResetLock \/ ResetClear \/ ResetZero
  PROVE  ResetInv'
<1> USE SchedulerAssumption
    DEF ResetInv, SchedTypeOK, OneResetPerPeriod, NextResetIsLater,
        SchedulerSteps, Goto
<1>1. CASE StartReset
  <2>1. resets = 0
    BY <1>1 DEF StartReset
  <2>2. SchedTypeOK'
    <3>1. spc' \in SchedulerSteps /\ up' \in BOOLEAN
      BY <1>1 DEF StartReset
    <3>2. lag' \in Nat /\ on' \in BOOLEAN
      BY <1>1 DEF StartReset
    <3>3. resets' \in Nat
      BY <1>1, <2>1 DEF StartReset
    <3>4. /\ second' \in 0..(Period - 1)
          /\ remaining' \in 0..Period
          /\ left' \in (-Break)..Period
          /\ cursor' \in 0..(Zones - 1)
      BY <1>1 DEF StartReset
    <3>5. QED
      BY <3>1, <3>2, <3>3, <3>4
  <2>3. OneResetPerPeriod'
    BY <1>1, <2>1 DEF StartReset
  <2>4. NextResetIsLater'
    BY <1>1 DEF StartReset
  <2>5. QED
    BY <2>2, <2>3, <2>4
<1>2. CASE ResetStatementEnds
  BY <1>2 DEF ResetStatementEnds
<1>3. CASE ResetStatementUnavailable
  BY <1>3 DEF ResetStatementUnavailable
<1>4. CASE Reopen
  BY <1>4 DEF Reopen
<1>5. CASE ResetLock
  BY <1>5 DEF ResetLock
<1>6. CASE ResetClear
  BY <1>6 DEF ResetClear
<1>7. CASE ResetZero
  BY <1>7 DEF ResetZero
<1>8. QED
  BY <1>1, <1>2, <1>3, <1>4, <1>5, <1>6, <1>7

(* The steps of the play. *)
LEMMA PlaySteps ==
  ASSUME ResetInv,
         Resume \/ ReadClockAgain \/ ArmPlay \/ WakeFromPlay
  PROVE  ResetInv'
<1> USE SchedulerAssumption
    DEF ResetInv, SchedTypeOK, OneResetPerPeriod, NextResetIsLater,
        SchedulerSteps, RemainingNow, Goto
<1>1. CASE Resume
  BY <1>1 DEF Resume
<1>2. CASE ReadClockAgain
  BY <1>2 DEF ReadClockAgain
<1>3. CASE ArmPlay
  BY <1>3 DEF ArmPlay
<1>4. CASE WakeFromPlay
  BY <1>4 DEF WakeFromPlay
<1>5. QED
  BY <1>1, <1>2, <1>3, <1>4

(* A second passes: the sum of the second and the time left to sleep stays  *)
(* the same, until the period is over or the timer has expired.             *)
LEMMA TickStep ==
  ASSUME ResetInv, Tick
  PROVE  ResetInv'
<1>1. SecondPasses
  BY DEF Tick, TickAsleep, TickInStatement, TickRunning
<1>2. lag' \in Nat
  BY DEF Tick, TickAsleep, TickInStatement, TickRunning, ResetInv, SchedTypeOK
<1>3. SchedTypeOK'
  BY <1>1, <1>2, SchedulerAssumption DEF SecondPasses, ResetInv, SchedTypeOK
<1>4. OneResetPerPeriod'
  BY <1>1, SchedulerAssumption
  DEF SecondPasses, ResetInv, OneResetPerPeriod
<1>5. NextResetIsLater'
  BY <1>1, SchedulerAssumption
  DEF SecondPasses, ResetInv, NextResetIsLater, SchedTypeOK
<1>6. QED
  BY <1>3, <1>4, <1>5 DEF ResetInv

LEMMA ResetInvNext == ResetInv /\ [SchedNext]_schedVars => ResetInv'
<1> SUFFICES ASSUME ResetInv, [SchedNext]_schedVars PROVE ResetInv'
  OBVIOUS
<1>1. CASE run
  BY <1>1, BreakSteps, StepsOfReset, PlaySteps DEF run
<1>2. CASE Tick
  BY <1>2, TickStep
<1>3. CASE Terminated \/ UNCHANGED schedVars
  BY <1>3
  DEF Terminated, schedVars, ResetInv, SchedTypeOK, OneResetPerPeriod, NextResetIsLater
<1>4. QED
  BY <1>1, <1>2, <1>3 DEF SchedNext

(* The scheduler's variables keep their types.  Above all, a timer is never *)
(* armed for more than a period, nor for less than minus the break, and the *)
(* loop over the tournaments stays within them.                             *)
THEOREM SchedulerTypeCorrect == SchedSpec => []SchedTypeOK
<1>1. ResetInv => SchedTypeOK
  BY DEF ResetInv
<1>2. QED
  BY <1>1, ResetInvInit, ResetInvNext, PTL DEF SchedSpec

(* However late the thread runs and however long the reset statement takes, *)
(* the tournaments are wiped at most once in a period.                      *)
THEOREM AtMostOneReset == SchedSpec => []OneResetPerPeriod
<1>1. ResetInv => OneResetPerPeriod
  BY DEF ResetInv
<1>2. QED
  BY <1>1, ResetInvInit, ResetInvNext, PTL DEF SchedSpec

-----------------------------------------------------------------------------
(* FlagFollowsClock. *)

LagAllowed == spc # "sql" => lag <= MaxLag

(* A timer of r seconds, armed l seconds ago at most for the rest of the    *)
(* break, ends with the period or at most l seconds later.                  *)
EndsWithPeriod(r) ==
  \/ /\ second >= Period - Break
     /\ Period <= second + r
     /\ second + r <= Period + lag
  \/ second + r <= lag

BreakTimers ==
  /\ spc = "arm_break" => EndsWithPeriod(remaining)
  /\ spc \in {"close", "break"} => EndsWithPeriod(left)

PlayTimers ==
  /\ spc = "arm_play" => remaining = 0 \/ second + remaining <= Period + lag
  /\ spc = "play" => left <= 0 \/ second + left <= Period - Break + lag

FlagInStep ==
  /\ spc = "break" => ~on
  /\ spc \in {"reread", "arm_play", "play", "read"} => on

(* The inductive invariant behind FlagFollowsClock. *)
FlagInv == SchedTypeOK /\ LagAllowed /\ BreakTimers /\ PlayTimers /\ FlagInStep

LEMMA FlagInvInit == SchedInit => FlagInv
BY SchedulerAssumption
DEF SchedInit, FlagInv, SchedTypeOK, SchedulerSteps, LagAllowed, BreakTimers,
    PlayTimers, FlagInStep

LEMMA FlagInvRun ==
  ASSUME FlagInv, SchedTypeOK', run
  PROVE  FlagInv'
<1> USE SchedulerAssumption
    DEF FlagInv, SchedTypeOK, LagAllowed, BreakTimers, PlayTimers, FlagInStep,
        EndsWithPeriod, RemainingNow, Goto
<1>1. CASE ReadClock
  <2>1. CASE spc' = "arm_break" /\ Period - second <= Break
    BY <1>1, <2>1 DEF ReadClock
  <2>2. CASE spc' = "off"
    BY <1>1, <2>2 DEF ReadClock
  <2>3. QED
    BY <1>1, <2>1, <2>2 DEF ReadClock
<1>2. CASE ArmBreak \/ CloseForBreak \/ WakeFromBreak
  <2>1. CASE ArmBreak
    BY <2>1 DEF ArmBreak
  <2>2. CASE CloseForBreak
    BY <2>2 DEF CloseForBreak
  <2>3. CASE WakeFromBreak
    BY <2>3 DEF WakeFromBreak
  <2>4. QED
    BY <1>2, <2>1, <2>2, <2>3
<1>3. CASE \/ StartReset \/ ResetStatementEnds
           \/ ResetStatementUnavailable \/ Reopen
  <2>1. CASE StartReset
    BY <2>1 DEF StartReset
  <2>2. CASE ResetStatementEnds
    BY <2>2 DEF ResetStatementEnds
  <2>3. CASE ResetStatementUnavailable
    BY <2>3 DEF ResetStatementUnavailable
  <2>4. CASE Reopen
    BY <2>4 DEF Reopen
  <2>5. QED
    BY <1>3, <2>1, <2>2, <2>3, <2>4
<1>4. CASE ResetLock \/ ResetClear
  BY <1>4 DEF ResetLock, ResetClear
<1>5. CASE ResetZero
  BY <1>5 DEF ResetZero
<1>6. CASE Resume
  BY <1>6 DEF Resume
<1>7. CASE ReadClockAgain
  BY <1>7 DEF ReadClockAgain
<1>8. CASE ArmPlay
  BY <1>8 DEF ArmPlay
<1>9. CASE WakeFromPlay
  BY <1>9 DEF WakeFromPlay
<1>10. QED
  BY <1>1, <1>2, <1>3, <1>4, <1>5, <1>6, <1>7, <1>8, <1>9 DEF run

(* A second passes: the thread is late by one more, or its timer shorter.   *)
LEMMA FlagInvTick ==
  ASSUME FlagInv, SchedTypeOK', Tick
  PROVE  FlagInv'
<1> USE SchedulerAssumption DEF FlagInv, SchedTypeOK
<1>1. SecondPasses /\ spc' = spc
  BY DEF Tick, TickAsleep, TickInStatement, TickRunning, SecondPasses
<1>2. LagAllowed' /\ FlagInStep'
  BY <1>1
  DEF Tick, TickAsleep, TickInStatement, TickRunning, SecondPasses, LagAllowed,
      FlagInStep
<1>3. \/ second' = second + 1 /\ second + 1 < Period
      \/ second' = 0 /\ second = Period - 1
  BY <1>1 DEF SecondPasses
<1>4. \/ lag' = lag /\ left' = left - 1 /\ left > 0
      \/ lag' = lag + 1 /\ left' = left - 1 /\ left > 0
      \/ lag' = lag + 1 /\ left <= 0 /\ left' = left
  <2>1. (left > 0 /\ left' = left - 1) \/ (left <= 0 /\ left' = left)
    BY <1>1 DEF SecondPasses
  <2>2. (lag' = lag /\ left > 0) \/ lag' = lag + 1
    BY DEF Tick, TickAsleep, TickInStatement, TickRunning, Asleep
  <2>3. QED
    BY <2>1, <2>2
<1>5. spc \in {"arm_break", "arm_play"} => lag' = lag + 1
  BY DEF Tick, TickAsleep, TickInStatement, TickRunning, Asleep
<1>6. remaining' = remaining
  BY <1>1 DEF SecondPasses
<1>7. BreakTimers'
  <2>1. CASE spc = "arm_break"
    <3>1. EndsWithPeriod(remaining) /\ lag' = lag + 1
      BY <1>5, <2>1 DEF BreakTimers
    <3>2. EndsWithPeriod(remaining)'
      <4>1. CASE second' = second + 1 /\ second + 1 < Period
        BY <1>6, <3>1, <4>1 DEF EndsWithPeriod
      <4>2. CASE second' = 0 /\ second = Period - 1
        BY <1>6, <3>1, <4>2 DEF EndsWithPeriod
      <4>3. QED
        BY <1>3, <4>1, <4>2
    <3>3. QED
      BY <1>1, <2>1, <3>2 DEF BreakTimers
  <2>2. CASE spc \in {"close", "break"}
    <3>1. EndsWithPeriod(left)
      BY <2>2 DEF BreakTimers
    <3>2. EndsWithPeriod(left)'
      <4>1. CASE lag' = lag /\ left' = left - 1 /\ left > 0
        <5>1. CASE second' = second + 1 /\ second + 1 < Period
          BY <3>1, <4>1, <5>1 DEF EndsWithPeriod
        <5>2. CASE second' = 0 /\ second = Period - 1
          BY <3>1, <4>1, <5>2 DEF EndsWithPeriod
        <5>3. QED
          BY <1>3, <5>1, <5>2
      <4>2. CASE lag' = lag + 1 /\ left' = left - 1 /\ left > 0
        <5>1. CASE second' = second + 1 /\ second + 1 < Period
          BY <3>1, <4>2, <5>1 DEF EndsWithPeriod
        <5>2. CASE second' = 0 /\ second = Period - 1
          BY <3>1, <4>2, <5>2 DEF EndsWithPeriod
        <5>3. QED
          BY <1>3, <5>1, <5>2
      <4>3. CASE lag' = lag + 1 /\ left <= 0 /\ left' = left
        <5>1. CASE second' = second + 1 /\ second + 1 < Period
          BY <3>1, <4>3, <5>1 DEF EndsWithPeriod
        <5>2. CASE second' = 0 /\ second = Period - 1
          BY <3>1, <4>3, <5>2 DEF EndsWithPeriod
        <5>3. QED
          BY <1>3, <5>1, <5>2
      <4>4. QED
        BY <1>4, <4>1, <4>2, <4>3
    <3>3. QED
      BY <1>1, <2>2, <3>2 DEF BreakTimers
  <2>3. QED
    BY <1>1, <2>1, <2>2 DEF BreakTimers
<1>8. PlayTimers'
  <2>1. CASE spc = "arm_play"
    <3>1. CASE second' = second + 1
      BY <1>1, <1>5, <1>6, <2>1, <3>1 DEF PlayTimers
    <3>2. CASE second' = 0
      BY <1>1, <1>5, <1>6, <2>1, <3>2 DEF PlayTimers
    <3>3. QED
      BY <1>3, <3>1, <3>2
  <2>2. CASE spc = "play"
    <3>1. left <= 0 \/ second + left <= Period - Break + lag
      BY <2>2 DEF PlayTimers
    <3>2. left' <= 0 \/ second' + left' <= Period - Break + lag'
      <4>1. CASE left <= 0
        <5>1. left' = left
          BY <1>1, <4>1 DEF SecondPasses
        <5>2. QED
          BY <4>1, <5>1
      <4>2. CASE left > 0 /\ left' = left - 1 /\ lag' = lag
        <5>1. CASE second' = second + 1
          BY <3>1, <4>2, <5>1
        <5>2. CASE second' = 0
          BY <3>1, <4>2, <5>2
        <5>3. QED
          BY <1>3, <5>1, <5>2
      <4>3. CASE left > 0 /\ left' = left - 1 /\ lag' = lag + 1
        <5>1. CASE second' = second + 1
          BY <3>1, <4>3, <5>1
        <5>2. CASE second' = 0
          BY <3>1, <4>3, <5>2
        <5>3. QED
          BY <1>3, <5>1, <5>2
      <4>4. QED
        BY <1>4, <4>1, <4>2, <4>3
    <3>3. QED
      BY <1>1, <2>2, <3>2 DEF PlayTimers
  <2>3. QED
    BY <1>1, <2>1, <2>2 DEF PlayTimers
<1>9. QED
  BY <1>2, <1>7, <1>8

LEMMA FlagInvNext ==
  FlagInv /\ SchedTypeOK' /\ [SchedNext]_schedVars => FlagInv'
<1> SUFFICES ASSUME FlagInv, SchedTypeOK', [SchedNext]_schedVars PROVE FlagInv'
  OBVIOUS
<1>1. CASE Terminated \/ UNCHANGED schedVars
  BY <1>1
  DEF Terminated, schedVars, FlagInv, SchedTypeOK, LagAllowed, BreakTimers,
      PlayTimers, FlagInStep, EndsWithPeriod
<1>2. QED
  BY <1>1, FlagInvRun, FlagInvTick DEF SchedNext

(* While the thread sleeps the flag agrees with the clock, to within the    *)
(* lag with which its timer was armed, for every period and break.          *)
THEOREM FlagAgreesWithClock == SchedSpec => []FlagFollowsClock
<1>1. FlagInv => FlagFollowsClock
  BY SchedulerAssumption
  DEF FlagInv, SchedTypeOK, LagAllowed, BreakTimers, PlayTimers, FlagInStep,
      EndsWithPeriod, FlagFollowsClock, Asleep
<1>2. QED
  BY <1>1, SchedulerTypeCorrect, FlagInvInit, FlagInvNext, PTL DEF SchedSpec

-----------------------------------------------------------------------------
(* When the scheduler is where.  Every bound is a second of the period plus *)
(* the ticks since the thread last blocked.                                 *)

PlayEnd == Period - Break

(* How late in a period the server may be started and play before its break. *)
Slack == PlayEnd - (MaxSql + 3 * MaxLag)

TimeTypes ==
  /\ second \in 0..(Period - 1)
  /\ on \in BOOLEAN
  /\ spc \in SchedulerSteps
  /\ remaining \in 0..Period
  /\ left \in (-Break)..Period
  /\ cursor \in Zone
  /\ lag \in Nat

LagBounded == lag <= IF spc = "sql" THEN MaxSql ELSE MaxLag

ResetSteps == {"reopen", "lock", "clear", "zero", "resume", "reread", "arm_play"}

(* The reset is over before the play is. *)
ResetInTime ==
  /\ spc = "boot" => (second >= PlayEnd /\ ~on) \/ second < Slack + lag
  /\ spc = "off" => second < Slack + MaxLag + lag
  /\ spc = "sql" => second < Slack + MaxLag + MaxLag + lag
  /\ spc \in ResetSteps => second + MaxLag < PlayEnd + lag

(* The play ends when the break begins. *)
PlayInTime ==
  /\ spc \in {"reread", "arm_play", "play", "read"} => on
  /\ spc = "arm_play" =>
       /\ remaining > Break
       /\ Period <= second + remaining /\ second + remaining <= Period + lag
  /\ spc = "play" =>
       /\ 0 <= left
       /\ PlayEnd <= second + left /\ second + left <= PlayEnd + lag
  /\ spc = "read" => PlayEnd <= second /\ second <= PlayEnd + MaxLag + lag

(* A timer that runs to the end of the period, or is over with it. *)
ToPeriodEnd(s, r, l) ==
  \/ s >= PlayEnd /\ Period <= s + r /\ s + r <= Period + l
  \/ s + r <= l

(* The break lasts from the end of the play to the end of the period.  The  *)
(* flag is up when it begins, unless the server was started in it.          *)
BreakInTime ==
  /\ spc = "arm_break" => ToPeriodEnd(second, remaining, lag)
  /\ spc \in {"close", "break"} => 0 <= left /\ ToPeriodEnd(second, left, lag)
  /\ spc \in {"arm_break", "close"} /\ on =>
       PlayEnd <= second /\ second <= PlayEnd + MaxLag + lag
  /\ spc = "break" => ~on

TimeInv == TimeTypes /\ LagBounded /\ ResetInTime /\ PlayInTime /\ BreakInTime

(* What the bounds depend on. *)
LEMMA Constants ==
  /\ Period \in Nat /\ Break \in Nat /\ MaxLag \in Nat /\ MaxSql \in Nat
  /\ MaxDelay \in Nat
  /\ PlayEnd \in Nat /\ PlayEnd = Period - Break
  /\ Slack \in Nat /\ Slack > 0 /\ Slack + MaxSql + MaxLag + MaxLag + MaxLag = PlayEnd
  /\ MaxDelay + MaxLag + MaxLag < Break
  /\ 0 \in Zone
BY SchedulerAssumption, ServerAssumption, TimingAssumption
DEF PlayEnd, Slack, Zone

LEMMA TimeInvInit == Init => TimeInv
<1> SUFFICES ASSUME Init PROVE TimeInv
  OBVIOUS
<1>1. TimeTypes
  BY Constants DEF Init, SchedInit, TimeTypes, SchedulerSteps
<1>2. LagBounded /\ PlayInTime /\ BreakInTime
  BY Constants DEF Init, SchedInit, LagBounded, PlayInTime, BreakInTime
<1>3. ResetInTime
  <2>1. spc = "boot" /\ lag = 0 /\ second \in Nat
    BY Constants DEF Init, SchedInit
  <2>2. second >= PlayEnd => ~(Period - second > Break)
    BY <2>1, Constants
  <2>3. second >= PlayEnd => ~on
    BY <2>2 DEF Init, SchedInit
  <2>4. second >= PlayEnd \/ second < Slack + lag
    BY <2>1, Constants DEF Init, PlayEnd, Slack
  <2>5. QED
    BY <2>1, <2>3, <2>4 DEF ResetInTime, ResetSteps
<1>4. QED
  BY <1>1, <1>2, <1>3 DEF TimeInv

(* A step of the thread takes no time.  Its lag stays or, when the thread   *)
(* has just been blocked, starts again.                                     *)
LEMMA ReadClockInTime ==
  ASSUME TimeInv, ReadClock
  PROVE  TimeInv'
<1> USE Constants DEF TimeInv, TimeTypes, LagBounded, ReadClock, RemainingNow
<1>1. TimeTypes' /\ LagBounded'
  BY DEF SchedulerSteps
<1>2. ResetInTime'
  BY DEF ResetInTime, PlayInTime, ResetSteps
<1>3. PlayInTime'
  BY DEF PlayInTime
<1>4. BreakInTime'
  <2>1. spc' = "arm_break" => second >= PlayEnd /\ second + remaining' = Period
    OBVIOUS
  <2>2. spc' = "arm_break" /\ on => second <= PlayEnd + MaxLag + lag
    BY <2>1 DEF ResetInTime, PlayInTime
  <2>3. QED
    BY <2>1, <2>2 DEF BreakInTime, ToPeriodEnd
<1>5. QED
  BY <1>1, <1>2, <1>3, <1>4

LEMMA BreakStepsInTime ==
  ASSUME TimeInv, ArmBreak \/ CloseForBreak \/ WakeFromBreak \/ StartReset
  PROVE  TimeInv'
<1> USE Constants DEF TimeInv, TimeTypes, LagBounded, Goto
<1>0. on' \in BOOLEAN
  BY DEF ArmBreak, CloseForBreak, WakeFromBreak, StartReset
<1>1. TimeTypes' /\ LagBounded'
  <2>1. CASE ArmBreak
    BY <1>0, <2>1 DEF ArmBreak, SchedulerSteps
  <2>2. CASE CloseForBreak
    BY <1>0, <2>2 DEF CloseForBreak, SchedulerSteps
  <2>3. CASE WakeFromBreak
    BY <1>0, <2>3 DEF WakeFromBreak, SchedulerSteps
  <2>4. CASE StartReset
    BY <1>0, <2>4 DEF StartReset, SchedulerSteps
  <2>5. QED
    BY <2>1, <2>2, <2>3, <2>4
<1>2. PlayInTime'
  BY DEF ArmBreak, CloseForBreak, WakeFromBreak, StartReset, PlayInTime
<1>3. CASE ArmBreak
  BY <1>1, <1>2, <1>3
  DEF ArmBreak, ResetInTime, ResetSteps, BreakInTime, ToPeriodEnd
<1>4. CASE CloseForBreak
  BY <1>1, <1>2, <1>4
  DEF CloseForBreak, ResetInTime, ResetSteps, BreakInTime, ToPeriodEnd
<1>5. CASE WakeFromBreak
  BY <1>1, <1>2, <1>5
  DEF WakeFromBreak, ResetInTime, ResetSteps, BreakInTime, ToPeriodEnd
<1>6. CASE StartReset
  BY <1>1, <1>2, <1>6 DEF StartReset, ResetInTime, ResetSteps, BreakInTime
<1>7. QED
  BY <1>3, <1>4, <1>5, <1>6

LEMMA ResetStepsInTime ==
  ASSUME TimeInv,
         \/ ResetStatementEnds \/ ResetStatementUnavailable \/ Reopen
         \/ ResetLock \/ ResetClear \/ ResetZero \/ Resume
  PROVE  TimeInv'
<1> USE Constants DEF TimeInv, Goto
<1>1. TimeTypes'
  <2>1. on' \in BOOLEAN /\ spc' \in SchedulerSteps
    BY DEF ResetStatementEnds, ResetStatementUnavailable, Reopen, ResetLock,
           ResetClear, ResetZero, Resume, TimeTypes, SchedulerSteps
  <2>2. cursor' \in Zone
    BY SchedulerAssumption
    DEF ResetStatementEnds, ResetStatementUnavailable, Reopen, ResetLock,
        ResetClear, ResetZero, Resume, TimeTypes, Zone
  <2>3. lag' \in Nat /\ UNCHANGED <<second, remaining, left>>
    BY DEF ResetStatementEnds, ResetStatementUnavailable, Reopen, ResetLock,
           ResetClear, ResetZero, Resume, TimeTypes
  <2>4. QED
    BY <2>1, <2>2, <2>3 DEF TimeTypes
<1>2. LagBounded'
  BY DEF ResetStatementEnds, ResetStatementUnavailable, Reopen, ResetLock,
         ResetClear, ResetZero, Resume, LagBounded, TimeTypes
<1>3. ResetInTime'
  BY DEF ResetStatementEnds, ResetStatementUnavailable, Reopen, ResetLock,
         ResetClear, ResetZero, Resume, ResetInTime, ResetSteps, TimeTypes,
         LagBounded
<1>4. PlayInTime' /\ BreakInTime'
  BY DEF ResetStatementEnds, ResetStatementUnavailable, Reopen, ResetLock,
         ResetClear, ResetZero, Resume, PlayInTime, BreakInTime
<1>5. QED
  BY <1>1, <1>2, <1>3, <1>4

LEMMA PlayStepsInTime ==
  ASSUME TimeInv, ReadClockAgain \/ ArmPlay \/ WakeFromPlay
  PROVE  TimeInv'
<1> USE Constants DEF TimeInv, TimeTypes, LagBounded, Goto, RemainingNow
<1>1. CASE ReadClockAgain
  BY <1>1
  DEF ReadClockAgain, ResetInTime, ResetSteps, PlayInTime, BreakInTime,
      SchedulerSteps
<1>2. CASE ArmPlay
  BY <1>2
  DEF ArmPlay, ResetInTime, ResetSteps, PlayInTime, BreakInTime, SchedulerSteps
<1>3. CASE WakeFromPlay
  BY <1>3
  DEF WakeFromPlay, ResetInTime, ResetSteps, PlayInTime, BreakInTime,
      SchedulerSteps
<1>4. QED
  BY <1>1, <1>2, <1>3

(* A second passes: a bound moves with it, through the lag or the timer. *)
LEMMA TickTypes ==
  ASSUME TimeInv, Tick
  PROVE  /\ TimeTypes' /\ LagBounded'
         /\ UNCHANGED <<spc, on, remaining>>
         /\ spc \notin {"break", "play"} => lag' = lag + 1
         /\ spc \in {"break", "play"} =>
              \/ lag' = lag /\ left' = left - 1 /\ left > 0
              \/ lag' = lag + 1 /\ left' = left /\ left <= 0
         /\ spc # "sql" => lag <= MaxLag /\ lag' <= MaxLag
<1> USE Constants DEF TimeInv, TimeTypes
<1>1. SecondPasses
  BY DEF Tick, TickAsleep, TickInStatement, TickRunning
<1>2. \/ Asleep /\ lag' = lag
      \/ ~Asleep /\ lag' = lag + 1
  BY DEF Tick, TickAsleep, TickInStatement, TickRunning, Asleep
<1>3. LagBounded'
  BY DEF Tick, TickAsleep, TickInStatement, TickRunning, SecondPasses,
         LagBounded
<1>4. TimeTypes' /\ UNCHANGED <<spc, on, remaining>>
  BY <1>1, <1>2 DEF SecondPasses
<1>5. spc # "sql" => lag <= MaxLag /\ lag' <= MaxLag
  BY <1>3, <1>4 DEF LagBounded
<1>6. spc \in {"break", "play"} =>
        \/ lag' = lag /\ left' = left - 1 /\ left > 0
        \/ lag' = lag + 1 /\ left' = left /\ left <= 0
  BY <1>1, <1>2 DEF Asleep, SecondPasses
<1>7. QED
  BY <1>2, <1>3, <1>4, <1>5, <1>6 DEF Asleep

(* Only the start and the break see the end of a period. *)
LEMMA PeriodEnds ==
  ASSUME TimeInv, Tick, second = Period - 1
  PROVE  spc \in {"boot", "arm_break", "close", "break"}
<1> USE Constants DEF TimeInv, TimeTypes
<1>1. CASE spc \in {"off", "sql"} \cup ResetSteps
  BY <1>1 DEF ResetInTime, LagBounded, ResetSteps
<1>2. CASE spc \in {"read", "play"}
  <2>1. lag <= MaxLag
    BY <1>2 DEF LagBounded
  <2>2. second <= PlayEnd + MaxLag + lag
    BY <1>2 DEF PlayInTime
  <2>3. CASE lag' = lag + 1 /\ lag' <= MaxLag
    BY <2>1, <2>2, <2>3
  <2>4. CASE spc = "play" /\ left > 0
    BY <2>1, <2>4 DEF PlayInTime
  <2>5. QED
    BY <1>2, <2>3, <2>4, TickTypes
<1>3. QED
  BY <1>1, <1>2 DEF SchedulerSteps, ResetSteps

LEMMA TickInTime ==
  ASSUME TimeInv, Tick
  PROVE  TimeInv'
<1> USE Constants DEF TimeInv, TimeTypes
<1>1. SecondPasses
  BY DEF Tick, TickAsleep, TickInStatement, TickRunning
<1>2. CASE second = Period - 1
  <2>1. second' = 0 /\ spc \in {"boot", "arm_break", "close", "break"}
    BY <1>1, <1>2, PeriodEnds DEF SecondPasses
  <2>2. ResetInTime' /\ PlayInTime'
    BY <2>1, TickTypes DEF ResetInTime, ResetSteps, PlayInTime
  <2>3. BreakInTime'
    <3>1. CASE spc = "boot"
      BY <3>1, TickTypes DEF BreakInTime
    <3>2. CASE spc = "arm_break"
      BY <1>2, <2>1, <3>2, TickTypes DEF BreakInTime, ToPeriodEnd
    <3>3. CASE spc = "close"
      BY <1>1, <1>2, <2>1, <3>3, TickTypes
      DEF BreakInTime, ToPeriodEnd, SecondPasses
    <3>4. CASE spc = "break"
      BY <1>2, <2>1, <3>4, TickTypes DEF BreakInTime, ToPeriodEnd
    <3>5. QED
      BY <2>1, <3>1, <3>2, <3>3, <3>4
  <2>4. QED
    BY <2>2, <2>3, TickTypes
<1>3. CASE second # Period - 1
  <2>1. second' = second + 1
    BY <1>1, <1>3 DEF SecondPasses
  <2>2. ResetInTime'
    BY <2>1, TickTypes DEF ResetInTime, ResetSteps
  <2>3. PlayInTime'
    BY <2>1, TickTypes DEF PlayInTime
  <2>4. BreakInTime'
    <3>1. CASE spc = "arm_break"
      BY <2>1, <3>1, TickTypes DEF BreakInTime, ToPeriodEnd
    <3>2. CASE spc = "close"
      BY <1>1, <2>1, <3>2, TickTypes DEF BreakInTime, ToPeriodEnd, SecondPasses
    <3>3. CASE spc = "break"
      BY <2>1, <3>3, TickTypes DEF BreakInTime, ToPeriodEnd
    <3>4. QED
      BY <3>1, <3>2, <3>3, TickTypes DEF BreakInTime
  <2>5. QED
    BY <2>2, <2>3, <2>4, TickTypes
<1>4. QED
  BY <1>2, <1>3

(* What the time depends on. *)
timeVars == <<second, on, spc, remaining, left, cursor, lag>>

LEMMA RequestsTakeNoTime ==
  ASSUME NEW w \in Workers, NEW u, NEW z, handler(w) \/ arrive(w, u, z)
  PROVE  UNCHANGED timeVars
<1>1. CASE handler(w)
  BY <1>1
  DEF handler, AddBet, LockToSet, SetUserInfo, Query, QueryThrows, QueryNull,
      LockToFind, FindHit, FindMiss, ReadUserInfo, ReadCrashes, RowsDone, Reply,
      Step, Finish, schedVars, timeVars
<1>2. CASE arrive(w, u, z)
  BY <1>2
  DEF arrive, Refuse, UnknownZone, Accept, Step, serverVars, schedVars, timeVars
<1>3. QED
  BY <1>1, <1>2

LEMMA TimeInvNext == TimeInv /\ [Next]_serverVars => TimeInv'
<1> SUFFICES ASSUME TimeInv, [Next]_serverVars PROVE TimeInv'
  OBVIOUS
<1>1. CASE UNCHANGED timeVars
  BY <1>1
  DEF timeVars, TimeInv, TimeTypes, LagBounded, ResetInTime, PlayInTime,
      BreakInTime
<1>2. CASE UNCHANGED serverVars
  BY <1>1, <1>2 DEF serverVars, schedVars, timeVars
<1>3. CASE scheduler
  <2>1. CASE DatabaseReset
    BY <1>1, <2>1 DEF DatabaseReset, schedVars, timeVars
  <2>2. QED
    BY <1>3, <2>1, ReadClockInTime, BreakStepsInTime, ResetStepsInTime,
       PlayStepsInTime
    DEF scheduler, DatabaseResetReturns, DatabaseResetFails, SchedulerTerminates,
        TournamentReset, SchedulerRuns
<1>4. CASE TimePasses
  BY <1>4, TickInTime DEF TimePasses
<1>5. QED
  BY <1>1, <1>2, <1>3, <1>4, RequestsTakeNoTime DEF Next

-----------------------------------------------------------------------------
(* Requests that may count on their tournament are outside its reset. *)

Promised(w) == InFlight(w) /\ ~early[w]

RequestTypes ==
  /\ wpc \in [Workers -> WorkerSteps]
  /\ zone \in [Workers -> Zone]
  /\ early \in [Workers -> BOOLEAN]
  /\ age \in [Workers -> 0..MaxDelay]
  /\ bet_credits \in [Zone -> SUBSET Workers]
  /\ \A w \in Workers, z \in Zone : w \in bet_credits[z] => wpc[w] # "idle"

(* The flag is up until the break, and the break is longer than a request.  *)
OutsideReset ==
  \A w \in Workers : Promised(w) =>
    /\ ~BeforeReset(zone[w])
    /\ spc \in {"arm_break", "close"} => on
    /\ spc = "break" => left + age[w] > MaxDelay

RoundInv == TimeInv /\ RequestTypes /\ OutsideReset /\ OwnBetCounts

LEMMA RoundInvInit == Init => RoundInv
<1> SUFFICES ASSUME Init PROVE RoundInv
  OBVIOUS
<1>1. RequestTypes
  BY Constants DEF Init, TableInit, RequestTypes, WorkerSteps
<1>2. OutsideReset /\ OwnBetCounts
  BY DEF Init, OutsideReset, Promised, InFlight, OwnBetCounts
<1>3. QED
  BY <1>1, <1>2, TimeInvInit DEF RoundInv

(* A request goes on. *)
LEMMA RequestGoesOn ==
  ASSUME RoundInv, NEW w \in Workers, NEW s \in WorkerSteps \ {"idle", "bet"},
         wpc[w] # "idle",
         wpc' = [wpc EXCEPT ![w] = s],
         \/ wpc[w] # "bet" /\ bet_credits' = bet_credits
         \/ bet_credits' = [bet_credits EXCEPT ![zone[w]] = @ \cup {w}],
         UNCHANGED <<timeVars, zone, early, age>>
  PROVE  RequestTypes' /\ OutsideReset' /\ OwnBetCounts'
<1>1. RequestTypes'
  BY DEF RoundInv, RequestTypes
<1>2. OutsideReset'
  BY DEF RoundInv, RequestTypes, OutsideReset, Promised, InFlight, BeforeReset,
         timeVars
<1>3. OwnBetCounts'
  BY DEF RoundInv, RequestTypes, OwnBetCounts, InFlight
<1>4. QED
  BY <1>1, <1>2, <1>3

LEMMA RequestEnds ==
  ASSUME RoundInv, NEW w \in Workers, Finish(w), ForgetBet(w)
  PROVE  RequestTypes' /\ OutsideReset' /\ OwnBetCounts'
<1>1. RequestTypes'
  BY Constants DEF RoundInv, RequestTypes, Finish, ForgetBet, WorkerSteps
<1>2. OutsideReset'
  BY DEF RoundInv, RequestTypes, OutsideReset, Promised, InFlight, BeforeReset,
         Finish, schedVars
<1>3. OwnBetCounts'
  BY DEF RoundInv, RequestTypes, OwnBetCounts, InFlight, Finish, ForgetBet
<1>4. QED
  BY <1>1, <1>2, <1>3

LEMMA RequestArrives ==
  ASSUME RoundInv, NEW w \in Workers, NEW u, NEW z, Accept(w, u, z)
  PROVE  RequestTypes' /\ OutsideReset' /\ OwnBetCounts'
<1> USE DEF Accept, Step
<1>1. RequestTypes'
  BY DEF RoundInv, RequestTypes, tables, WorkerSteps, BeforeReset
<1>2. OutsideReset'
  <2>1. spc # "break"
    BY DEF RoundInv, TimeInv, BreakInTime
  <2>2. ASSUME NEW v \in Workers, Promised(v)'
        PROVE  /\ ~BeforeReset(zone[v])'
               /\ (spc \in {"arm_break", "close"} => on)'
    BY <2>2
    DEF RoundInv, RequestTypes, OutsideReset, Promised, InFlight, BeforeReset,
        schedVars
  <2>3. QED
    BY <2>1, <2>2 DEF OutsideReset, schedVars
<1>3. OwnBetCounts'
  BY DEF RoundInv, RequestTypes, OwnBetCounts, InFlight, tables
<1>4. QED
  BY <1>1, <1>2, <1>3

LEMMA HandlerInRound ==
  ASSUME RoundInv, NEW w \in Workers, handler(w)
  PROVE  RequestTypes' /\ OutsideReset' /\ OwnBetCounts'
<1> USE DEF Step, schedVars, timeVars
<1>1. CASE AddBet(w)
  BY <1>1, RequestGoesOn DEF AddBet, add_bet_credit, WorkerSteps
<1>2. CASE LockToSet(w) \/ LockToFind(w)
  BY <1>2, RequestGoesOn DEF LockToSet, LockToFind, Lock, WorkerSteps
<1>3. CASE SetUserInfo(w) \/ FindHit(w) \/ FindMiss(w) \/ ReadUserInfo(w)
  BY <1>3, RequestGoesOn
  DEF SetUserInfo, FindHit, FindMiss, ReadUserInfo, SetAndUnlock, FindAndUnlock,
      ReadUnlocked, WorkerSteps
<1>4. CASE Query(w) \/ RowsDone(w)
  BY <1>4, RequestGoesOn DEF Query, RowsDone, tables, WorkerSteps
<1>5. CASE QueryThrows(w) \/ Reply(w)
  BY <1>5, RequestEnds DEF QueryThrows, Reply
<1>6. CASE QueryNull(w) \/ ReadCrashes(w)
  BY <1>6
  DEF QueryNull, ReadCrashes, tables, reqVars, RoundInv, RequestTypes,
      OutsideReset, Promised, InFlight, BeforeReset, OwnBetCounts
<1>7. QED
  BY <1>1, <1>2, <1>3, <1>4, <1>5, <1>6 DEF handler

(* A step of the scheduler that begins neither a reset nor the break. *)
LEMMA QuietStep ==
  ASSUME RoundInv,
         UNCHANGED <<wpc, zone, early, age>>,
         \A z \in Zone : BeforeReset(z)' => BeforeReset(z),
         spc' \notin {"arm_break", "close", "break"},
         \/ bet_credits' = bet_credits
         \/ spc = "zero" /\ ZeroBets(cursor)
  PROVE  RequestTypes' /\ OutsideReset' /\ OwnBetCounts'
<1>1. RequestTypes'
  BY DEF RoundInv, RequestTypes, ZeroBets
<1>2. OutsideReset'
  BY DEF RoundInv, RequestTypes, OutsideReset, Promised, InFlight, BeforeReset
<1>3. OwnBetCounts'
  <2>1. CASE bet_credits' = bet_credits
    BY <2>1 DEF RoundInv, OwnBetCounts, InFlight
  <2>2. CASE spc = "zero" /\ ZeroBets(cursor)
    <3>1. BeforeReset(cursor) /\ cursor \in Zone
      BY <2>2 DEF BeforeReset, RoundInv, TimeInv, TimeTypes, Zone
    <3>2. \A w \in Workers : Promised(w) => zone[w] # cursor
      BY <3>1 DEF RoundInv, OutsideReset
    <3>3. QED
      BY <2>2, <3>2
      DEF ZeroBets, RoundInv, RequestTypes, OwnBetCounts, Promised, InFlight
  <2>3. QED
    BY <2>1, <2>2
<1>4. QED
  BY <1>1, <1>2, <1>3

(* Nobody has a promise. *)
LEMMA NobodyPromised ==
  ASSUME RoundInv, \A w \in Workers : ~Promised(w),
         UNCHANGED <<wpc, zone, early, age, bet_credits>>
  PROVE  RequestTypes' /\ OutsideReset' /\ OwnBetCounts'
BY DEF RoundInv, RequestTypes, OutsideReset, OwnBetCounts, Promised, InFlight

(* At the head of the loop it is the break, or the server has just started. *)
LEMMA ReadClockStep ==
  ASSUME RoundInv, ReadClock, UNCHANGED <<wpc, zone, early, age, bet_credits>>
  PROVE  RequestTypes' /\ OutsideReset' /\ OwnBetCounts'
<1> USE DEF ReadClock
<1>1. CASE spc = "boot"
  <2>1. \A w \in Workers : ~Promised(w)
    BY <1>1 DEF RoundInv, RequestTypes, OutsideReset, BeforeReset
  <2>2. QED
    BY <2>1, NobodyPromised
<1>2. CASE spc = "read"
  <2>1. spc' = "arm_break"
    BY <1>2, Constants DEF RoundInv, TimeInv, TimeTypes, PlayInTime, RemainingNow
  <2>2. on
    BY <1>2 DEF RoundInv, TimeInv, PlayInTime
  <2>3. OutsideReset'
    BY <2>1, <2>2
    DEF RoundInv, OutsideReset, Promised, InFlight, BeforeReset
  <2>4. QED
    BY <2>3 DEF RoundInv, RequestTypes, OwnBetCounts, InFlight
<1>3. QED
  BY <1>1, <1>2

(* The flag goes down with the whole break still to come. *)
LEMMA CloseStep ==
  ASSUME RoundInv, CloseForBreak,
         UNCHANGED <<wpc, zone, early, age, bet_credits>>
  PROVE  RequestTypes' /\ OutsideReset' /\ OwnBetCounts'
<1> USE DEF CloseForBreak, Goto
<1>1. on => left > MaxDelay
  <2>1. 0 <= left /\ ToPeriodEnd(second, left, lag) /\ lag <= MaxLag
    BY DEF RoundInv, TimeInv, BreakInTime, LagBounded
  <2>2. on => PlayEnd <= second /\ second <= PlayEnd + MaxLag + lag
    BY DEF RoundInv, TimeInv, BreakInTime
  <2>3. second \in Nat /\ left \in Int /\ lag \in Nat
    BY Constants DEF RoundInv, TimeInv, TimeTypes
  <2>4. QED
    BY <2>1, <2>2, <2>3, Constants DEF ToPeriodEnd
<1>2. ASSUME NEW w \in Workers, Promised(w)
      PROVE  left + age[w] > MaxDelay
  <2>1. on
    BY <1>2 DEF RoundInv, OutsideReset
  <2>2. age[w] \in Nat /\ left \in Int
    BY Constants DEF RoundInv, RequestTypes, TimeInv, TimeTypes
  <2>3. QED
    BY <1>1, <2>1, <2>2, Constants
<1>3. OutsideReset'
  BY <1>2
  DEF RoundInv, OutsideReset, Promised, InFlight, BeforeReset
<1>4. QED
  BY <1>3 DEF RoundInv, RequestTypes, OwnBetCounts, InFlight

(* When the timer of the break expires, the last request has been answered. *)
LEMMA BreakIsOver ==
  ASSUME RoundInv, WakeFromBreak
  PROVE  \A w \in Workers : ~Promised(w)
<1>1. spc = "break" /\ left <= 0 /\ left \in Int
  BY Constants DEF WakeFromBreak, Goto, RoundInv, TimeInv, TimeTypes
<1>2. ASSUME NEW w \in Workers, Promised(w)
      PROVE  FALSE
  <2>1. left + age[w] > MaxDelay
    BY <1>1, <1>2 DEF RoundInv, OutsideReset
  <2>2. age[w] \in 0..MaxDelay
    BY <1>2 DEF RoundInv, RequestTypes
  <2>3. QED
    BY <1>1, <2>1, <2>2, Constants
<1>3. QED
  BY <1>2

LEMMA SchedulerInRound ==
  ASSUME RoundInv, scheduler
  PROVE  RequestTypes' /\ OutsideReset' /\ OwnBetCounts'
<1> USE DEF Goto
<1>1. UNCHANGED <<wpc, zone, early, age>>
  BY DEF scheduler, DatabaseReset, DatabaseResetReturns, DatabaseResetFails, SchedulerTerminates,
         TournamentReset, SchedulerRuns, reqVars
<1>2. CASE TournamentReset
  <2>1. \A z \in Zone : BeforeReset(z)' => BeforeReset(z)
    BY <1>2
    DEF TournamentReset, ResetLock, ResetClear, ResetZero, BeforeReset, Zone,
        RoundInv, TimeInv, TimeTypes
  <2>2. /\ spc' \notin {"arm_break", "close", "break"}
        /\ bet_credits' = bet_credits \/ (spc = "zero" /\ ZeroBets(cursor))
    <3>1. CASE ResetLock /\ Lock(cursor, Sched)
      BY <3>1 DEF ResetLock, Lock
    <3>2. CASE ResetClear /\ ClearAndUnlock(cursor)
      BY <3>2 DEF ResetClear, ClearAndUnlock
    <3>3. CASE ResetZero /\ ZeroBets(cursor)
      BY <3>3 DEF ResetZero
    <3>4. QED
      BY <1>2, <3>1, <3>2, <3>3 DEF TournamentReset
  <2>3. QED
    BY <1>1, <2>1, <2>2, QuietStep
<1>3. CASE \/ DatabaseReset \/ DatabaseResetReturns
           \/ DatabaseResetFails \/ SchedulerTerminates
  BY <1>1, <1>3, QuietStep
  DEF DatabaseReset, DatabaseResetReturns, DatabaseResetFails, SchedulerTerminates,
      ResetStatementEnds, ResetStatementUnavailable, BeforeReset, tables, schedVars
<1>4. CASE SchedulerRuns
  <2>1. bet_credits' = bet_credits
    BY <1>4 DEF SchedulerRuns, tables
  <2>2. CASE ReadClock
    BY <1>1, <2>1, <2>2, ReadClockStep
  <2>3. CASE ArmBreak
    BY <1>1, <2>1, <2>3
    DEF ArmBreak, RoundInv, RequestTypes, OutsideReset, Promised, InFlight,
        BeforeReset, OwnBetCounts
  <2>4. CASE CloseForBreak
    BY <1>1, <2>1, <2>4, CloseStep
  <2>5. CASE WakeFromBreak
    BY <1>1, <2>1, <2>5, BreakIsOver, NobodyPromised
  <2>6. CASE StartReset \/ Reopen \/ Resume \/ ReadClockAgain \/ ArmPlay \/ WakeFromPlay
    BY <1>1, <2>1, <2>6, QuietStep
    DEF StartReset, Reopen, Resume, ReadClockAgain, ArmPlay, WakeFromPlay,
        BeforeReset, Zone
  <2>7. QED
    BY <1>4, <2>2, <2>3, <2>4, <2>5, <2>6 DEF SchedulerRuns
<1>5. QED
  BY <1>2, <1>3, <1>4 DEF scheduler

(* A request grows older as the timer of the break runs. *)
LEMMA TimeStep ==
  ASSUME RoundInv, TimePasses
  PROVE  RequestTypes' /\ OutsideReset' /\ OwnBetCounts'
<1> USE DEF TimePasses
<1>1. SecondPasses
  BY DEF Tick, TickAsleep, TickInStatement, TickRunning
<1>2. RequestTypes'
  BY Constants DEF RoundInv, RequestTypes, tables
<1>3. ASSUME NEW w \in Workers, Promised(w)', spc' = "break"
      PROVE  left' + age'[w] > MaxDelay
  <2>1. InFlight(w) /\ age[w] < MaxDelay /\ age'[w] = age[w] + 1
    BY <1>3 DEF Promised, InFlight
  <2>2. left + age[w] > MaxDelay
    BY <1>1, <1>3 DEF RoundInv, OutsideReset, Promised, InFlight, SecondPasses
  <2>3. age[w] \in Nat /\ left \in Int
    BY Constants DEF RoundInv, RequestTypes, TimeInv, TimeTypes
  <2>4. left' = left - 1
    BY <1>1, <2>1, <2>2, <2>3, Constants DEF SecondPasses
  <2>5. QED
    BY <2>1, <2>2, <2>3, <2>4, Constants
<1>4. OutsideReset'
  BY <1>1, <1>3
  DEF RoundInv, OutsideReset, Promised, InFlight, BeforeReset, SecondPasses
<1>5. OwnBetCounts'
  BY DEF RoundInv, OwnBetCounts, InFlight, tables
<1>6. QED
  BY <1>2, <1>4, <1>5

LEMMA NothingChanges ==
  ASSUME RoundInv, UNCHANGED serverVars
  PROVE  RequestTypes' /\ OutsideReset' /\ OwnBetCounts'
<1> USE DEF serverVars, schedVars, tables, reqVars
<1>1. RequestTypes' /\ OwnBetCounts'
  BY DEF RoundInv, RequestTypes, OwnBetCounts, InFlight
<1>2. OutsideReset'
  BY DEF RoundInv, OutsideReset, Promised, InFlight, BeforeReset
<1>3. QED
  BY <1>1, <1>2

LEMMA RoundInvNext == RoundInv /\ [Next]_serverVars => RoundInv'
<1> SUFFICES ASSUME RoundInv, [Next]_serverVars PROVE RoundInv'
  OBVIOUS
<1>1. TimeInv'
  BY TimeInvNext DEF RoundInv
<1>2. ASSUME NEW w \in Workers, NEW u, NEW z, arrive(w, u, z)
      PROVE  RequestTypes' /\ OutsideReset' /\ OwnBetCounts'
  BY <1>2, RequestArrives, NothingChanges DEF arrive, Refuse, UnknownZone
<1>3. ASSUME UNCHANGED serverVars
      PROVE  RequestTypes' /\ OutsideReset' /\ OwnBetCounts'
  BY <1>3, NothingChanges
<1>4. RequestTypes' /\ OutsideReset' /\ OwnBetCounts'
  BY <1>2, <1>3, HandlerInRound, SchedulerInRound, TimeStep DEF Next
<1>5. QED
  BY <1>1, <1>4 DEF RoundInv

(* A bet stays in the prize pool until its request is answered, for any     *)
(* number of threads, users and tournaments and any timing within           *)
(* TimingAssumption.                                                        *)
THEOREM BetsCount == Spec => []OwnBetCounts
<1>1. RoundInv => OwnBetCounts
  BY DEF RoundInv
<1>2. QED
  BY <1>1, RoundInvInit, RoundInvNext, PTL DEF Spec

-----------------------------------------------------------------------------
(* The refinement: what a step does to the variables of TournamentRound. *)

SamePlaying == \A z \in Zone : Playing(z)' = Playing(z)

SameCounted ==
  \A z \in Zone : bet_credits'[z] \cap Playing(z)' = bet_credits[z] \cap Playing(z)

SameResetting == \A z \in Zone : BeforeReset(z)' <=> BeforeReset(z)

LEMMA Stutters ==
  ASSUME SamePlaying, SameCounted, SameResetting
  PROVE  UNCHANGED Round!roundVars
BY DEF SamePlaying, SameCounted, SameResetting, Round!roundVars

LEMMA MapsToInit == Init => Round!Init
BY Constants
DEF Init, SchedInit, TableInit, Round!Init, Round!Empty, Playing, InFlight,
    BeforeReset

(* Requests do not disturb the resets. *)
LEMMA RequestsResetNothing ==
  ASSUME NEW w \in Workers, NEW u, NEW z, handler(w) \/ arrive(w, u, z)
  PROVE  SameResetting
BY RequestsTakeNoTime DEF SameResetting, BeforeReset, timeVars

LEMMA ArrivalMaps ==
  ASSUME RoundInv, NEW w \in Workers, NEW u, NEW z, Accept(w, u, z)
  PROVE  [Round!Next]_(Round!roundVars)
<1> USE DEF Accept, Step
<1>1. SameResetting
  BY RequestsResetNothing DEF arrive
<1>2. z \in Zone /\ \A y \in Zone : w \notin Playing(y)
  BY DEF Playing, InFlight
<1>3. bet_credits' = bet_credits
  BY DEF tables
<1>4. CASE BeforeReset(z)
  <2>1. SamePlaying
    BY <1>4 DEF RoundInv, RequestTypes, SamePlaying, Playing, InFlight, WorkerSteps
  <2>2. SameCounted
    BY <1>3, <2>1 DEF SamePlaying, SameCounted
  <2>3. QED
    BY <1>1, <2>1, <2>2, Stutters
<1>5. CASE ~BeforeReset(z)
  <2>1. \A y \in Zone :
          Playing(y)' = IF y = z THEN Playing(y) \cup {w} ELSE Playing(y)
    BY <1>5 DEF RoundInv, RequestTypes, Playing, InFlight, WorkerSteps
  <2>2. w \notin bet_credits[z]
    BY <1>2 DEF RoundInv, RequestTypes
  <2>3. QED
    BY <1>1, <1>2, <1>3, <1>5, <2>1, <2>2
    DEF Round!Next, Round!Enter, SameResetting
<1>6. QED
  BY <1>4, <1>5

(* A request that goes on plays in the same tournament as before. *)
LEMMA GoesOnMaps ==
  ASSUME RoundInv, NEW w \in Workers, NEW s \in WorkerSteps \ {"idle"},
         wpc[w] # "idle", wpc' = [wpc EXCEPT ![w] = s],
         UNCHANGED <<zone, early, bet_credits>>, SameResetting
  PROVE  [Round!Next]_(Round!roundVars)
<1>1. SamePlaying
  BY DEF RoundInv, RequestTypes, SamePlaying, Playing, InFlight
<1>2. SameCounted
  BY <1>1 DEF SamePlaying, SameCounted
<1>3. QED
  BY <1>1, <1>2, Stutters

LEMMA BetMaps ==
  ASSUME RoundInv, NEW w \in Workers, AddBet(w), SameResetting
  PROVE  [Round!Next]_(Round!roundVars)
<1> USE DEF AddBet, Step, add_bet_credit
<1>1. SamePlaying
  BY DEF RoundInv, RequestTypes, SamePlaying, Playing, InFlight
<1>2. CASE early[w]
  <2>1. SameCounted
    BY <1>1, <1>2 DEF RoundInv, RequestTypes, SamePlaying, SameCounted, Playing
  <2>2. QED
    BY <1>1, <2>1, Stutters
<1>3. CASE ~early[w]
  <2>1. zone[w] \in Zone /\ w \in Playing(zone[w])
    BY <1>3 DEF RoundInv, RequestTypes, Playing, InFlight
  <2>2. \A z \in Zone :
          bet_credits'[z] \cap Playing(z)' =
            IF z = zone[w] THEN (bet_credits[z] \cap Playing(z)) \cup {w}
            ELSE bet_credits[z] \cap Playing(z)
    BY <1>1, <2>1 DEF RoundInv, RequestTypes, SamePlaying
  <2>3. QED
    BY <1>1, <2>1, <2>2
    DEF Round!Next, Round!Bet, SamePlaying, SameResetting
<1>4. QED
  BY <1>2, <1>3

LEMMA RemoveAbsent == \A S, x : x \notin S => S \ {x} = S
OBVIOUS

LEMMA EndMaps ==
  ASSUME RoundInv, NEW w \in Workers, wpc[w] # "idle", Finish(w), ForgetBet(w),
         SameResetting
  PROVE  [Round!Next]_(Round!roundVars)
<1> USE DEF Finish, ForgetBet
<1>1. \A z \in Zone :
        /\ Playing(z)' = Playing(z) \ {w}
        /\ bet_credits'[z] \cap Playing(z)' = (bet_credits[z] \cap Playing(z)) \ {w}
  BY DEF RoundInv, RequestTypes, Playing, InFlight, WorkerSteps
<1>2. CASE early[w]
  <2>1. \A z \in Zone : w \notin Playing(z)
    BY <1>2 DEF Playing
  <2>2. SamePlaying
    BY <1>1, <2>1, RemoveAbsent DEF SamePlaying
  <2>3. SameCounted
    <3>1. \A z \in Zone : w \notin bet_credits[z] \cap Playing(z)
      BY <2>1
    <3>2. QED
      BY <1>1, <3>1, RemoveAbsent DEF SameCounted
  <2>4. QED
    BY <2>2, <2>3, Stutters
<1>3. CASE ~early[w]
  <2>1. PICK y \in Zone : y = zone[w]
    BY DEF RoundInv, RequestTypes
  <2>2. w \in Playing(y)
    BY <1>3, <2>1 DEF Playing, InFlight
  <2>3. ASSUME NEW z \in Zone, z # y
        PROVE  /\ Playing(z)' = Playing(z)
               /\ bet_credits'[z] \cap Playing(z)' = bet_credits[z] \cap Playing(z)
    <3>1. w \notin Playing(z) /\ w \notin bet_credits[z] \cap Playing(z)
      BY <2>1, <2>3 DEF Playing
    <3>2. QED
      BY <1>1, <3>1, RemoveAbsent
  <2>4. [z \in Zone |-> Playing(z)]' =
          [[z \in Zone |-> Playing(z)] EXCEPT ![y] = @ \ {w}]
    BY <1>1, <2>3
  <2>5. [z \in Zone |-> bet_credits[z] \cap Playing(z)]' =
          [[z \in Zone |-> bet_credits[z] \cap Playing(z)] EXCEPT ![y] = @ \ {w}]
    BY <1>1, <2>3
  <2>6. UNCHANGED {z \in Zone : BeforeReset(z)}
    BY DEF SameResetting
  <2>7. Round!Leave(w, y)
    BY <2>2, <2>4, <2>5, <2>6 DEF Round!Leave
  <2>8. QED
    BY <2>7 DEF Round!Next
<1>4. QED
  BY <1>2, <1>3

LEMMA HandlerMaps ==
  ASSUME RoundInv, NEW w \in Workers, handler(w)
  PROVE  [Round!Next]_(Round!roundVars)
<1> USE DEF Step
<1>0. SameResetting
  BY RequestsResetNothing
<1>1. CASE AddBet(w)
  BY <1>0, <1>1, BetMaps
<1>2. CASE \/ LockToSet(w) \/ SetUserInfo(w) \/ LockToFind(w)
           \/ FindHit(w) \/ FindMiss(w) \/ ReadUserInfo(w)
  BY <1>0, <1>2, GoesOnMaps
  DEF LockToSet, SetUserInfo, LockToFind, FindHit, FindMiss, ReadUserInfo, Lock,
      SetAndUnlock, FindAndUnlock, ReadUnlocked, WorkerSteps
<1>3. CASE Query(w) \/ RowsDone(w)
  BY <1>0, <1>3, GoesOnMaps DEF Query, RowsDone, tables, WorkerSteps
<1>4. CASE QueryThrows(w) \/ Reply(w)
  BY <1>0, <1>4, EndMaps DEF QueryThrows, Reply
<1>5. CASE QueryNull(w) \/ ReadCrashes(w)
  <2>1. SamePlaying /\ SameCounted
    BY <1>5
    DEF QueryNull, ReadCrashes, tables, reqVars, SamePlaying, SameCounted,
        Playing, InFlight
  <2>2. QED
    BY <1>0, <2>1, Stutters
<1>6. QED
  BY <1>1, <1>2, <1>3, <1>4, <1>5 DEF handler

(* Steps that change neither requests nor bets. *)
LEMMA RequestsStay ==
  ASSUME UNCHANGED <<wpc, zone, early, bet_credits>>
  PROVE  SamePlaying /\ SameCounted
BY DEF SamePlaying, SameCounted, Playing, InFlight

(* The reset of a tournament in which nobody plays. *)
LEMMA ResetMaps ==
  ASSUME RoundInv, TournamentReset
  PROVE  [Round!Next]_(Round!roundVars)
<1> USE DEF Goto
<1>1. UNCHANGED <<wpc, zone, early>> /\ cursor \in Zone
  BY DEF TournamentReset, reqVars, RoundInv, TimeInv, TimeTypes
<1>2. CASE (ResetLock /\ Lock(cursor, Sched)) \/ (ResetClear /\ ClearAndUnlock(cursor))
  <2>1. SameResetting
    BY <1>2 DEF ResetLock, ResetClear, SameResetting, BeforeReset
  <2>2. bet_credits' = bet_credits
    BY <1>2 DEF Lock, ClearAndUnlock
  <2>3. QED
    BY <1>1, <2>1, <2>2, RequestsStay, Stutters
<1>3. CASE ResetZero /\ ZeroBets(cursor)
  <2>1. SamePlaying
    BY <1>1 DEF SamePlaying, Playing, InFlight
  <2>2. Playing(cursor) = {}
    BY <1>1, <1>3
    DEF ResetZero, RoundInv, RequestTypes, OutsideReset, Promised, Playing,
        BeforeReset, Zone
  <2>3. SameCounted
    BY <1>1, <1>3, <2>1, <2>2
    DEF ZeroBets, RoundInv, RequestTypes, SamePlaying, SameCounted
  <2>4. \A z \in Zone : BeforeReset(z)' => BeforeReset(z)
    BY <1>1, <1>3 DEF ResetZero, BeforeReset, Zone
  <2>5. QED
    BY <2>1, <2>3, <2>4
    DEF Round!Next, Round!EndReset, SamePlaying, SameCounted
<1>4. QED
  BY <1>2, <1>3 DEF TournamentReset

LEMMA SchedulerMaps ==
  ASSUME RoundInv, scheduler
  PROVE  [Round!Next]_(Round!roundVars)
<1> USE DEF Goto
<1>1. CASE \/ DatabaseReset \/ DatabaseResetReturns
           \/ DatabaseResetFails \/ SchedulerTerminates
  <2>1. SamePlaying /\ SameCounted
    BY <1>1, RequestsStay
    DEF DatabaseReset, DatabaseResetReturns, DatabaseResetFails, SchedulerTerminates,
        tables, reqVars
  <2>2. SameResetting
    BY <1>1
    DEF DatabaseReset, DatabaseResetReturns, DatabaseResetFails, SchedulerTerminates,
        ResetStatementEnds, ResetStatementUnavailable, SameResetting, BeforeReset,
        schedVars
  <2>3. QED
    BY <2>1, <2>2, Stutters
<1>2. CASE TournamentReset
  BY <1>2, ResetMaps
<1>3. CASE SchedulerRuns
  <2>1. SamePlaying /\ SameCounted
    BY <1>3, RequestsStay DEF SchedulerRuns, tables, reqVars
  <2>2. CASE WakeFromBreak
    <3>1. \A z \in Zone : Playing(z) = {}
      BY <2>2, BreakIsOver DEF Playing, Promised
    <3>2. \A z \in Zone : BeforeReset(z)'
      BY <2>2 DEF WakeFromBreak, BeforeReset
    <3>3. QED
      BY <2>1, <3>1, <3>2
      DEF Round!Next, Round!BeginReset, Round!Empty, SamePlaying, SameCounted
  <2>3. CASE ~WakeFromBreak
    <3>1. \A z \in Zone : BeforeReset(z)' => BeforeReset(z)
      <4>1. CASE ReadClock /\ spc = "read"
        BY <4>1, Constants
        DEF ReadClock, RoundInv, TimeInv, TimeTypes, PlayInTime, RemainingNow,
            BeforeReset
      <4>2. CASE ReadClock /\ spc = "boot"
        BY <4>2 DEF BeforeReset
      <4>3. QED
        BY <1>3, <2>3, <4>1, <4>2
        DEF SchedulerRuns, ReadClock, ArmBreak, CloseForBreak, StartReset,
            Reopen, Resume, ReadClockAgain, ArmPlay, WakeFromPlay, BeforeReset
    <3>2. QED
      BY <2>1, <3>1 DEF Round!Next, Round!EndReset, SamePlaying, SameCounted
  <2>4. QED
    BY <2>2, <2>3
<1>4. QED
  BY <1>1, <1>2, <1>3 DEF scheduler

(* Every step of the program is one of TournamentRound or a stutter. *)
LEMMA StepMaps ==
  RoundInv /\ [Next]_serverVars => [Round!Next]_(Round!roundVars)
<1> SUFFICES ASSUME RoundInv, [Next]_serverVars
             PROVE  [Round!Next]_(Round!roundVars)
  OBVIOUS
<1>1. CASE TimePasses \/ UNCHANGED serverVars
  <2>1. UNCHANGED <<wpc, zone, early, bet_credits, spc, cursor>>
    BY <1>1
    DEF TimePasses, Tick, TickAsleep, TickInStatement, TickRunning, SecondPasses,
        tables, serverVars, schedVars, reqVars
  <2>2. QED
    BY <2>1, RequestsStay, Stutters DEF SameResetting, BeforeReset
<1>2. ASSUME NEW w \in Workers, NEW u, NEW z, arrive(w, u, z)
      PROVE  Accept(w, u, z) \/ UNCHANGED serverVars
  BY <1>2 DEF arrive, Refuse, UnknownZone
<1>3. QED
  BY <1>1, <1>2, HandlerMaps, ArrivalMaps, SchedulerMaps DEF Next

(* Requests and resets exclude each other, as if a lock were held: the      *)
(* server implements TournamentRound.                                       *)
THEOREM ServerImplementsRound == Spec => RoundSpec
<1>1. Init => Round!Init
  BY MapsToInit
<1>2. QED
  BY <1>1, RoundInvInit, RoundInvNext, StepMaps, PTL
  DEF Spec, RoundSpec, Round!Spec

=============================================================================
