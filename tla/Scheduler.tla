------------------------------ MODULE Scheduler ------------------------------
(***************************************************************************)
(* The scheduler thread, scheduler_md::init and scheduler_md::run of       *)
(* scheduler_md.cpp.  It divides time into periods of Period seconds: a    *)
(* tournament is open for all but the last Break seconds of a period, and  *)
(* is reset at the start of each.  The thread derives everything from      *)
(* time(0) % Period and sleeps on timers in between.                       *)
(*                                                                         *)
(* Only the remainder of the clock is kept, so the state space is finite   *)
(* while time goes on for ever.  Whatever the thread does between two      *)
(* statements takes time: the clock may tick at any of its steps, at most  *)
(* MaxLag times from one blocking call to the next, and at most MaxSql     *)
(* times while the reset statement runs.  The timers are taken to agree    *)
(* with time(0): the thread may wake up late, but not early.               *)
(*                                                                         *)
(* What the reset does to the tournament objects is in TournamentTable;    *)
(* the module TournamentServer joins the two.                              *)
(***************************************************************************)
EXTENDS Integers

CONSTANTS
  Period,  \* 330 in the code
  Break,   \* 30 in the code
  Zones,   \* the number of tournaments (3 in scheduler_md::init)
  MaxLag,  \* bound: ticks from one blocking call of the thread to the next
  MaxSql   \* bound: ticks during `call reset_tournaments()`

ASSUME SchedulerAssumption ==
  /\ Break \in Nat \ {0}
  /\ Period \in Nat
  /\ Break < Period
  /\ Zones \in Nat \ {0}
  /\ MaxLag \in Nat
  /\ MaxSql \in Nat

VARIABLES
  second,     \* time(0) % Period
  on,         \* is_tournament_on_
  spc,        \* where the scheduler thread is in run()
  remaining,  \* its local variable remaining_time
  left,       \* seconds until the timer it has armed expires; a timer
              \* armed for a negative duration expires at once
  cursor,     \* the tournament the reset loop is at
  lag,        \* ticks since the thread last blocked, or in the statement
  resets,     \* history: calls of reset_tournament() in this period
  up          \* the process has not terminated

clockVars == <<second, lag, resets>>
schedVars == <<second, on, spc, remaining, left, cursor, lag, resets, up>>

(* boot and read are the same statement, the head of the loop, boot being   *)
(* its first execution.                                                     *)
SchedulerSteps ==
  {"boot", "read", "arm_break", "close", "break", "off", "sql", "reopen",
   "lock", "clear", "zero", "resume", "reread", "arm_play", "play"}

SchedTypeOK ==
  /\ second \in 0..(Period - 1)
  /\ on \in BOOLEAN
  /\ spc \in SchedulerSteps
  /\ remaining \in 0..Period
  /\ left \in (-Break)..Period
  /\ cursor \in 0..(Zones - 1)
  /\ lag \in Nat
  /\ resets \in Nat
  /\ up \in BOOLEAN

-----------------------------------------------------------------------------
(* scheduler_md::init, at whatever second the server is started.            *)
SchedInit ==
  /\ second \in 0..(Period - 1)
  /\ on = (Period - second > Break)
  /\ spc = "boot"
  /\ remaining = 0
  /\ left = 0
  /\ cursor = 0
  /\ lag = 0
  /\ resets = 0
  /\ up = TRUE

(* The thread goes from one statement to another. *)
Goto(from, to) == up /\ spc = from /\ spc' = to

(* remaining_time = 330 - get_timestamp() % 330 *)
RemainingNow == Period - second

(* Wrong on purpose: the first second of the break counts as play. *)
ReadClockLate ==
  /\ up
  /\ spc \in {"boot", "read"}
  /\ remaining' = RemainingNow
  /\ spc' = IF RemainingNow < Break THEN "arm_break" ELSE "off"
  /\ UNCHANGED <<on, left, cursor, lag, second, resets, up>>

(* The head of the loop: is this the break? *)
ReadClock ==
  /\ up
  /\ spc \in {"boot", "read"}
  /\ remaining' = RemainingNow
  /\ spc' = IF RemainingNow <= Break THEN "arm_break" ELSE "off"
  /\ UNCHANGED <<on, left, cursor, lag, second, resets, up>>

(* The timer of the break starts to run when it is constructed. *)
ArmBreak ==
  /\ Goto("arm_break", "close")
  /\ left' = remaining
  /\ UNCHANGED <<second, on, remaining, cursor, lag, resets, up>>

(* Wrong on purpose: the flag stays up in the break. *)
WaitWithoutClosing ==
  /\ Goto("close", "break")
  /\ UNCHANGED <<second, on, remaining, left, cursor, lag, resets, up>>

(* is_tournament_on_ = false, and wait for the timer. *)
CloseForBreak ==
  /\ Goto("close", "break")
  /\ on' = FALSE
  /\ UNCHANGED <<second, remaining, left, cursor, lag, resets, up>>

WakeFromBreak ==
  /\ Goto("break", "off")
  /\ left <= 0
  /\ lag' = 0
  /\ UNCHANGED <<second, on, remaining, left, cursor, resets, up>>

(* is_tournament_on_ = false, in run() and again in reset_tournament(),     *)
(* which then starts the reset statement.                                   *)
StartReset ==
  /\ Goto("off", "sql")
  /\ on' = FALSE
  /\ lag' = 0
  /\ resets' = resets + 1
  /\ UNCHANGED <<second, remaining, left, cursor, up>>

(* The statement ended, well or not: its result is only logged. *)
ResetStatementEnds ==
  /\ Goto("sql", "reopen")
  /\ lag' = 0
  /\ UNCHANGED <<second, on, remaining, left, cursor, resets, up>>

(* borrow() found no connection: nothing catches ConnectionUnavailable in   *)
(* this thread, and the process terminates.                                 *)
ResetStatementUnavailable ==
  /\ up
  /\ spc = "sql"
  /\ up' = FALSE
  /\ UNCHANGED <<second, on, spc, remaining, left, cursor, lag, resets>>

(* The last line of reset_tournament(): is_tournament_on_ = true. *)
Reopen ==
  /\ Goto("reopen", "lock")
  /\ on' = TRUE
  /\ cursor' = 0
  /\ UNCHANGED <<second, remaining, left, lag, resets, up>>

(* tournament::reset() of each tournament: m.lock(), user_infos_.clear()    *)
(* and m.unlock(), bet_credits_ = 0.                                        *)
ResetLock ==
  /\ Goto("lock", "clear")
  /\ UNCHANGED <<second, on, remaining, left, cursor, lag, resets, up>>

ResetClear ==
  /\ Goto("clear", "zero")
  /\ UNCHANGED <<second, on, remaining, left, cursor, lag, resets, up>>

(* Wrong on purpose: the loop over the tournaments does not advance. *)
ResetZeroAgain ==
  /\ Goto("zero", "lock")
  /\ UNCHANGED <<second, on, remaining, left, cursor, lag, resets, up>>

(* Wrong on purpose: the loop goes one past the last tournament. *)
ResetZeroPastEnd ==
  /\ Goto("zero", IF cursor < Zones THEN "lock" ELSE "resume")
  /\ cursor' = IF cursor < Zones THEN cursor + 1 ELSE 0
  /\ UNCHANGED <<second, on, remaining, left, lag, resets, up>>

ResetZero ==
  /\ Goto("zero", IF cursor + 1 < Zones THEN "lock" ELSE "resume")
  /\ cursor' = IF cursor + 1 < Zones THEN cursor + 1 ELSE 0
  /\ UNCHANGED <<second, on, remaining, left, lag, resets, up>>

(* Wrong on purpose: the flag is cleared once too often. *)
ResumeClosed ==
  /\ Goto("resume", "reread")
  /\ on' = FALSE
  /\ UNCHANGED <<second, remaining, left, cursor, lag, resets, up>>

Resume ==
  /\ Goto("resume", "reread")
  /\ on' = TRUE
  /\ UNCHANGED <<second, remaining, left, cursor, lag, resets, up>>

(* How long until the next break; 0 when it has begun already. *)
ReadClockAgain ==
  /\ Goto("reread", "arm_play")
  /\ remaining' = IF RemainingNow - Break <= 0 THEN 0 ELSE RemainingNow
  /\ UNCHANGED <<second, on, left, cursor, lag, resets, up>>

(* Wrong on purpose: no break is left free. *)
ArmWholePeriod ==
  /\ Goto("arm_play", "play")
  /\ left' = remaining
  /\ UNCHANGED <<second, on, remaining, cursor, lag, resets, up>>

(* The timer of the play.  When remaining is 0 it is armed for minus the    *)
(* break.                                                                   *)
ArmPlay ==
  /\ Goto("arm_play", "play")
  /\ left' = remaining - Break
  /\ UNCHANGED <<second, on, remaining, cursor, lag, resets, up>>

WakeFromPlay ==
  /\ Goto("play", "read")
  /\ left <= 0
  /\ lag' = 0
  /\ UNCHANGED <<second, on, remaining, left, cursor, resets, up>>

-----------------------------------------------------------------------------
Asleep == spc \in {"break", "play"} /\ left > 0

(* A second passes. *)
SecondPasses ==
  /\ second' = IF second = Period - 1 THEN 0 ELSE second + 1
  /\ resets' = IF second = Period - 1 THEN 0 ELSE resets
  /\ left' = IF left > 0 THEN left - 1 ELSE left
  /\ UNCHANGED <<on, spc, remaining, cursor, up>>

TickAsleep ==
  /\ up /\ Asleep
  /\ SecondPasses
  /\ UNCHANGED lag

TickInStatement ==
  /\ up /\ spc = "sql" /\ lag < MaxSql
  /\ SecondPasses
  /\ lag' = lag + 1

TickRunning ==
  /\ up /\ spc # "sql" /\ ~Asleep /\ lag < MaxLag
  /\ SecondPasses
  /\ lag' = lag + 1

Tick == TickAsleep \/ TickInStatement \/ TickRunning

run ==
  \/ ReadClock
  \/ ArmBreak \/ CloseForBreak \/ WakeFromBreak
  \/ StartReset \/ ResetStatementEnds \/ ResetStatementUnavailable \/ Reopen
  \/ ResetLock \/ ResetClear \/ ResetZero
  \/ Resume \/ ReadClockAgain \/ ArmPlay \/ WakeFromPlay

(* Nothing more happens in a process that has terminated. *)
Terminated == ~up /\ UNCHANGED schedVars

SchedNext == run \/ Tick \/ Terminated

SchedSpec == SchedInit /\ [][SchedNext]_schedVars

(* Time goes on and the thread is scheduled. *)
FairSchedSpec == SchedSpec /\ WF_schedVars(run) /\ WF_schedVars(Tick)

-----------------------------------------------------------------------------
(* The tournaments are wiped at most once in a period, however late the     *)
(* thread runs and however long the reset statement takes: waking up on the *)
(* last second of the play, or on the first of the next period, never leads *)
(* to a second reset of standings already being played for.                 *)
OneResetPerPeriod == resets <= 1

(* The comment at the head of the loop: break or play is told by the        *)
(* timestamp.  While the thread sleeps the flag the players see agrees with *)
(* the clock, to within the lag with which the timer was armed: lateness in *)
(* one period never adds up to the next.                                    *)
FlagFollowsClock ==
  Asleep /\ left > MaxLag => (on <=> second < Period - Break)

(* Why there is no second reset: once the tournaments are wiped, the thread *)
(* cannot be back at StartReset before the period is over.  Wherever it is, *)
(* the seconds it still has to sleep reach to the break, and from the break *)
(* to the end of the period.                                                *)
NextResetIsLater ==
  resets = 1 =>
    /\ spc \notin {"boot", "off"}
    /\ spc = "read" => second >= Period - Break
    /\ spc = "arm_break" => second + remaining >= Period
    /\ spc \in {"close", "break"} => second + left >= Period
    /\ spc = "arm_play" =>
         \/ second >= Period - Break
         \/ remaining > Break /\ second + remaining >= Period
    /\ spc = "play" =>
         second >= Period - Break \/ second + left >= Period - Break

(* A closed tournament is played again: the thread sleeps through a play    *)
(* with the flag on, unless the process is gone.                            *)
ComesBack == up /\ ~on ~> (spc = "play" /\ on) \/ ~up

(* Every period is reset in the end, unless the process is gone. *)
KeepsResetting == []<>(spc = "sql" \/ ~up)

=============================================================================
