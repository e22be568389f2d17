# A model of the tournament server

The repository is the server of an online slot game: HTTP threads answer JSON
requests of the players, a scheduler thread opens, closes and resets the
tournaments, and a pool of MySQL connections serves both.  This directory holds
TLA+ modules for the parts that keep state, TLC configurations that check them
on small instances, and TLAPS proofs, for every size, of all the safety
properties those runs check.

Everything is translated from the C++ code.  What is not in the repository (the
MySQL server, its stored procedures, the clients) is modelled as far as the code
relies on it, and marked *external* in the modules.

## The system

| Component | State | Operations | Talks to |
|---|---|---|---|
| connection pool (`db/ConnectionPool.hpp`, `db/MySQLConnection.hpp`, `db_md.cpp`) | `pool` (a deque), `borrowed` (a set), a mutex | `borrow`, `unborrow`, `get_stats`; `execute_query`, `execute` around them | MySQL; called by HTTP threads and the scheduler |
| tournament scheduler (`scheduler_md.cpp`) | `is_tournament_on_`, the timer, the locals of `run()` | `init`, `run`, `reset_tournament`, `get_timestamp` | the pool, the tournament objects |
| tournament objects (`class tournament`, `lib/ddlock.hpp`) | `user_infos_` (a map), `bet_credits_` (an atomic int), a spin lock | `add_bet_credit`, `set_user_info`, `get_user_info`, `get_prize_pool`, `reset` | HTTP threads and scheduler share them |
| tournament requests (`handler/tournament_info.cpp`) | none of their own | `tournament_refresh_req`, `tournament_update_req`, `get_tournament_infos` | flag, tournament objects, pool |
| slot seats (`slot_md.cpp`, `handler/slot_info.cpp`) | `slots_` (a map), a mutex; per slot a timestamp and the map of its paytable | `get_slot`, `get_slot_id`, `seat_req`, `spin_req` | the slots |
| classic slot (`slot.cpp`) | two free-spin counters, reels | `spin`, `check_payline`, `get_credit` | random generator |
| start-up (`main.cpp`) | which parts exist yet | `main` | everything |
| HTTP server (`server_http.hpp`) | per connection: the pending operation, the request and its buffer, the running timer | `accept`, `read_request_and_content`, `find_resource`, `write_response`, `set_timeout_on_socket` | the client; calls the handlers |
| worker pool (`worker_md.cpp`), JSON (`json11`), user requests, random generator | see *What is not modelled* | | |

HTTP runs on four threads, the scheduler on one, and the pool has eight
connections.  There is one global lock in the pool and one spin lock in each
tournament; the slots have a mutex that only `get_slot_id` takes.

### What is hard about it

* **Only time separates requests from resets.**  A request reads the flag once
  and then works for a while on objects and tables that the scheduler wipes.
  Nothing but the thirty seconds of break keeps the two apart.
* **The scheduler reads the clock twice a period** and derives everything from a
  remainder.  It can be late, and its reset statement can take any time.
* **The name table and the database are two stores**, updated and reset by
  separate calls in different orders, and joined again in every reply.
* **The pool recovers abandoned connections** by looking at reference counts.
  An exception on one path skips `unborrow()`; closed connections are put back.
* **Unlocked accesses**: `get_user_info` reads the map after `unlock()`,
  `get_slot` uses the map without the mutex, `spin` counts, stores its time and
  inserts into the paytable without any lock, and `tournaments_` grows while
  requests may index it.
* **Requests are answered before the database is connected to.**
* **A connection lives by its callbacks.**  They own the socket and the timers
  together, leave early in many places, and a timer that is cancelled may already
  have its handler in the queue.
* **Integer boundaries**: `size() - 1` of an empty ranking, `id > size()`, a sum
  of bets that wraps around, a timer armed for a negative duration, an unsigned
  difference of two times read one after the other.

`PROJECT.json` lists each of these hazards at its line, with the properties
aimed at it.

### The slots are dormant

`slot_md::init()` is commented out (`main.cpp:103`), so in the program as it is
built `slots_` is empty: `seat_req` answers -1, and `spin_req` with id 0 gets an
empty reply and leaves a null slot behind.  `SlotSeats`, `FreeSpins` and
`SlotSpin` model the code as it works once that line is in; `SlotSeats` takes the
number of slots as a constant which may be 0.

## The modules

| Module | Models | Checked by | Proofs |
|---|---|---|---|
| `LeasePool` | abstract specification: an exclusive, bounded lease | `Pool` | |
| `ConnectionPool`, `MCConnectionPool` | the pool and the calls around it | `Pool` | `ConnectionPoolProofs` |
| `Scheduler` | the scheduler thread and its clock | `Scheduler` | `TournamentRoundProofs` (first part) |
| `TournamentTable` | the tournament objects and their lock, as operators | (in `TournamentServer`) | |
| `TournamentRound` | abstract specification: requests play, tournaments are reset, and the two exclude each other | `TournamentLive` | |
| `TournamentServer`, `MCTournamentServer` | requests, scheduler, tournament objects and database together | `TournamentSafe`, `TournamentLive`, `TournamentReset` | `TournamentRoundProofs`, `TournamentServerProofs` |
| `Standings` | which rows of the ranking a reply shows | `Reply` | `ReplyProofs` |
| `PrizePool` | the prize, its overflow, and its readers | `Reply` | `ReplyProofs` |
| `MCReply` | `Standings` and `PrizePool`, side by side | `Reply` | |
| `Payline`, `SlotSpin` | what a payline pays, in normal and free spins; the reels, the 25 paylines and what a spin pays and shows | `SlotSpin` | `ClassicSlotProofs` |
| `FreeSpins`, `FreeSpinAccount` | the free-spin counters, and a history of what is owed | `FreeSpins` | `ClassicSlotProofs` |
| `SlotSeats`, `MCSlotSeats` | slots, seats and spins | `SlotSeats`, `SeatUnderflow` | `SlotSeatsProofs` |
| `Startup` | `main()` and `start()` against early requests | `Startup` | `StartupProofs` |
| `HttpConnection` | one connection of the HTTP server | `HttpConnection` | `HttpConnectionProofs` |

`TournamentServer` EXTENDS `Scheduler` and takes in `TournamentTable`; the
scheduler steps that touch a tournament are joined there with what they do to
it, and it instantiates `TournamentRound` to state what it implements.
`ConnectionPool` instantiates `LeasePool` with `lease <- held`.  `SlotSpin` EXTENDS
`Payline`, which holds operators only.

Several modules contain operators whose comment begins with *Wrong on purpose*.
They are plausible slips (a dropped guard, an off-by-one, an order swapped) that
no specification uses.  Putting one in the place of the definition below it must
make TLC report the property that `PROJECT.json` names for it: this is how each
property is known to be able to fail.

### ConnectionPool

`borrow()` and `unborrow()` hold `io_mutex` throughout, so each is one step; the
statement between them is another.  `held[t]` is the local variable `conn`: a
borrowed connection no `held` refers to is `unique()`, hence *abandoned*.

| Action | Code |
|---|---|
| `BorrowPooled`, `BorrowReplacement`, `ReplacementFails`, `BorrowUnavailable` | the branches of `borrow()` |
| `StatementSucceeds`, `StatementFails`, `StatementThrows` | the `try` of `execute_query` and `execute`: rows, `sql::SQLException`, anything else |
| `unborrow` | `unborrow()` and the end of the local variable |
| `ConnectionLost` (external) | the database closes a connection; nothing notices |

`Circulating` (deque plus borrowed set) is all the connection objects there are:
`Fresh` is the rest, one of which `create()` may return.

### Scheduler

One action per statement of `run()` that reads the clock, writes the flag, arms
or waits for a timer, or touches a tournament.  Only `time(0) % Period` is kept,
so time runs for ever in a finite state space.  A tick may fall between any two
statements: at most `MaxLag` from one blocking call to the next, at most `MaxSql`
during the reset statement.  `resets` counts the resets of the current period.
`left` is what a timer still has to run.  `run()` sets `remaining_time` to 0 when
the reset has ended in the break and then arms the timer of the play for
`remaining_time - 30` seconds, so `ArmPlay` stores a negative number, and a timer
whose time is past wakes the thread at once.  Timers are taken to agree with
`time(0)`: the thread may wake late, but not early.

### TournamentTable and TournamentServer

A request goes through `bet` (`add_bet_credit`), `set_lock`/`set`
(`set_user_info`), `query` (the stored procedure), then `row`/`find`/`read` for
every result row (`get_user_info`, whose read comes *after* the unlock), and
`reply`.  `tournament_refresh_req` and `tournament_update_req` differ only in the
procedure they call, and are one handler here.

* A name is abstracted to *named*, *blank* (the empty strings `operator[]`
  inserts) or *absent*; the sum of bets to the set of requests in progress whose
  bet it still includes.
* The result rows are any sequence of users who have a row in the database.
* The database is wiped at some moment while the reset statement runs
  (`DatabaseReset`), and the statement returns later (`DatabaseResetReturns`).
* `ReadCrashes` is the undefined outcome of the unlocked read: where another
  thread changes the map at that moment, the process may crash instead of
  reading.  Not all races are told apart further than that.
* `UnknownZone`: `get_tournament` returns null, and the handler returns without
  having written a reply.
* `early` and `tainted` are history variables for the exceptions that the
  properties make: see *Findings*.

### TournamentRound

The promise behind the handlers, with the clock, the flag, the spin locks and the
steps hidden: a request `Enter`s a tournament that is not being reset, may `Bet`,
and `Leave`s; `BeginReset` needs all tournaments to be empty; a bet that counts
is counted until its request leaves.  A readers-writer lock would give that.  The
code has none and implements it by the break alone.  `TournamentServer` maps to
it `playing` (the requests in flight, without those let in by the early flag of
the finding), `counted` (their bets in `bet_credits_`) and `resetting` (the
tournaments whose objects the scheduler has yet to reset).

### Standings, PrizePool

`MCReply` checks the two in one run, in which a behaviour has either the rows or
the prize: they share no state.

`Standings` is pure code.  It keeps the comparison of `int` with `size_t` and
tells rows of the ranking from entries of the reply that were never written.

`PrizePool` keeps the width of the int and the order of the two reads in
`get_prize_pool`.  A bet is any int, since no handler looks at the sign of what
the client sends.  The clock and `reset` are separate actions: `run()` gets to
the reset some time after the period has begun, and at the boot in the middle of
one.  `seen`, `floor` and `fallen` are history variables: the highest prize
returned since it last fell, what that was when a call began, and the calls
during which it fell.

### Payline and SlotSpin

`Payline` has the paytable of the code and `check_payline` in both kinds of spin.
`SlotSpin` has the reels, `set_out_reels`, the 25 paylines, the sum of what they
win and the board of the reply, which `spin()` turns upside down after the lines
have been checked.  `spin()` stops reels at 0..14 only, so of the 32 symbols of a
reel just the first sixteen and the last can be seen.  The stop points are any:
the generator keeps no state between draws.

### FreeSpins and FreeSpinAccount

Every read and write of the two counters is a step, so that two threads in the
same slot interleave as they can in the code.  Paylines are abstracted to how
many Scatters they show.  `FreeSpinAccount` adds what the player is owed, and
whether spins have overlapped.

### SlotSeats

Every use of the clock is two steps: `get_now()`, and what is done with its
result.  `get_slot_id` walks the map under its mutex while spins go on:
`LookAtClock` is the call of `get_now()` in `is_seat()`, and `SkipSlot` and
`ChooseSlot` compare what it gave with the timestamp, by an unsigned difference
(`Elapsed`, modulo `Word`).  `UpdateTimestamp` and `GrantSlot` are the two halves
of `update_timestamp()`, and so are `SpinSlot` and `StoreTimestamp` in a spin.

`spin_req` may name any id.  `slots_[id]` of a missing key inserts a null
pointer, and that insertion is an interval (`SpinInserts` to `Inserted`) in which
a use of the map by another thread may crash.  So is the first insertion of
Scatter into the paytable of a slot (`ScatterLine` to `ScatterInserted`), which
two spins of one slot may meet in (`PaytableRace`).

The properties make their exceptions by history variables: a player has been
silent for a minute (`lapsed`), two threads had read the clock for his slot at
once (`raced`), a client has spun another slot than it was given (`strayed`), a
slot was given while another held or spun it (`doubled`).

### Startup

The main thread's statements in order, with requests in between.  A request that
uses the pool before it exists, or the vector during a `push_back`, ends the
process; so does a query that fails (`QueryNull`), which is kept apart as an end
of its own.

### HttpConnection

| Action | Code |
|---|---|
| `Accept` | the callback of `async_accept`, up to the first `async_read_until` |
| `HeadRead`, `ContentRead`, `ReadFails` | the callbacks of the two reads; `UseHead`, `FindResource` and `CallResource` are what they go on to do |
| `ResourceReturns`, `Written`, `WriteFails` | the coroutine of `write_response`, divided where it yields in `flush()` |
| `Expire` | a timer runs out: its handler is queued, and `cancel()` comes too late |
| `Close` | that handler runs |

* `at = "nothing"` is a connection no callback of which is left: its timer is
  destroyed with them, which cancels it, and so is its socket, unless the
  handler of an expired timer still has it.
* The handler of the timer of a response runs in the strand of its request,
  hence not while the resource runs; the handlers of the others run at any time.
* An operation may have succeeded before its socket is closed, its callback
  being queued: `socket = "late"`.
* What the client sends is a stream of heads and contents, which are not split
  further; a read may find any number of them in the buffer.
* A content whose own head was lost is read as the beginning of the next head, or
  for a whole one if there is the end of a head inside it.  `parse_request` makes
  of it whatever it can, so it is taken for any request (`TakenFor`).
* `blocked` is all that is seen of the other connections: they may have every
  thread.

## The runs

| Run | Instance | States | Shows |
|---|---|---|---|
| `Pool` | 3 threads, 2 connections, 1 spare object; all faults | 11,424 | `TypeOK`, `PoolConserved`, `ExclusiveUse`, `CapacitySuffices`, implements `LeaseSpec`, `LiveConnectionServes` |
| `Scheduler` | period 8, break 3, lag 2, reset up to 18 s, 2 tournaments | 6,707 | `SchedTypeOK`, `OneResetPerPeriod`, `FlagFollowsClock`, `ComesBack`, `KeepsResetting` |
| `TournamentSafe` | 2 requests, 2 users, 1 tournament | 999,739 | `TypeOK`, `OwnBetCounts`, `RowsAreNamed`, `WritersExclude` |
| `TournamentLive` | 1 request, 2 tournaments, lag 1, all faults | 448,451 | implements `RoundSpec`, `LockReleased` |
| `TournamentReset` | 2 requests, 2 users, 1 tournament | violation | `RefusedDuringReset` fails |
| `Reply` | 5-bit ints, bets of either sign, period 6, 2 readers; all rankings of up to 5 users | 564,440 | `TypeOK`, `PrizeFitsInt`, `PrizeNeverFalls`, `OwnNeighbourhood`, `DefinedExactlyWhen` |
| `SlotSpin` | 6 of 15 stops of every reel in every combination, both kinds of spin | 31,104 | `ShownWinIsPaid`, `PaysTheBetter`, `FreePaysNoLess`, `SymbolFound` |
| `FreeSpins` | 2 threads, 2 winning lines a spin | 63,029 | `TypeOK`, `HonestAccount`, `RestIsSound` |
| `SlotSeats` | 2 players, 1 slot, ids to 1, a minute of 2 ticks | 1,462,887 | `TypeOK`, `SeatsExclusive`, `OnlyStraysCrash` |
| `SeatUnderflow` | 2 players, 1 slot | violation | `SelectableIsQuiet` fails |
| `Startup` | 2 requests, 2 connections, 3 tournaments | 810 | `TypeOK`, `TournamentsFindThePool`, `OnlyStartupCrashes` |
| `HttpConnection` | 3 requests of one client | 80,160 | `TypeOK`, `GuardedByTimer`, `TimersFollowStage`, `ReadInTurn`, `ConnectionEnds` |

### Bounds, and why they are enough

* **Pool.**  More threads than connections makes the pool run out, with one
  object to spare so that a replacement can exist beside what it replaces.  The
  safety properties are proved for every size.
* **Scheduler.**  A period of 8 with a break of 3 has several seconds of play and
  of break; the reset may outlast two whole periods.  The theorems hold for
  every period, break and bound.
* **TournamentServer.**  Two requests are needed for the races on the map, two
  users for a row of somebody else.  A shorter period (4 and 2) without lag keeps
  `TournamentSafe` small; `TournamentLive` has the lag and a second tournament,
  and the smallest period that `TimingAssumption` allows with them.
  `TimingAssumption` says what the code takes for granted:
  `MaxDelay + 2 * MaxLag < Break`, that is, a request accepted in the last moment
  of play is over before the reset, and `MaxSql + 3 * MaxLag < Period - Break`,
  that the reset is over before the break.  With the figures of the code: a
  request takes less than about half a minute, a reset less than five.
  `OwnBetCounts` and `RoundSpec` do not hold without it.  `Init` leaves out servers started a
  few seconds before the break, whose first reset would end in it: these set the
  flag for a moment in the break.
* **Standings.**  Five rows are two more than the array has, so that first,
  last, inner and missing users all occur on both sides of its limit.  The
  theorems hold for every length and every set of users.
* **PrizePool.**  Five bits stand for 32: a few bets make `bet_credits_` wrap
  around, and one of them is negative.  Two readers, for a call that ends while
  another is between its two reads.
* **SlotSpin.**  The reels, the paylines and the paytable are those of the code.
  Of the fifteen stops six are drawn, whose windows of three cover all seventeen
  visible symbols of every reel, in all combinations: every pattern of wild
  symbols the lines can show is among them.  The theorems are about all fifteen.
* **FreeSpins.**  Awards 2, 3 and 4 stand for 10, 15 and 20.  `MaxCount` bounds
  how much may be won: no line wins and no spin begins that would count beyond.
* **SlotSeats.**  Two players are needed for one seat, and the spins and the
  asker interleave by single steps.  There is one slot, an id that does not exist,
  and a clock (`MaxTime`) that shows two minutes of two ticks, so that a spin may
  be late by a part of a minute or the whole of it.  `Word` is larger than any
  time, as in the code.  The run is up to the exchange of the players.  Slots
  share nothing but the map; the theorems hold for any number of them.
* **Startup.**  Two requests, for the vector race beside another request.
* **HttpConnection.**  Three requests: one whose buffer takes the head of the
  second with it, and a third that is read behind the second's content.

### Fairness

* `ConnectionPool`: weak fairness for a thread inside a call, because a thread
  that runs is scheduled.  None for starting a call: a client need not ask.
  `LiveConnectionServes` says under which traffic it holds.
* `Scheduler`: weak fairness for the thread and for the clock.
* `TournamentServer`: weak fairness for each thread and for the clock.  The spin
  lock is not assumed to be fair, so what is claimed is that a lock that is taken
  is released, not that every thread gets it.
* `HttpConnection`: handlers return, those of other connections too; a callback
  that is ready time and again is run in its turn, the `io_service` being a queue
  (strong fairness, since the threads may be taken in between); timers run out.
  The client is obliged to nothing.
* `SlotSeats` states safety only.  `FairSpec`, with weak fairness for
  `get_slot_id` and for spins that have begun, is there for `SeatUnderflow`: what
  it shows is no thread that has stopped.
* The other modules state safety only, and assume no fairness.

## What the properties say

*Pool.*  `PoolConserved`: what `get_stats()` reports adds up to the initial size,
across exceptions and replacements.  `ExclusiveUse`: no connection serves two
threads, or is destroyed under one.  `CapacitySuffices`: `borrow()` gives up only
while all connections are in use by other threads; five threads on eight
connections never see that.  `LeaseSpec`: callers may rely on `LeasePool`.
`LiveConnectionServes`: since the deque is first-in first-out, closed connections
that come round again cannot keep a live one from being used.

*Scheduler.*  `OneResetPerPeriod`: standings being played for are not wiped a
second time, however late the thread is.  `FlagFollowsClock`: lateness in one
period does not add up to the next.  `ComesBack`, `KeepsResetting`: no order of
the four assignments to the flag leaves the tournaments closed, and resets go on.

*Tournaments.*  `OwnBetCounts`: a reset does not come between a bet and the
reply to it.  `RoundSpec`: requests and resets exclude each other altogether, not
only where a bet would be lost, and callers may rely on `TournamentRound`.  `RowsAreNamed`: each row the database returns has a name in memory.
`WritersExclude`: a map is changed by one thread at a time, and not under a
lookup that holds the lock, also where the change is the `clear()` of the reset
or the insertion by which `get_user_info` would add a missing key after its
`unlock()`; but for a request let in during the reset, no name is lost between
the lookup and that read, so it never inserts.  `LockReleased`.
`OwnNeighbourhood`, `DefinedExactlyWhen`: the reply shows the user's neighbours,
and is made of rows exactly when the procedure returns at most three of them with
the user among them.  `PrizeFitsInt`: the prize fits an int even
after the sum has wrapped around.  `PrizeNeverFalls`: players do not see it fall
from one reply to the next, in whatever order bets, seconds and the reads of the
calls come, but for a new period, a reset, a negative bet or the wrap-around.

*Slots.*  `SeatsExclusive`: a seat is kept by spinning, unless two threads are at
the same time between `get_now()` and the use of its result for that slot.
`SelectableIsQuiet`: a slot found selectable has not been spun for a minute; the
underflow refutes it, see *Findings*.  `OnlyStraysCrash`: clients that keep to the
slots they were given bring the server down, by either map, only after a slot was
given away while it was held or spun.  `HonestAccount`: spins
one after the other leave exactly what was owed.  `RestIsSound`: overlapping spins
may lose awards, but do not leave the slot in a game that is over.
`ShownWinIsPaid`: the table of paylines is its own mirror image, so the board the
player sees, upside down, wins what he is paid.  `PaysTheBetter`,
`FreePaysNoLess`, `SymbolFound`: the any-bar rule and the second
wild symbol are to the player's advantage, but for a free spin on a line that
begins with just three or four wild symbols, which credits them to the symbol
that follows.

*Connections.*  `GuardedByTimer` and `ConnectionEnds`: on no path, exceptions and
resources without a reply included, can a silent client keep its socket.
`TimersFollowStage`: a reply is under its own timer only, not under what is left
of the timer of the read.  `ReadInTurn`: a client that waits for each reply has
its requests read whole.

*Start-up.*  `TournamentsFindThePool`: a tournament request does not reach the
pool before it exists, because the flag is set later; a server that is refused a
connection and ends has let nobody play.  `OnlyStartupCrashes`: a missing pool and
a moving vector are things of the start-up only.

## Findings

* `TournamentReset` (`scheduler_md.cpp:190`): `run()` clears the flag, calls
  `reset_tournament()`, resets the objects and sets the flag.  But
  `reset_tournament()` itself sets it at its end, so requests are accepted while
  the objects are being reset, and their bet and name may be wiped at once.  The
  handlers' messages say that requests are not processed then.

* `SeatUnderflow` (`slot.cpp:477`): `is_seat()` calls `get_now()` and reads the
  timestamp afterwards.  A spin takes no lock and may store a later time in
  between, whereupon the unsigned difference underflows to a huge number, and
  the slot that has just been spun is given to another player as one that can be
  chosen.

The modules also show, without a run of their own: an SQL error crashes the
process (`QueryNull`: the null result is dereferenced), the unlocked read of
`get_user_info` can crash it (`ReadCrashes`), an id equal to `size()` inserts a
null slot on which the next `seat_req` crashes (`NullSlot`), two first spins of
one slot may crash it (`PaytableRace`), concurrent spins lose awards, a database
that refuses a connection during the start-up ends the process, because nothing
catches the exception of `create()` (`ConnectFails`), and requests that a client
sends without waiting for replies may be lost (`lost`).

## The proofs

All are about the specifications the runs check, without bounds on the
constants, and rest only on the assumptions named in the modules.

**ConnectionPoolProofs** (from `PoolAssumption`).  None of the properties is
inductive alone.  `PoolInv` is: types, a finite borrowed set, `PoolConserved`,
`ExclusiveUse`, and that a thread holds a connection exactly while inside its
call.  The last part is what makes an abandoned connection safe to destroy.
`PoolInvariant` proves it action by action, on lemmas about the deque (what
`Tail` and `Append` do to its range and its distinctness).  From it follow
`TypeCorrect`, `Conservation`, `Exclusion` and `Capacity` (each borrowed
connection is held, holders have one each: a bijection), and `Refinement`: a
borrow is an `Acquire`, a return or an exception a `Release`, all else stutters.

**TournamentRoundProofs**.  The first part is about the scheduler alone, from
`SchedulerAssumption`, which leaves the lag and the duration of the statement
unlimited.  `OneResetPerPeriod` is strengthened by `NextResetIsLater`: once a
period has had its reset, the seconds the thread still has to sleep reach to the
break, and from there to the end of the period.  `SchedulerTypeCorrect` and
`AtMostOneReset` follow; of the types, what is to be shown is that no timer is
armed beyond a period, nor for less than minus the break, and that the loop stays
within the tournaments.  For `FlagFollowsClock` the invariant is `FlagInv`: the
bound of the lag (`LagAllowed`), what the timers of break and play have left
compared with the clock (`BreakTimers`, `PlayTimers`), and the value of the flag
at each statement (`FlagInStep`).  `FlagAgreesWithClock` follows.

The second part is about the server, and takes `ServerAssumption` as well, which
includes `TimingAssumption`.  That bets survive and that the server
implements `TournamentRound` rest on time.  `TimeInv` says where in the period
the clock is at each statement of the scheduler: the reset is over before the
play is (`ResetInTime`), the timer of the play runs out when the break begins
(`PlayInTime`), that of the break with the period (`BreakInTime`), each as late
as the lag allows.  `RoundInv` adds that a request that is in flight and not
early finds no reset due in its tournament, that in the break its age and what
is left of the break are together more than `MaxDelay` (`OutsideReset`), and
`OwnBetCounts`.  Since a request is over by `MaxDelay`, none is left when the
break is.  `BetsCount` follows, and `ServerImplementsRound` step by step: each
step of a handler or of the scheduler is a step of `TournamentRound` or a
stutter.

**TournamentServerProofs** (on top of these).  `WritersExclude` speaks of program
counters and not of the lock.  `LockInv` ties the two together: a handler inside
a section, or the scheduler in its reset, has its own name on the lock of *its*
tournament.  Its steps fall into four kinds, each a lemma: outside the sections,
entering one, leaving one, and those of the scheduler.  That is enough for what
is done under the lock.  The read after the unlock is another matter: `ReadsFind`
says that a request at that read which is not early finds its key, since names
are only lost in the reset and `RoundInv` keeps requests and resets apart.
`MutualExclusion` follows from both.  `RowsHaveNames` needs the two stores in step: `NamesInv` says that, in
a tournament no early request has touched, every user with a row in the database
has a name in the table, that the database is empty while the table is being
cleared (`PlayersNamed`), and that the user of a request and those whose rows it
has still to name have theirs (`RequestsNamed`); it uses `RoundInv` to keep the
resets away from requests.  `TypesOK` collects the types from these.

**ClassicSlotProofs** (from `FreeSpinsAssumption` and `SlotSpinAssumption`).  On
the free spins, `RestInv`: while a game that is over stands in the counters, some
thread has yet to compare them, since whoever writes a counter compares them
afterwards.  That survives every lost update, and gives `RestsSoundly`.
`AccountInv` gives, for a spin that is alone, the relation between the counters,
what has been read and what is owed at each of its steps; `AccountsAreHonest`
follows.

The proofs on the paylines let each of the five reels stop at any of its 15
places: twice 15^5 spins where TLC takes twice 6^5.  They are about any line that
could be shown (`PossibleLine`, `DrawnLines`): a symbol on each reel, none of them
wild on the first, third and fifth.  `RunEnds` says what a run of symbols is, and
the lemmas on the paytable what a longer run is worth.  From these follow
`BetterReadingIsPaid` (by `BetterOfTwo`), `FreeSpinsPayNoLess` (by `FreeIsNoWorse`,
which compares the runs of one line in a normal and in a free spin) and
`SymbolsAreFound`.  `ShownBoardIsPaid` is a theorem on sums: `Mirror` pairs each
payline with the one upside down (`PaylinesAreSymmetric`), and a sum over the
paylines is the same sum over their mirror images (`MirroredTotal`).  That needs
to know what the recursive function in `Total` computes.  `SumsExist` shows, by
the least number of lines without a partial sum, that there are such sums, so
that `Total` is the sum of its 25 terms (`TotalAddsUp`).

**SlotSeatsProofs** (from `SeatsAssumption`).  A player is `Safe` at his slot while
he has neither lapsed nor raced.  `SeatsInv` says that no time that was read or
stored is ahead of the clock (`ClockBehind`), that a safe player's own time is not
a minute old and no older than the timestamp of his slot or what the one spin
there is about to store (`SeatFresh`), that a look at the clock for such a slot
is not older than its timestamp (`LookIsFresh`), which is what rules the underflow
out there (`NoUnderflow`), and that a slot that has been chosen is no safe
player's (`GrantIsFree`).  It gives `SeatsTypeCorrect` and
`SeatsAreExclusive`.  `ApartInv` is about the crashes: as long as nobody strayed
and no slot was given twice, seats and spins are at slots that exist
(`SeatsExist`), no two of them at the same (`SeatsApart`), so that nothing is
inserted into `slots_` and no two spins meet in a paytable.  `CrashesAreStrays`
follows.

**HttpConnectionProofs** (from `HttpAssumption`).  What the callbacks leave behind
is summed up in `Progress`; `TimerInv` strengthens `GuardedByTimer` to the time
the resource runs, when the timer's handler must wait for the strand.
`TimersGuard` and `StagesHaveTheirTimers` follow.  `TurnInv` says what the stream
holds of the one request under way; `RequestsInTurn` follows.  `HttpTypeCorrect`
takes counting, since a content may be taken for a request: what is in the
stream, the request in work and the replies written are together no more than
the heads and contents sent (`CountInv`).

**ReplyProofs**.  On the prize (from `PrizeAssumption`: four times `end_bet_` for
each of the thirty steps, plus a fifth of the largest int, is an int; with the
`end_bet_` of the three zones it is), `PrizeInv` adds to the types that what
`get_prize_pool()` has loaded is a fifth of an int.  `PrizeTypeCorrect` and
`PrizeAlwaysFits` follow, by lemmas on the wrap-around, the division and the
steps, for bets of either sign.  `PrizeDoesNotFall` is about two reads apart in
time, of several readers.  `NeverFallsInv` says that the prize of now has reached
what was seen of it since it last fell (`SeenIsReached`), and that what a reader
has loaded is no more than a fifth of the bets of now and, with the time of now,
worth no less than what had been seen when it was called (`LoadedInTime`).  By
`FifthGrows` and `PrizeGrows` a bet that is not negative and a second within the
period keep both; after anything else they hold anew (`AfterFall`).

On the ranking (from `StandingsAssumption`, that there are finitely many users,
and `NoRowAssumption`, that what was never written is no user), `RankedCopy` says
which rows are copied for a user who is ranked, and `UnrankedCopy` that of three
or more rows none is copied for one who is not.  `RankedSeeNeighbours` and
`RowsExactlyWhen` follow, for rankings of any length.

**StartupProofs** (from `StartupAssumption`).  What a request may find depends on
nothing but the order of the main thread's statements: `MainInOrder` says what
exists at each of them, and `RequestsInOrder` that a request which has passed the
flag came after the pool.  `StartInv`, the two with the types, is inductive, and
gives `StartupTypeCorrect`, `RequestsFindThePool` and `CrashesAreOfTheStart`.

So all safety properties of the passing runs are proved.  Only model-checked is
liveness, which is outside the prover's reach: `LiveConnectionServes`,
`ComesBack`, `KeepsResetting`, `LockReleased` and `ConnectionEnds`.

## What is not modelled

* Of the HTTP server: the text of requests (`parse_request`, the regular
  expressions), `stop()`, which nothing calls, and exceptions of `asio` itself in
  the callbacks (`set_option`, `close()`).
* `worker_md`: an `io_service` with four threads to which nothing is posted; its
  `stop()` has no caller, so it shares no state with the rest and never ends.
* `json11`: vendored formatting.  Request fields are taken as parsed.
* `login_req` answers constants; `uid_fb_req` is commented out;
  `sync_timestamp_req` reads the clock; `tournament_reward_req` is empty.
* The random generator is a choice: it keeps no state, and chance is not modelled.
* The races on the map of a paytable are in `SlotSeats`; `SlotSpin`, which has
  what a spin pays, has one spin at a time.
* Early wake-ups: the timer's clock and `time(0)` are taken to agree.
* `slot_logic_md`, `event_md` and `tmp_slot` are prototypes that `SConscript` does
  not build: nothing in the program reaches them.

## Plan

Done, in this order: `ConnectionPool` with its abstraction and its proofs,
`Scheduler` with its proofs, `TournamentTable` and `TournamentServer`,
`Standings`, `PrizePool` with its proofs, `SlotSeats`, `FreeSpins`, `Payline`,
`Startup`, `HttpConnection`, `TournamentRound` with the refinement, `SlotSpin`, the
proofs of the tournaments, the free spins, the seats and the connection, and
those of the replies, the paylines and the start-up.

Next: concurrent spins over whole boards, that is, `FreeSpins` and `SlotSpin`
composed, over the slots of `SlotSeats`.
