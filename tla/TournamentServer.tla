--------------------------- MODULE TournamentServer ---------------------------
(***************************************************************************)
(* Tournaments end to end: the HTTP threads in tournament_refresh_req and  *)
(* tournament_update_req (handler/tournament_info.cpp), which differ only  *)
(* in the stored procedure they call, the scheduler thread of Scheduler,   *)
(* the tournament objects of TournamentTable both work on, and the         *)
(* database tables the procedures keep.                                    *)
(*                                                                         *)
(* Nothing but the flag `on` and thirty seconds of break keep a request    *)
(* out of a reset, so the module also counts the seconds a request takes.  *)
(***************************************************************************)
EXTENDS Scheduler, Sequences, SequencesExt

CONSTANTS
  Uid,       \* users
  NoUid,     \* a negative uid
  Workers,   \* the HTTP threads (4 in main.cpp)
  Sched,     \* the scheduler thread
  Nobody,    \* no thread
  MaxDelay,  \* bound: seconds from the acceptance of a request to its reply
  Faults     \* failures of the database that a run allows

ASSUME ServerAssumption ==
  /\ IsFiniteSet(Uid)
  /\ NoUid \notin Uid
  /\ Sched \notin Workers
  /\ Nobody \notin Workers \cup {Sched}
  /\ MaxDelay \in Nat
  /\ Faults \subseteq {"null", "throw", "reset", "terminate"}

(* The break outlasts every request, and the play the reset statement. *)
ASSUME TimingAssumption ==
  /\ MaxDelay + 2 * MaxLag < Break
  /\ MaxSql + 3 * MaxLag < Period - Break

Zone == 0..(Zones - 1)

VARIABLES
  lock, user_infos, bet_credits,  \* the tournament objects
  wpc,       \* where each HTTP thread is
  uid,       \* the uid of its request
  zone,      \* the zone of its request
  rows,      \* uids of the result rows it has still to name
  blanks,    \* uids it has put in tournament_infos with an empty name
  players,   \* players[z]: users with a row in the database (external)
  wiped,     \* the reset procedure under way has done its work (external)
  age,       \* seconds since the request was accepted
  early,     \* history: it was accepted before the reset of its zone was over
  tainted    \* history: the names of the zone may be incomplete, see Taint

INSTANCE TournamentTable

tables == <<lock, user_infos, bet_credits>>
reqVars == <<wpc, uid, zone, rows, blanks, age, early>>
dbVars == <<players, wiped, tainted>>
serverVars == <<schedVars, tables, reqVars, dbVars>>

WorkerSteps ==
  {"idle", "bet", "set_lock", "set", "query", "row", "find", "read",
   "reply"}

(* The request has been accepted and not answered yet. *)
InFlight(w) == wpc[w] # "idle"

TypeOK ==
  /\ SchedTypeOK
  /\ TableTypeOK(Workers \cup {Sched})
  /\ wpc \in [Workers -> WorkerSteps]
  /\ uid \in [Workers -> Uid \cup {NoUid}]
  /\ zone \in [Workers -> Zone]
  /\ rows \in [Workers -> Seq(Uid)]
  /\ blanks \in [Workers -> SUBSET Uid]
  /\ players \in [Zone -> SUBSET Uid]
  /\ wiped \in BOOLEAN
  /\ age \in [Workers -> 0..MaxDelay]
  /\ early \in [Workers -> BOOLEAN]
  /\ tainted \in [Zone -> BOOLEAN]

(* The server is started in the break, or early enough in the play for the *)
(* first reset to be over before the break.                                *)
Init ==
  /\ SchedInit
  /\ \/ second >= Period - Break
     \/ second + MaxSql + 3 * MaxLag < Period - Break
  /\ TableInit
  /\ wpc = [w \in Workers |-> "idle"]
  /\ uid = [w \in Workers |-> NoUid]
  /\ zone = [w \in Workers |-> 0]
  /\ rows = [w \in Workers |-> <<>>]
  /\ blanks = [w \in Workers |-> {}]
  /\ players \in [Zone -> SUBSET Uid]   \* left by an earlier process
  /\ wiped = FALSE
  /\ age = [w \in Workers |-> 0]
  /\ early = [w \in Workers |-> FALSE]
  /\ tainted = [z \in Zone |-> TRUE]

-----------------------------------------------------------------------------
(* The handlers *)

Step(w, from, to) ==
  /\ up
  /\ wpc[w] = from
  /\ wpc' = [wpc EXCEPT ![w] = to]
  /\ UNCHANGED schedVars

(* The thread is done with its request, answered or not. *)
Finish(w) ==
  /\ up
  /\ wpc' = [wpc EXCEPT ![w] = "idle"]
  /\ uid' = [uid EXCEPT ![w] = NoUid]
  /\ zone' = [zone EXCEPT ![w] = 0]
  /\ rows' = [rows EXCEPT ![w] = <<>>]
  /\ blanks' = [blanks EXCEPT ![w] = {}]
  /\ age' = [age EXCEPT ![w] = 0]
  /\ early' = [early EXCEPT ![w] = FALSE]
  /\ UNCHANGED schedVars

(* The reset of zone z is still to come, or under way: either the flag was  *)
(* set by scheduler_md::init, or reset_tournament() has set it again before *)
(* tournament::reset() is called.                                           *)
BeforeReset(z) ==
  \/ spc \in {"boot", "off", "sql", "reopen"}
  \/ spc \in {"lock", "clear", "zero"} /\ cursor <= z

(* The flag is down or the uid negative: the reply has "result": false and  *)
(* nothing changes.                                                         *)
Refuse(w, u) ==
  /\ up /\ wpc[w] = "idle"
  /\ ~on \/ u = NoUid
  /\ UNCHANGED serverVars

(* get_tournament() returned nullptr: the handler returns without a reply. *)
UnknownZone(w, u, z) ==
  /\ up /\ wpc[w] = "idle"
  /\ on /\ u # NoUid /\ z \notin Zone
  /\ UNCHANGED serverVars

(* Wrong on purpose: a zone that does not exist is not noticed. *)
AcceptAnyZone(w, u, z) ==
  /\ on /\ u # NoUid
  /\ Step(w, "idle", "bet")
  /\ uid' = [uid EXCEPT ![w] = u]
  /\ zone' = [zone EXCEPT ![w] = z]
  /\ early' = [early EXCEPT ![w] = TRUE]
  /\ UNCHANGED <<rows, blanks, age, tables, dbVars>>

(* The request passes the check of the flag. *)
Accept(w, u, z) ==
  /\ on /\ u # NoUid /\ z \in Zone
  /\ Step(w, "idle", "bet")
  /\ uid' = [uid EXCEPT ![w] = u]
  /\ zone' = [zone EXCEPT ![w] = z]
  /\ early' = [early EXCEPT ![w] = BeforeReset(z)]
  /\ tainted' = [tainted EXCEPT ![z] = @ \/ BeforeReset(z)]
  /\ UNCHANGED <<rows, blanks, age, tables, players, wiped>>

AddBet(w) ==
  /\ Step(w, "bet", "set_lock")
  /\ add_bet_credit(zone[w], w)
  /\ UNCHANGED <<uid, zone, rows, blanks, age, early, dbVars>>

LockToSet(w) ==
  /\ Step(w, "set_lock", "set")
  /\ Lock(zone[w], w)
  /\ UNCHANGED <<uid, zone, rows, blanks, age, early, dbVars>>

SetUserInfo(w) ==
  /\ Step(w, "set", "query")
  /\ SetAndUnlock(zone[w], uid[w])
  /\ UNCHANGED <<uid, zone, rows, blanks, age, early, dbVars>>

(* call refresh_tournament_user or update_tournament_user: the user has a   *)
(* row from then on, and rows of some of the zone's users come back.        *)
Query(w) ==
  LET z == zone[w] IN
  /\ Step(w, "query", "row")
  /\ players' = [players EXCEPT ![z] = @ \cup {uid[w]}]
  /\ \E R \in SUBSET players'[z] : \E s \in SetToSeqs(R) :
       rows' = [rows EXCEPT ![w] = s]
  /\ UNCHANGED <<uid, zone, blanks, age, early, wiped, tainted, tables>>

(* borrow() or the statement threw: main.cpp answers 400. *)
QueryThrows(w) ==
  /\ "throw" \in Faults
  /\ wpc[w] = "query"
  /\ Finish(w)
  /\ ForgetBet(w)
  /\ UNCHANGED dbVars

(* The statement failed: the null result is dereferenced by rs->next(). *)
QueryNull(w) ==
  /\ "null" \in Faults
  /\ up
  /\ wpc[w] = "query"
  /\ up' = FALSE
  /\ UNCHANGED <<second, on, spc, remaining, left, cursor, lag, resets>>
  /\ UNCHANGED <<tables, reqVars, dbVars>>

-----------------------------------------------------------------------------
(* The loop over the rows, each of which calls get_user_info. *)

LockToFind(w) ==
  /\ Step(w, "row", "find")
  /\ rows[w] # <<>>
  /\ Lock(zone[w], w)
  /\ UNCHANGED <<uid, zone, rows, blanks, age, early, dbVars>>

(* Wrong on purpose: the result of find() is not looked at. *)
FindHitUnchecked(w) ==
  /\ Step(w, "find", "read")
  /\ FindAndUnlock(zone[w])
  /\ UNCHANGED <<uid, zone, rows, blanks, age, early, dbVars>>

FindHit(w) ==
  /\ Step(w, "find", "read")
  /\ Found(zone[w], Head(rows[w]))
  /\ FindAndUnlock(zone[w])
  /\ UNCHANGED <<uid, zone, rows, blanks, age, early, dbVars>>

(* tournament_infos.push_back: the row has the name that was found. *)
PushRow(w, info) ==
  /\ rows' = [rows EXCEPT ![w] = Tail(@)]
  /\ blanks' = [blanks EXCEPT ![w] = IF info = "named" THEN @ ELSE @ \cup {Head(rows[w])}]

(* Wrong on purpose: the thread never leaves the branch, nor unlocks. *)
FindMissForEver(w) ==
  /\ up /\ wpc[w] = "find"
  /\ ~Found(zone[w], Head(rows[w]))
  /\ UNCHANGED serverVars

FindMiss(w) ==
  /\ Step(w, "find", "row")
  /\ ~Found(zone[w], Head(rows[w]))
  /\ FindAndUnlock(zone[w])
  /\ PushRow(w, "blank")
  /\ UNCHANGED <<uid, zone, age, early, dbVars>>

ReadUserInfo(w) ==
  /\ Step(w, "read", "row")
  /\ ReadUnlocked(zone[w], Head(rows[w]))
  /\ PushRow(w, Read(zone[w], Head(rows[w])))
  /\ UNCHANGED <<uid, zone, age, early, dbVars>>

(* The read holds no lock.  When it and another thread touch the map at the *)
(* same time and one of them changes it, the outcome is undefined: besides  *)
(* the read above, the process may crash.                                   *)
Inserts(w) == wpc[w] = "read" /\ ~Found(zone[w], Head(rows[w]))

Races(w) ==
  \/ spc = "clear" /\ cursor = zone[w]
  \/ \E v \in Workers \ {w} :
       /\ zone[v] = zone[w]
       /\ \/ wpc[v] = "set" \/ Inserts(v)
          \/ Inserts(w) /\ wpc[v] \in {"find", "read"}

ReadCrashes(w) ==
  /\ up
  /\ wpc[w] = "read"
  /\ Races(w)
  /\ up' = FALSE
  /\ UNCHANGED <<second, on, spc, remaining, left, cursor, lag, resets>>
  /\ UNCHANGED <<tables, reqVars, dbVars>>

(* All rows are named: get_prize_pool() is next. *)
RowsDone(w) ==
  /\ Step(w, "row", "reply")
  /\ rows[w] = <<>>
  /\ UNCHANGED <<uid, zone, rows, blanks, age, early, tables, dbVars>>

(* get_prize_pool() reads the bets, and the reply goes out. *)
Reply(w) ==
  /\ wpc[w] = "reply"
  /\ Finish(w)
  /\ ForgetBet(w)
  /\ UNCHANGED dbVars

arrive(w, u, z) == Refuse(w, u) \/ UnknownZone(w, u, z) \/ Accept(w, u, z)

handler(w) ==
  \/ AddBet(w) \/ LockToSet(w) \/ SetUserInfo(w)
  \/ Query(w) \/ QueryThrows(w) \/ QueryNull(w)
  \/ LockToFind(w) \/ FindHit(w) \/ FindMiss(w)
  \/ ReadUserInfo(w) \/ ReadCrashes(w)
  \/ RowsDone(w) \/ Reply(w)

-----------------------------------------------------------------------------
(* The scheduler thread, with what it does to the tournaments. *)

(* Why a zone's names may be incomplete: the database still has rows of an  *)
(* earlier tournament or process, or a request was accepted too early.      *)
Taint(z) == \E w \in Workers : InFlight(w) /\ zone[w] = z /\ early[w]

(* The procedure wipes the rows, at some moment of the statement. *)
DatabaseReset ==
  /\ up /\ spc = "sql" /\ ~wiped
  /\ players' = [z \in Zone |-> {}]
  /\ wiped' = TRUE
  /\ tainted' = [z \in Zone |-> Taint(z)]
  /\ UNCHANGED <<schedVars, tables, reqVars>>

(* The statement returns after that. *)
DatabaseResetReturns ==
  /\ ResetStatementEnds
  /\ wiped
  /\ wiped' = FALSE
  /\ UNCHANGED <<tables, reqVars, players, tainted>>

DatabaseResetFails ==
  /\ "reset" \in Faults
  /\ ResetStatementEnds
  /\ ~wiped
  /\ tainted' = [z \in Zone |-> TRUE]
  /\ UNCHANGED <<tables, reqVars, players, wiped>>

SchedulerTerminates ==
  /\ "terminate" \in Faults
  /\ ResetStatementUnavailable
  /\ ~wiped
  /\ UNCHANGED <<tables, reqVars, dbVars>>

TournamentReset ==
  /\ \/ ResetLock /\ Lock(cursor, Sched)
     \/ ResetClear /\ ClearAndUnlock(cursor)
     \/ ResetZero /\ ZeroBets(cursor)
  /\ UNCHANGED <<reqVars, dbVars>>

SchedulerRuns ==
  /\ \/ ReadClock \/ ArmBreak \/ CloseForBreak \/ WakeFromBreak
     \/ StartReset \/ Reopen \/ Resume
     \/ ReadClockAgain \/ ArmPlay \/ WakeFromPlay
  /\ UNCHANGED <<tables, reqVars, dbVars>>

scheduler ==
  DatabaseReset \/ DatabaseResetReturns \/ DatabaseResetFails
  \/ SchedulerTerminates
  \/ TournamentReset \/ SchedulerRuns

(* A second passes, for the requests too. *)
TimePasses ==
  /\ Tick
  /\ \A w \in Workers : InFlight(w) => age[w] < MaxDelay
  /\ age' = [w \in Workers |-> IF InFlight(w) THEN age[w] + 1 ELSE 0]
  /\ UNCHANGED <<wpc, uid, zone, rows, blanks, early, tables, dbVars>>

Next ==
  \/ \E w \in Workers : handler(w)
  \/ \E w \in Workers, u \in Uid \cup {NoUid}, z \in 0..Zones : arrive(w, u, z)
  \/ scheduler
  \/ TimePasses
  \/ ~up /\ UNCHANGED serverVars   \* the process has terminated

Spec == Init /\ [][Next]_serverVars

(* The threads run; nothing obliges a client to send a request, and the     *)
(* spin lock is not assumed to be fair.                                     *)
FairSpec ==
  /\ Spec
  /\ \A w \in Workers : WF_serverVars(handler(w))
  /\ WF_serverVars(scheduler)
  /\ WF_serverVars(TimePasses)

-----------------------------------------------------------------------------
(* The bet of a request stays in the prize pool its own reply reports: no   *)
(* reset comes between, except for a request accepted before the reset of   *)
(* its zone was over.                                                       *)
OwnBetCounts ==
  \A w \in Workers :
    InFlight(w) /\ wpc[w] # "bet" /\ ~early[w] => w \in bet_credits[zone[w]]

(* The requests that play in zone z by the rules of TournamentRound: those  *)
(* accepted before its reset was over have no promise.                      *)
Playing(z) == {w \in Workers : InFlight(w) /\ zone[w] = z /\ ~early[w]}

Round == INSTANCE TournamentRound WITH
  playing <- [z \in Zone |-> Playing(z)],
  counted <- [z \in Zone |-> bet_credits[z] \cap Playing(z)],
  resetting <- {z \in Zone : BeforeReset(z)}

(* Requests and resets exclude each other and bets count as long as their   *)
(* request, although nothing but the flag, looked at once, and the length   *)
(* of the break keep a request that has been accepted out of a reset.       *)
RoundSpec == Round!Spec

(* Every row of a reply has a name: the database only has rows of users     *)
(* whose name is in the table, although the two are updated and reset by    *)
(* separate calls in separate orders.  Excepted are tournaments whose       *)
(* database reset failed, and those in which a request was accepted before  *)
(* the reset was over.                                                      *)
RowsAreNamed ==
  \A w \in Workers : InFlight(w) /\ ~tainted[zone[w]] => blanks[w] = {}

(* The thread changes the map of tournament z, or is at its lookup in it.   *)
Changes(w, z) == zone[w] = z /\ (wpc[w] = "set" \/ Inserts(w))
Uses(w, z) == Changes(w, z) \/ (zone[w] = z /\ wpc[w] = "find")

(* The map of a tournament is not changed by two threads at once, nor under *)
(* a lookup that holds the lock; the insertion of get_user_info, which      *)
(* holds none, and the clear() of the reset included.  It never comes to    *)
(* that insertion: no reset takes the name away between the find() and the  *)
(* operator[].  Excepted is a request accepted before the reset was over,   *)
(* which can lose the name in between.                                      *)
WritersExclude ==
  LET InsertsEarly(w) == Inserts(w) /\ early[w] IN
  \A z \in Zone :
    /\ \A w, v \in Workers :
         w # v /\ Changes(w, z) /\ Uses(v, z) => InsertsEarly(w) \/ InsertsEarly(v)
    /\ spc = "clear" /\ cursor = z =>
         \A w \in Workers : Uses(w, z) => InsertsEarly(w)

(* What the message of tournament_info.cpp:80 and :144 says: outside a      *)
(* tournament requests are not processed.  A tournament is over until the   *)
(* scheduler has reset it and announces that it starts again.               *)
RefusedDuringReset ==
  [][\A w \in Workers : InFlight(w)' /\ ~InFlight(w) => spc \notin {"lock", "clear", "zero"}]_serverVars

(* A spin lock that is taken is released, so nobody spins on it for ever    *)
(* because a thread has left a branch without unlocking.                    *)
LockReleased ==
  \A z \in Zone : lock[z] # Nobody ~> lock[z] = Nobody \/ ~up

=============================================================================
