------------------------------- MODULE Startup -------------------------------
(***************************************************************************)
(* How the server comes up (main.cpp): the HTTP threads answer requests    *)
(* from the start, while the main thread still connects to the database    *)
(* (db_md::init) and makes the tournaments (scheduler_md::init).           *)
(*                                                                         *)
(* Of a request only what it needs of the other components is kept:        *)
(* uid_req needs mysql_pool; the two tournament requests need the flag,    *)
(* the vector tournaments_ and then mysql_pool; the others need nothing.   *)
(***************************************************************************)
EXTENDS Naturals

CONSTANTS
  Workers,   \* the HTTP threads
  PoolSize,  \* connections opened by db_md::init
  Zones      \* tournaments made by scheduler_md::init

ASSUME StartupAssumption == PoolSize \in Nat /\ Zones \in Nat

VARIABLES
  mpc,          \* where the main thread is
  serving,      \* the HTTP server accepts connections
  opened,       \* connections opened so far
  mysql_pool,   \* db_md's mysql_pool is not null
  on,           \* is_tournament_on_
  tournaments,  \* the size of tournaments_
  pushing,      \* a push_back on tournaments_ is going on
  wpc,          \* what each HTTP thread is about to use
  kind,         \* the request it handles
  fate          \* "running", or how the process has ended

vars == <<mpc, serving, opened, mysql_pool, on, tournaments, pushing, wpc, kind, fate>>
mainVars == <<mpc, opened, mysql_pool, on, tournaments, pushing>>

Kinds == {"uid_req", "tournament_req", "other"}

TypeOK ==
  /\ mpc \in {"spawn", "sleep", "connect", "assign", "flag", "push", "join"}
  /\ serving \in BOOLEAN
  /\ opened \in 0..PoolSize
  /\ mysql_pool \in BOOLEAN
  /\ on \in BOOLEAN
  /\ tournaments \in 0..Zones
  /\ pushing \in BOOLEAN
  /\ wpc \in [Workers -> {"idle", "vector", "query"}]
  /\ kind \in [Workers -> Kinds]
  /\ fate \in {"running", "crashed", "null result", "create threw", "bind threw"}

Init ==
  /\ mpc = "spawn"
  /\ serving = FALSE
  /\ opened = 0
  /\ mysql_pool = FALSE
  /\ on = FALSE
  /\ tournaments = 0
  /\ pushing = FALSE
  /\ wpc = [w \in Workers |-> "idle"]
  /\ kind = [w \in Workers |-> "other"]
  /\ fate = "running"

Running == fate = "running"
Ends(how) == fate' = how

-----------------------------------------------------------------------------
(* The main thread *)

MainGoto(from, to) ==
  /\ Running /\ mpc = from /\ mpc' = to
  /\ UNCHANGED <<serving, wpc, kind, fate>>

(* The server thread is started. *)
SpawnServer ==
  /\ MainGoto("spawn", "sleep")
  /\ UNCHANGED <<opened, mysql_pool, on, tournaments, pushing>>

(* Wrong on purpose: the tournaments are made before the database is        *)
(* connected to.                                                            *)
SleepThenFlag ==
  /\ MainGoto("sleep", "flag")
  /\ UNCHANGED <<opened, mysql_pool, on, tournaments, pushing>>

(* A second of sleep is over, during which the server has probably started. *)
Sleep ==
  /\ MainGoto("sleep", "connect")
  /\ UNCHANGED <<opened, mysql_pool, on, tournaments, pushing>>

(* Wrong on purpose: one connection too many. *)
ConnectOneMore ==
  /\ opened <= PoolSize
  /\ MainGoto("connect", "connect")
  /\ opened' = opened + 1
  /\ UNCHANGED <<mysql_pool, on, tournaments, pushing>>

(* The constructor of ConnectionPool: factory->create(), PoolSize times. *)
Connect ==
  /\ opened < PoolSize
  /\ MainGoto("connect", "connect")
  /\ opened' = opened + 1
  /\ UNCHANGED <<mysql_pool, on, tournaments, pushing>>

(* create() throws: main() has no try. *)
ConnectFails ==
  /\ Running
  /\ mpc = "connect" /\ opened < PoolSize
  /\ Ends("create threw")
  /\ UNCHANGED <<mainVars, serving, wpc, kind>>

Connected ==
  /\ opened = PoolSize
  /\ MainGoto("connect", "assign")
  /\ UNCHANGED <<opened, mysql_pool, on, tournaments, pushing>>

(* db_md::init keeps the pool and returns true.  The worker thread, which   *)
(* has nothing to do, is started.                                           *)
AssignPool ==
  /\ MainGoto("assign", "flag")
  /\ mysql_pool' = TRUE
  /\ UNCHANGED <<opened, on, tournaments, pushing>>

(* scheduler_md::init: the flag is set if this is not the break ... *)
InitFlag ==
  /\ MainGoto("flag", "push")
  /\ on' \in BOOLEAN
  /\ UNCHANGED <<opened, mysql_pool, tournaments, pushing>>

(* ... and the tournaments are pushed after that. *)
PushBegins ==
  /\ tournaments < Zones /\ ~pushing
  /\ MainGoto("push", "push")
  /\ pushing' = TRUE
  /\ UNCHANGED <<opened, mysql_pool, on, tournaments>>

PushEnds ==
  /\ pushing
  /\ MainGoto("push", "push")
  /\ pushing' = FALSE
  /\ tournaments' = tournaments + 1
  /\ UNCHANGED <<opened, mysql_pool, on>>

(* Wrong on purpose: the scheduler thread pushes the tournaments itself. *)
SpawnSchedulerEarly ==
  /\ MainGoto("push", "join")
  /\ UNCHANGED <<opened, mysql_pool, on, tournaments, pushing>>

(* The scheduler thread is started; the main thread waits for ever. *)
SpawnScheduler ==
  /\ tournaments = Zones
  /\ MainGoto("push", "join")
  /\ UNCHANGED <<opened, mysql_pool, on, tournaments, pushing>>

(* The scheduler opens and closes the tournaments. *)
SchedulerRuns ==
  /\ Running /\ mpc = "join"
  /\ on' \in BOOLEAN
  /\ UNCHANGED <<mpc, serving, opened, mysql_pool, tournaments, pushing, wpc, kind, fate>>

-----------------------------------------------------------------------------
(* The server and its threads *)

ServerStarts ==
  /\ Running /\ mpc # "spawn" /\ ~serving
  /\ serving' = TRUE
  /\ UNCHANGED <<mainVars, wpc, kind, fate>>

(* start() cannot bind the port, in a thread without a try. *)
BindFails ==
  /\ Running /\ mpc # "spawn" /\ ~serving
  /\ Ends("bind threw")
  /\ UNCHANGED <<mainVars, serving, wpc, kind>>

HandlerGoto(w, to) ==
  /\ wpc' = [wpc EXCEPT ![w] = to]
  /\ UNCHANGED <<mainVars, serving, fate>>

(* A request is dispatched.  A tournament request asks for the flag first.  *)
Dispatch(w, k) ==
  /\ Running /\ serving /\ wpc[w] = "idle"
  /\ kind' = [kind EXCEPT ![w] = k]
  /\ HandlerGoto(w, CASE k = "uid_req" -> "query"
                      [] k = "tournament_req" /\ on -> "vector"
                      [] OTHER -> "idle")

(* get_tournament(z): without the tournament there is no reply. *)
GetTournament(w, z) ==
  /\ Running /\ wpc[w] = "vector"
  /\ HandlerGoto(w, IF z < tournaments THEN "query" ELSE "idle")
  /\ UNCHANGED kind

(* push_back may move the vector while it is read. *)
VectorRace(w) ==
  /\ Running /\ wpc[w] = "vector" /\ pushing
  /\ Ends("crashed")
  /\ UNCHANGED <<mainVars, serving, wpc, kind>>

(* execute_query, which begins with mysql_pool->borrow(). *)
Query(w) ==
  /\ Running /\ wpc[w] = "query" /\ mysql_pool
  /\ HandlerGoto(w, "idle")
  /\ UNCHANGED kind

(* It returns null after an SQL error, and the handlers use the result all  *)
(* the same.                                                                *)
QueryNull(w) ==
  /\ Running /\ wpc[w] = "query" /\ mysql_pool
  /\ Ends("null result")
  /\ UNCHANGED <<mainVars, serving, wpc, kind>>

QueryWithoutPool(w) ==
  /\ Running /\ wpc[w] = "query" /\ ~mysql_pool
  /\ Ends("crashed")
  /\ UNCHANGED <<mainVars, serving, wpc, kind>>

main ==
  \/ SpawnServer \/ Sleep \/ Connect \/ ConnectFails \/ Connected \/ AssignPool
  \/ InitFlag \/ PushBegins \/ PushEnds \/ SpawnScheduler

handler(w) ==
  \/ \E z \in 0..(Zones - 1) : GetTournament(w, z)
  \/ VectorRace(w) \/ Query(w) \/ QueryNull(w) \/ QueryWithoutPool(w)

Next ==
  \/ main
  \/ SchedulerRuns
  \/ ServerStarts \/ BindFails
  \/ \E w \in Workers : handler(w) \/ \E k \in Kinds : Dispatch(w, k)
  \/ ~Running /\ UNCHANGED vars   \* the process has ended

Spec == Init /\ [][Next]_vars

-----------------------------------------------------------------------------
(* A tournament request can come at any moment of the start-up and never    *)
(* uses the pool before it exists: the flag it asks for is not set before   *)
(* the database has been connected to, although nothing but the order of    *)
(* the statements of main() relates the two.  So a server that is refused a *)
(* connection, and ends with that, has let nobody play.                     *)
TournamentsFindThePool ==
  \A w \in Workers : wpc[w] # "idle" /\ kind[w] = "tournament_req" =>
    mysql_pool /\ fate # "create threw"

(* Once the scheduler runs, no request meets a missing pool or a moving     *)
(* vector any more: what can still end the process is an SQL error.         *)
OnlyStartupCrashes == [][fate = "running" /\ fate' = "crashed" => mpc # "join"]_vars

=============================================================================
