---------------------------- MODULE StartupProofs ----------------------------
(***************************************************************************)
(* Theorems about the start-up, for every number of threads, connections   *)
(* and tournaments: what a request may find depends on nothing but the     *)
(* order of the statements of the main thread.                             *)
(***************************************************************************)
EXTENDS Startup, TLAPS

(* From here on the pool exists. *)
HasPool == {"flag", "push", "join"}

(* What exists when the main thread is where.  The flag is up only after    *)
(* the pool is there, and the vector moves only until it is full.           *)
MainInOrder ==
  /\ mysql_pool <=> mpc \in HasPool
  /\ on => mpc \in HasPool
  /\ pushing => mpc = "push" /\ tournaments < Zones
  /\ fate = "create threw" => mpc = "connect"

(* A tournament request that has passed the flag knows that the pool is     *)
(* there; only such a request reads the vector.                             *)
RequestsInOrder ==
  \A w \in Workers :
    /\ wpc[w] # "idle" /\ kind[w] = "tournament_req" => mpc \in HasPool
    /\ wpc[w] = "vector" => kind[w] = "tournament_req"

StartInv == TypeOK /\ MainInOrder /\ RequestsInOrder

LEMMA StartInvInit == Init => StartInv
<1> SUFFICES ASSUME Init PROVE StartInv
  OBVIOUS
<1>1. TypeOK
  <2>1. opened \in 0..PoolSize /\ tournaments \in 0..Zones
    BY StartupAssumption DEF Init
  <2>2. /\ wpc \in [Workers -> {"idle", "vector", "query"}]
        /\ kind \in [Workers -> Kinds]
    BY DEF Init, Kinds
  <2>3. QED
    BY <2>1, <2>2 DEF Init, TypeOK
<1>2. MainInOrder /\ RequestsInOrder
  BY DEF Init, MainInOrder, RequestsInOrder, HasPool
<1>3. QED
  BY <1>1, <1>2 DEF StartInv

(* The statements of main(), each of which finds what those before it left. *)
LEMMA MainKeepsOrder ==
  ASSUME StartInv, main
  PROVE  StartInv'
<1> USE StartupAssumption
    DEF StartInv, TypeOK, MainInOrder, RequestsInOrder, HasPool, Running,
        MainGoto, mainVars, Ends
<1>1. CASE SpawnServer
  BY <1>1 DEF SpawnServer
<1>2. CASE Sleep
  BY <1>2 DEF Sleep
<1>3. CASE Connect
  BY <1>3 DEF Connect
<1>4. CASE ConnectFails
  BY <1>4 DEF ConnectFails
<1>5. CASE Connected
  BY <1>5 DEF Connected
<1>6. CASE AssignPool
  BY <1>6 DEF AssignPool
<1>7. CASE InitFlag
  BY <1>7 DEF InitFlag
<1>8. CASE PushBegins
  BY <1>8 DEF PushBegins
<1>9. CASE PushEnds
  <2>1. tournaments' \in 0..Zones
    BY <1>9 DEF PushEnds
  <2>2. TypeOK'
    BY <1>9, <2>1 DEF PushEnds
  <2>3. MainInOrder' /\ RequestsInOrder'
    BY <1>9 DEF PushEnds
  <2>4. QED
    BY <2>2, <2>3
<1>10. CASE SpawnScheduler
  BY <1>10 DEF SpawnScheduler
<1>11. QED
  BY <1>1, <1>2, <1>3, <1>4, <1>5, <1>6, <1>7, <1>8, <1>9, <1>10 DEF main

(* The scheduler and the start of the server. *)
LEMMA OthersKeepOrder ==
  ASSUME StartInv, SchedulerRuns \/ ServerStarts \/ BindFails
  PROVE  StartInv'
<1> USE DEF StartInv, TypeOK, MainInOrder, RequestsInOrder, HasPool, Running,
            mainVars, Ends
<1>1. CASE SchedulerRuns
  BY <1>1 DEF SchedulerRuns
<1>2. CASE ServerStarts
  BY <1>2 DEF ServerStarts
<1>3. CASE BindFails
  BY <1>3 DEF BindFails
<1>4. QED
  BY <1>1, <1>2, <1>3

LEMMA DispatchKeepsOrder ==
  ASSUME StartInv, NEW w \in Workers, NEW k \in Kinds, Dispatch(w, k)
  PROVE  StartInv'
<1> USE DEF StartInv, TypeOK, MainInOrder, RequestsInOrder, HasPool, Running,
            mainVars, HandlerGoto, Kinds
<1>1. CASE k = "uid_req"
  BY <1>1 DEF Dispatch
<1>2. CASE k = "tournament_req" /\ on
  BY <1>2 DEF Dispatch
<1>3. CASE k # "uid_req" /\ ~(k = "tournament_req" /\ on)
  BY <1>3 DEF Dispatch
<1>4. QED
  BY <1>1, <1>2, <1>3

LEMMA HandlerKeepsOrder ==
  ASSUME StartInv, NEW w \in Workers, handler(w)
  PROVE  StartInv'
<1> USE DEF StartInv, TypeOK, MainInOrder, RequestsInOrder, HasPool, Running,
            mainVars, HandlerGoto, Ends
<1>1. ASSUME NEW z \in 0..(Zones - 1), GetTournament(w, z)
      PROVE  StartInv'
  BY <1>1 DEF GetTournament
<1>2. CASE VectorRace(w)
  BY <1>2 DEF VectorRace
<1>3. CASE Query(w)
  BY <1>3 DEF Query
<1>4. CASE QueryNull(w)
  BY <1>4 DEF QueryNull
<1>5. CASE QueryWithoutPool(w)
  BY <1>5 DEF QueryWithoutPool
<1>6. QED
  BY <1>1, <1>2, <1>3, <1>4, <1>5 DEF handler

LEMMA StartInvariant == Spec => []StartInv
<1>1. ASSUME StartInv, UNCHANGED vars
      PROVE  StartInv'
  <2>1. TypeOK'
    BY <1>1 DEF StartInv, TypeOK, vars
  <2>2. MainInOrder' /\ RequestsInOrder'
    BY <1>1 DEF StartInv, MainInOrder, RequestsInOrder, vars
  <2>3. QED
    BY <2>1, <2>2 DEF StartInv
<1>2. StartInv /\ [Next]_vars => StartInv'
  BY <1>1, MainKeepsOrder, OthersKeepOrder, DispatchKeepsOrder, HandlerKeepsOrder
  DEF Next
<1>3. QED
  BY <1>2, StartInvInit, PTL DEF Spec

(* The types of the start-up's variables. *)
THEOREM StartupTypeCorrect == Spec => []TypeOK
<1>1. StartInv => TypeOK
  BY DEF StartInv
<1>2. QED
  BY <1>1, StartInvariant, PTL

(* No tournament request gets to the pool before it exists, and nobody has  *)
(* played on a server that ends because it is refused a connection.         *)
THEOREM RequestsFindThePool == Spec => []TournamentsFindThePool
<1>1. StartInv => TournamentsFindThePool
  BY DEF StartInv, MainInOrder, RequestsInOrder, HasPool, TournamentsFindThePool
<1>2. QED
  BY <1>1, StartInvariant, PTL

(* Once the scheduler runs, neither a missing pool nor a moving vector can  *)
(* end the process.                                                         *)
THEOREM CrashesAreOfTheStart == Spec => OnlyStartupCrashes
<1>1. ASSUME StartInv, Next, fate = "running", fate' = "crashed", mpc = "join"
      PROVE  FALSE
  <2>1. mysql_pool /\ ~pushing
    BY <1>1 DEF StartInv, MainInOrder, HasPool
  <2>2. ~main /\ ~SchedulerRuns /\ ~ServerStarts /\ ~BindFails
    BY <1>1 DEF main, SpawnServer, Sleep, Connect, ConnectFails, Connected, AssignPool,
         InitFlag, PushBegins, PushEnds, SpawnScheduler, MainGoto, SchedulerRuns,
         ServerStarts, BindFails, Ends
  <2>3. ASSUME NEW w \in Workers, handler(w)
        PROVE  FALSE
    BY <1>1, <2>1, <2>3
    DEF handler, GetTournament, VectorRace, Query, QueryNull, QueryWithoutPool,
        HandlerGoto, Ends
  <2>4. ASSUME NEW w \in Workers, NEW k \in Kinds, Dispatch(w, k)
        PROVE  FALSE
    BY <1>1, <2>4 DEF Dispatch, HandlerGoto
  <2>5. QED
    BY <1>1, <2>2, <2>3, <2>4 DEF Next, vars
<1>2. StartInv /\ [Next]_vars
        => [fate = "running" /\ fate' = "crashed" => mpc # "join"]_vars
  BY <1>1
<1>3. QED
  BY <1>2, StartInvariant, PTL DEF Spec, OnlyStartupCrashes

=============================================================================
