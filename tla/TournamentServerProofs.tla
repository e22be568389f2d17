------------------------ MODULE TournamentServerProofs ------------------------
(***************************************************************************)
(* Theorems about requests and the scheduler on the tournament objects,    *)
(* for any number of threads, users and tournaments.                       *)
(***************************************************************************)
EXTENDS TournamentRoundProofs, FiniteSetTheorems, SequenceTheorems

Sections == {"set", "find"}

(* The types the locks depend on. *)
LockTypes ==
  /\ lock \in [Zone -> Workers \cup {Sched, Nobody}]
  /\ wpc \in [Workers -> WorkerSteps]
  /\ zone \in [Workers -> Zone]
  /\ cursor \in Zone

(* A thread inside a section has its number on the lock. *)
HandlersOwn == \A w \in Workers : wpc[w] \in Sections => lock[zone[w]] = w
SchedulerOwns == spc = "clear" => lock[cursor] = Sched

LockInv == LockTypes /\ HandlersOwn /\ SchedulerOwns

LEMMA LockInvInit == Init => LockInv
<1> SUFFICES ASSUME Init PROVE LockInv
  OBVIOUS
<1>1. 0 \in Zone
  BY SchedulerAssumption DEF Zone
<1>2. LockTypes
  BY <1>1 DEF Init, SchedInit, TableInit, LockTypes, WorkerSteps
<1>3. HandlersOwn
  BY DEF Init, HandlersOwn, Sections
<1>4. SchedulerOwns
  BY DEF Init, SchedInit, SchedulerOwns
<1>5. QED
  BY <1>2, <1>3, <1>4 DEF LockInv

(* A handler's step that leaves the locks alone and enters no section. *)
LEMMA OutsideStep ==
  ASSUME LockInv, NEW w \in Workers, NEW s \in WorkerSteps \ Sections,
         wpc[w] \notin Sections,
         wpc' = [wpc EXCEPT ![w] = s],
         zone' = zone \/ \E z \in Zone : zone' = [zone EXCEPT ![w] = z],
         UNCHANGED <<lock, spc, cursor>>
  PROVE  LockInv'
<1>1. LockTypes'
  BY DEF LockInv, LockTypes
<1>2. HandlersOwn'
  BY DEF LockInv, LockTypes, HandlersOwn
<1>3. SchedulerOwns'
  BY DEF LockInv, SchedulerOwns
<1>4. QED
  BY <1>1, <1>2, <1>3 DEF LockInv

(* A handler enters a section, with the lock it found free. *)
LEMMA EnterStep ==
  ASSUME LockInv, NEW w \in Workers, NEW s \in Sections,
         lock[zone[w]] = Nobody,
         lock' = [lock EXCEPT ![zone[w]] = w],
         wpc' = [wpc EXCEPT ![w] = s],
         UNCHANGED <<zone, spc, cursor>>
  PROVE  LockInv'
<1>1. LockTypes'
  BY DEF LockInv, LockTypes, Sections, WorkerSteps
<1>2. HandlersOwn'
  BY ServerAssumption DEF LockInv, LockTypes, HandlersOwn
<1>3. SchedulerOwns'
  BY ServerAssumption DEF LockInv, LockTypes, SchedulerOwns
<1>4. QED
  BY <1>1, <1>2, <1>3 DEF LockInv

(* A handler leaves its section and unlocks. *)
LEMMA LeaveStep ==
  ASSUME LockInv, NEW w \in Workers, NEW s \in WorkerSteps \ Sections,
         wpc[w] \in Sections,
         lock' = [lock EXCEPT ![zone[w]] = Nobody],
         wpc' = [wpc EXCEPT ![w] = s],
         UNCHANGED <<zone, spc, cursor>>
  PROVE  LockInv'
<1>1. LockTypes'
  BY DEF LockInv, LockTypes
<1>2. lock[zone[w]] = w
  BY DEF LockInv, HandlersOwn
<1>3. HandlersOwn'
  BY <1>2 DEF LockInv, LockTypes, HandlersOwn
<1>4. SchedulerOwns'
  BY <1>2, ServerAssumption DEF LockInv, LockTypes, SchedulerOwns
<1>5. QED
  BY <1>1, <1>3, <1>4 DEF LockInv

LEMMA HandlerStep ==
  ASSUME LockInv, NEW w \in Workers, handler(w)
  PROVE  LockInv'
<1> USE DEF Step
<1>0. 0 \in Zone
  BY SchedulerAssumption DEF Zone
<1>1. CASE AddBet(w)
  BY <1>1, OutsideStep
  DEF AddBet, add_bet_credit, schedVars, WorkerSteps, Sections
<1>2. CASE LockToSet(w)
  BY <1>2, EnterStep DEF LockToSet, Lock, schedVars, Sections
<1>3. CASE SetUserInfo(w)
  BY <1>3, LeaveStep
  DEF SetUserInfo, SetAndUnlock, Unlock, schedVars, WorkerSteps, Sections
<1>4. CASE Query(w)
  BY <1>4, OutsideStep DEF Query, tables, schedVars, WorkerSteps, Sections
<1>5. CASE QueryThrows(w)
  BY <1>0, <1>5, OutsideStep
  DEF QueryThrows, Finish, ForgetBet, schedVars, WorkerSteps, Sections
<1>6. CASE QueryNull(w) \/ ReadCrashes(w)
  BY <1>6
  DEF QueryNull, ReadCrashes, tables, reqVars, LockInv, LockTypes, HandlersOwn,
      SchedulerOwns
<1>7. CASE LockToFind(w)
  BY <1>7, EnterStep DEF LockToFind, Lock, schedVars, Sections
<1>8. CASE FindHit(w)
  BY <1>8, LeaveStep
  DEF FindHit, FindAndUnlock, Unlock, schedVars, WorkerSteps, Sections
<1>9. CASE FindMiss(w)
  BY <1>9, LeaveStep
  DEF FindMiss, FindAndUnlock, Unlock, schedVars, WorkerSteps, Sections
<1>10. CASE ReadUserInfo(w)
  BY <1>10, OutsideStep
  DEF ReadUserInfo, ReadUnlocked, schedVars, WorkerSteps, Sections
<1>11. CASE RowsDone(w)
  BY <1>11, OutsideStep DEF RowsDone, tables, schedVars, WorkerSteps, Sections
<1>12. CASE Reply(w)
  BY <1>0, <1>12, OutsideStep
  DEF Reply, Finish, ForgetBet, schedVars, WorkerSteps, Sections
<1>13. QED
  BY <1>1, <1>2, <1>3, <1>4, <1>5, <1>6, <1>7, <1>8, <1>9, <1>10, <1>11, <1>12
  DEF handler

LEMMA ArriveStep ==
  ASSUME LockInv, NEW w \in Workers, NEW u, NEW z, arrive(w, u, z)
  PROVE  LockInv'
<1>1. CASE Accept(w, u, z)
  BY <1>1, OutsideStep
  DEF Accept, Step, tables, schedVars, WorkerSteps, Sections
<1>2. CASE Refuse(w, u) \/ UnknownZone(w, u, z)
  BY <1>2
  DEF Refuse, UnknownZone, serverVars, tables, reqVars, schedVars, LockInv,
      LockTypes, HandlersOwn, SchedulerOwns
<1>3. QED
  BY <1>1, <1>2 DEF arrive

(* A step of the scheduler that neither locks nor unlocks. *)
LEMMA SchedulerElsewhere ==
  ASSUME LockInv, spc' # "clear" \/ UNCHANGED <<spc, cursor>>,
         cursor' \in Zone, UNCHANGED <<lock, wpc, zone>>
  PROVE  LockInv'
BY DEF LockInv, LockTypes, HandlersOwn, SchedulerOwns

LEMMA ResetStep ==
  ASSUME LockInv, TournamentReset
  PROVE  LockInv'
<1> USE DEF Goto
<1>0. UNCHANGED <<wpc, zone>>
  BY DEF TournamentReset, reqVars
<1>1. CASE ResetLock /\ Lock(cursor, Sched)
  <2>1. LockTypes'
    BY <1>0, <1>1 DEF ResetLock, Lock, LockInv, LockTypes
  <2>2. HandlersOwn'
    BY <1>0, <1>1, ServerAssumption
    DEF ResetLock, Lock, LockInv, LockTypes, HandlersOwn
  <2>3. SchedulerOwns'
    BY <1>1 DEF ResetLock, Lock, LockInv, LockTypes, SchedulerOwns
  <2>4. QED
    BY <2>1, <2>2, <2>3 DEF LockInv
<1>2. CASE ResetClear /\ ClearAndUnlock(cursor)
  <2>1. LockTypes'
    BY <1>0, <1>2 DEF ResetClear, ClearAndUnlock, Unlock, LockInv, LockTypes
  <2>2. lock[cursor] = Sched
    BY <1>2 DEF ResetClear, LockInv, SchedulerOwns
  <2>3. HandlersOwn'
    BY <1>0, <1>2, <2>2, ServerAssumption
    DEF ResetClear, ClearAndUnlock, Unlock, LockInv, LockTypes, HandlersOwn
  <2>4. SchedulerOwns'
    BY <1>2 DEF ResetClear, SchedulerOwns
  <2>5. QED
    BY <2>1, <2>3, <2>4 DEF LockInv
<1>3. CASE ResetZero /\ ZeroBets(cursor)
  <2>1. spc' # "clear" /\ UNCHANGED lock
    BY <1>3 DEF ResetZero, ZeroBets
  <2>2. cursor' \in Zone
    BY <1>3, SchedulerAssumption DEF ResetZero, LockInv, LockTypes, Zone
  <2>3. QED
    BY <1>0, <2>1, <2>2, SchedulerElsewhere
<1>4. QED
  BY <1>1, <1>2, <1>3 DEF TournamentReset

LEMMA SchedulerStep ==
  ASSUME LockInv, scheduler
  PROVE  LockInv'
<1> USE DEF Goto
<1>0. 0 \in Zone /\ cursor \in Zone
  BY SchedulerAssumption DEF Zone, LockInv, LockTypes
<1>1. CASE \/ DatabaseReset \/ DatabaseResetReturns
           \/ DatabaseResetFails \/ SchedulerTerminates
  BY <1>0, <1>1, SchedulerElsewhere
  DEF DatabaseReset, DatabaseResetReturns, DatabaseResetFails, SchedulerTerminates,
      ResetStatementEnds, ResetStatementUnavailable, schedVars, tables, reqVars
<1>2. CASE TournamentReset
  BY <1>2, ResetStep
<1>3. CASE SchedulerRuns
  <2>1. UNCHANGED <<lock, wpc, zone>>
    BY <1>3 DEF SchedulerRuns, tables, reqVars
  <2>2. spc' # "clear" /\ cursor' \in Zone
    BY <1>0, <1>3
    DEF SchedulerRuns, ReadClock, ArmBreak, CloseForBreak, WakeFromBreak,
        StartReset, Reopen, Resume, ReadClockAgain, ArmPlay, WakeFromPlay
  <2>3. QED
    BY <2>1, <2>2, SchedulerElsewhere
<1>4. QED
  BY <1>1, <1>2, <1>3 DEF scheduler

LEMMA LockInvNext == LockInv /\ [Next]_serverVars => LockInv'
<1> SUFFICES ASSUME LockInv, [Next]_serverVars PROVE LockInv'
  OBVIOUS
<1>1. CASE TimePasses
  <2>1. UNCHANGED <<spc, cursor, lock, wpc, zone>>
    BY <1>1
    DEF TimePasses, Tick, TickAsleep, TickInStatement, TickRunning, SecondPasses,
        tables
  <2>2. QED
    BY <2>1 DEF LockInv, LockTypes, HandlersOwn, SchedulerOwns
<1>2. CASE UNCHANGED serverVars
  BY <1>2
  DEF serverVars, schedVars, tables, reqVars, LockInv, LockTypes, HandlersOwn,
      SchedulerOwns
<1>3. QED
  BY <1>1, <1>2, HandlerStep, ArriveStep, SchedulerStep DEF Next

-----------------------------------------------------------------------------
(* The names: the types of what requests read and write. *)
DataTypes ==
  /\ uid \in [Workers -> Uid \cup {NoUid}]
  /\ rows \in [Workers -> Seq(Uid)]
  /\ blanks \in [Workers -> SUBSET Uid]
  /\ players \in [Zone -> SUBSET Uid]
  /\ user_infos \in [Zone -> [Uid -> {"absent", "named", "blank"}]]
  /\ tainted \in [Zone -> BOOLEAN]
  /\ wiped \in BOOLEAN
  /\ wiped => spc = "sql"
  /\ \A w \in Workers :
       /\ InFlight(w) => uid[w] \in Uid
       /\ ~InFlight(w) => rows[w] = <<>> /\ blanks[w] = {}
       /\ wpc[w] \in {"find", "read"} => rows[w] # <<>>

Named(z, u) == user_infos[z][u] = "named"

(* A request without a promise taints its tournament. *)
EarlyTaints == \A w \in Workers : InFlight(w) /\ early[w] => tainted[zone[w]]

(* The reset has emptied the database. *)
Emptied == wiped \/ spc \notin {"boot", "off", "sql"}

(* Who is in the database is in the table of names, which is cleared after  *)
(* the database but before anybody plays again.                             *)
PlayersNamed ==
  \A z \in Zone : ~tainted[z] =>
    /\ \A u \in players[z] : Named(z, u)
    /\ BeforeReset(z) /\ Emptied => players[z] = {}

(* So are the user of a request, from set_user_info on, and those whose     *)
(* rows it has still to name.                                               *)
RequestNamed(w) ==
  ~tainted[zone[w]] =>
    /\ wpc[w] \in {"query", "row", "find", "read", "reply"} => Named(zone[w], uid[w])
    /\ \A i \in DOMAIN rows[w] : Named(zone[w], rows[w][i])
    /\ blanks[w] = {}

RequestsNamed == \A w \in Workers : InFlight(w) => RequestNamed(w)

NamesInv == DataTypes /\ EarlyTaints /\ PlayersNamed /\ RequestsNamed

LEMMA NamesInvInit == Init => NamesInv
<1> SUFFICES ASSUME Init PROVE NamesInv
  OBVIOUS
<1>1. <<>> \in Seq(Uid)
  OBVIOUS
<1>2. DataTypes
  BY <1>1 DEF Init, TableInit, NoInfos, DataTypes, InFlight
<1>3. EarlyTaints /\ RequestsNamed
  BY DEF Init, EarlyTaints, RequestsNamed, InFlight
<1>4. PlayersNamed
  BY DEF Init, PlayersNamed
<1>5. QED
  BY <1>2, <1>3, <1>4 DEF NamesInv

(* A step of request w that keeps it under way and takes no name away.  Its *)
(* own rows, and the player it may add, are for the caller to show named.   *)
LEMMA NamesKept ==
  ASSUME NamesInv, NEW w \in Workers, NEW s \in WorkerSteps \ {"idle"},
         InFlight(w), RequestTypes, zone[w] \in Zone,
         wpc' = [wpc EXCEPT ![w] = s], DataTypes',
         UNCHANGED <<zone, early, wiped, tainted, uid, spc, cursor>>,
         \A z \in Zone, u \in Uid : Named(z, u) => Named(z, u)',
         \A v \in Workers \ {w} : rows'[v] = rows[v] /\ blanks'[v] = blanks[v],
         RequestNamed(w)',
         players' = players
  PROVE  NamesInv'
<1>1. EarlyTaints'
  BY DEF NamesInv, EarlyTaints, InFlight, RequestTypes
<1>2. PlayersNamed'
  <2>1. ASSUME NEW z \in Zone, ~tainted[z], NEW u \in players[z]
        PROVE  Named(z, u)'
    BY <2>1 DEF NamesInv, PlayersNamed, DataTypes
  <2>2. ASSUME NEW z \in Zone, ~tainted[z], BeforeReset(z)',
               Emptied'
        PROVE  players[z] = {}
    BY <2>2 DEF NamesInv, PlayersNamed, BeforeReset, Emptied
  <2>3. QED
    BY <2>1, <2>2 DEF PlayersNamed
<1>3. ASSUME NEW v \in Workers, v # w, InFlight(v)'
      PROVE  RequestNamed(v)'
  <2>1. InFlight(v) /\ wpc'[v] = wpc[v] /\ zone[v] \in Zone
    BY <1>3 DEF InFlight, RequestTypes
  <2>2. RequestNamed(v) /\ uid[v] \in Uid
    BY <2>1 DEF NamesInv, RequestsNamed, DataTypes
  <2>3. rows[v] \in Seq(Uid) /\ rows'[v] = rows[v] /\ blanks'[v] = blanks[v]
    BY <1>3 DEF NamesInv, DataTypes
  <2>4. \A i \in DOMAIN rows[v] : rows[v][i] \in Uid
    BY <2>3
  <2>5. QED
    BY <2>1, <2>2, <2>3, <2>4 DEF RequestNamed
<1>4. RequestsNamed'
  BY <1>3 DEF RequestsNamed
<1>5. QED
  BY <1>1, <1>2, <1>4 DEF NamesInv

(* A step that touches neither names nor rows. *)
LEMMA NamesUntouched ==
  ASSUME NamesInv, RoundInv, NEW w \in Workers, NEW s \in WorkerSteps \ {"idle"},
         InFlight(w), wpc' = [wpc EXCEPT ![w] = s],
         s \in {"query", "row", "find", "read", "reply"} =>
           wpc[w] \in {"query", "row", "find", "read", "reply"},
         s \in {"find", "read"} => rows[w] # <<>>,
         UNCHANGED <<zone, early, wiped, tainted, uid, spc, cursor, user_infos,
                     rows, blanks, players>>
  PROVE  NamesInv'
<1>1. RequestTypes /\ zone[w] \in Zone
  BY DEF RoundInv, RequestTypes
<1>2. DataTypes'
  BY <1>1 DEF NamesInv, DataTypes, RequestTypes, InFlight
<1>3. RequestNamed(w)'
  BY <1>1 DEF NamesInv, RequestsNamed, RequestNamed, RequestTypes, Named
<1>4. QED
  BY <1>1, <1>2, <1>3, NamesKept DEF Named

LEMMA SetNames ==
  ASSUME NamesInv, RoundInv, NEW w \in Workers, SetUserInfo(w)
  PROVE  NamesInv'
<1> USE DEF SetUserInfo, Step, SetAndUnlock, Store
<1>1. RequestTypes /\ zone[w] \in Zone /\ InFlight(w) /\ uid[w] \in Uid
  BY DEF RoundInv, RequestTypes, InFlight, NamesInv, DataTypes
<1>2. ASSUME NEW z \in Zone, NEW u \in Uid, Named(z, u)
      PROVE  Named(z, u)'
  <2>1. CASE z = zone[w] /\ u = uid[w]
    BY <1>1, <1>2, <2>1 DEF NamesInv, DataTypes, Named
  <2>2. CASE z # zone[w] \/ u # uid[w]
    BY <1>1, <1>2, <2>2 DEF NamesInv, DataTypes, Named
  <2>3. QED
    BY <2>1, <2>2
<1>3. DataTypes'
  BY <1>1 DEF NamesInv, DataTypes, RequestTypes, InFlight, dbVars, schedVars
<1>4. RequestNamed(w)'
  <2>1. Named(zone[w], uid[w])'
    BY <1>1 DEF NamesInv, DataTypes, Named
  <2>2. \A i \in DOMAIN rows[w] : rows[w][i] \in Uid
    BY DEF NamesInv, DataTypes
  <2>3. RequestNamed(w)
    BY <1>1 DEF NamesInv, RequestsNamed
  <2>4. QED
    BY <1>1, <1>2, <2>1, <2>2, <2>3 DEF RequestNamed, dbVars
<1>5. QED
  BY <1>1, <1>2, <1>3, <1>4, NamesKept DEF schedVars, dbVars, WorkerSteps

(* The head of the rows has been named: with the name that was found, in a  *)
(* tournament that is not tainted.                                          *)
LEMMA PushNames ==
  ASSUME NamesInv, RoundInv, NEW w \in Workers, NEW info, InFlight(w),
         wpc[w] \in {"find", "read"}, rows[w] # <<>>,
         wpc' = [wpc EXCEPT ![w] = "row"], PushRow(w, info),
         ~tainted[zone[w]] => info = "named",
         user_infos' \in [Zone -> [Uid -> {"absent", "named", "blank"}]],
         \A z \in Zone, u \in Uid : Named(z, u) => Named(z, u)',
         UNCHANGED <<uid, zone, early, dbVars, spc, cursor>>
  PROVE  NamesInv'
<1> USE DEF PushRow, dbVars
<1>1. RequestTypes /\ zone[w] \in Zone /\ uid[w] \in Uid /\ rows[w] \in Seq(Uid)
  BY DEF RoundInv, RequestTypes, NamesInv, DataTypes
<1>2. /\ Head(rows[w]) \in Uid /\ Tail(rows[w]) \in Seq(Uid)
      /\ Len(Tail(rows[w])) = Len(rows[w]) - 1
      /\ \A i \in 1..Len(Tail(rows[w])) : Tail(rows[w])[i] = rows[w][i + 1]
  BY <1>1, HeadTailProperties
<1>3. DataTypes'
  BY <1>1, <1>2 DEF NamesInv, DataTypes, RequestTypes, InFlight
<1>4. RequestNamed(w)'
  <2>1. SUFFICES ASSUME ~tainted[zone[w]] PROVE RequestNamed(w)'
    BY DEF RequestNamed
  <2>2. RequestNamed(w) /\ info = "named"
    BY <2>1 DEF NamesInv, RequestsNamed
  <2>3. \A i \in 1..Len(rows[w]) : Named(zone[w], rows[w][i]) /\ rows[w][i] \in Uid
    BY <1>1, <2>1, <2>2 DEF RequestNamed
  <2>4. rows'[w] = Tail(rows[w])
    BY DEF NamesInv, DataTypes
  <2>5. ASSUME NEW i \in 1..Len(Tail(rows[w]))
        PROVE  user_infos'[zone[w]][Tail(rows[w])[i]] = "named"
    <3>1. i + 1 \in 1..Len(rows[w])
      BY <1>1, <1>2
    <3>2. Named(zone[w], rows[w][i + 1]) /\ rows[w][i + 1] \in Uid
      BY <2>3, <3>1
    <3>3. \A z \in Zone, u \in Uid : Named(z, u) => user_infos'[z][u] = "named"
      BY DEF Named
    <3>4. user_infos'[zone[w]][rows[w][i + 1]] = "named"
      BY <1>1, <3>2, <3>3
    <3>5. QED
      BY <1>2, <3>4
  <2>6. QED
    BY <1>1, <1>2, <2>1, <2>2, <2>4, <2>5 DEF RequestNamed, NamesInv, DataTypes, Named
<1>5. QED
  BY <1>1, <1>3, <1>4, NamesKept DEF NamesInv, DataTypes, WorkerSteps

(* A row of the query is one of the players. *)
LEMMA QueryNames ==
  ASSUME NamesInv, RoundInv, NEW w \in Workers, Query(w)
  PROVE  NamesInv'
<1> USE DEF Query, Step, tables, schedVars
<1>1. /\ RequestTypes /\ zone[w] \in Zone /\ InFlight(w) /\ uid[w] \in Uid
      /\ players'[zone[w]] \subseteq Uid
      /\ players'[zone[w]] = players[zone[w]] \cup {uid[w]}
  BY DEF RoundInv, RequestTypes, InFlight, NamesInv, DataTypes
<1>2. PICK R \in SUBSET players'[zone[w]] : \E s \in SetToSeqs(R) :
        rows' = [rows EXCEPT ![w] = s]
  OBVIOUS
<1>3. PICK s \in SetToSeqs(R) : rows' = [rows EXCEPT ![w] = s]
  BY <1>2
<1>4. IsFiniteSet(R)
  BY <1>1, FS_Subset, ServerAssumption
<1>5. s \in [1..Cardinality(R) -> R] /\ Cardinality(R) \in Nat
  BY <1>4, FS_CardinalityType DEF SetToSeqs
<1>6. s \in Seq(Uid) /\ \A i \in DOMAIN s : s[i] \in R
  BY <1>1, <1>5
<1>7. rows'[w] = s /\ rows' \in [Workers -> Seq(Uid)]
  BY <1>3, <1>6 DEF NamesInv, DataTypes
<1>8. DataTypes'
  BY <1>1, <1>3, <1>7 DEF NamesInv, DataTypes, RequestTypes, InFlight
<1>9. EarlyTaints'
  BY <1>1 DEF NamesInv, EarlyTaints, InFlight, RequestTypes
<1>10. PlayersNamed'
  <2>1. ASSUME ~tainted[zone[w]]
        PROVE  ~BeforeReset(zone[w]) /\ Named(zone[w], uid[w])
    BY <1>1, <2>1
    DEF NamesInv, EarlyTaints, RequestsNamed, RequestNamed, RoundInv, OutsideReset,
        Promised
  <2>2. ASSUME NEW z \in Zone, ~tainted[z], NEW u \in players'[z]
        PROVE  Named(z, u)'
    <3>1. CASE z = zone[w]
      BY <1>1, <2>1, <2>2, <3>1 DEF NamesInv, PlayersNamed, Named
    <3>2. CASE z # zone[w]
      BY <1>1, <2>2, <3>2 DEF NamesInv, PlayersNamed, Named, DataTypes
    <3>3. QED
      BY <3>1, <3>2
  <2>3. ASSUME NEW z \in Zone, ~tainted[z], BeforeReset(z)',
               Emptied'
        PROVE  players'[z] = {}
    <3>1. z # zone[w]
      BY <2>1, <2>3 DEF BeforeReset
    <3>2. QED
      BY <2>3, <3>1 DEF NamesInv, PlayersNamed, BeforeReset, DataTypes, Emptied
  <2>4. QED
    BY <2>2, <2>3 DEF PlayersNamed
<1>11. ASSUME NEW v \in Workers, InFlight(v)'
       PROVE  RequestNamed(v)'
  <2>1. RequestNamed(v) /\ zone[v] \in Zone
    BY <1>1, <1>11 DEF NamesInv, RequestsNamed, InFlight, RequestTypes
  <2>2. CASE v # w
    BY <1>1, <2>1, <2>2 DEF RequestNamed, Named, NamesInv, DataTypes, RequestTypes
  <2>3. CASE v = w
    <3>1. SUFFICES ASSUME ~tainted[zone[w]] PROVE RequestNamed(w)'
      BY <2>3 DEF RequestNamed
    <3>2. \A i \in DOMAIN s : user_infos[zone[w]][s[i]] = "named"
      BY <1>1, <1>6, <1>10, <3>1 DEF PlayersNamed, Named
    <3>3. RequestNamed(w)
      BY <2>1, <2>3
    <3>4. QED
      BY <1>1, <1>7, <3>1, <3>2, <3>3 DEF RequestNamed, Named
  <2>4. QED
    BY <2>2, <2>3
<1>12. RequestsNamed'
  BY <1>11 DEF RequestsNamed
<1>13. QED
  BY <1>8, <1>9, <1>10, <1>12 DEF NamesInv

(* A name that is looked for and missed, or read. *)
LEMMA ReadNames ==
  ASSUME NamesInv, RoundInv, NEW w \in Workers, FindMiss(w) \/ ReadUserInfo(w)
  PROVE  NamesInv'
<1>1. /\ InFlight(w) /\ wpc[w] \in {"find", "read"} /\ zone[w] \in Zone
      /\ rows[w] \in Seq(Uid) /\ rows[w] # <<>>
  BY DEF FindMiss, ReadUserInfo, Step, InFlight, NamesInv, DataTypes, RoundInv,
         RequestTypes
<1>2. Head(rows[w]) \in Uid /\ 1 \in DOMAIN rows[w] /\ Head(rows[w]) = rows[w][1]
  BY <1>1
<1>3. ~tainted[zone[w]] => Named(zone[w], Head(rows[w]))
  BY <1>1, <1>2 DEF NamesInv, RequestsNamed, RequestNamed
<1>4. CASE FindMiss(w)
  <2>1. tainted[zone[w]]
    BY <1>3, <1>4 DEF FindMiss, Found, Named
  <2>2. user_infos' = user_infos
    BY <1>4 DEF FindMiss, FindAndUnlock
  <2>3. QED
    BY <1>1, <1>4, <2>1, <2>2, PushNames
    DEF FindMiss, Step, schedVars, Named, NamesInv, DataTypes
<1>5. CASE ReadUserInfo(w)
  <2>1. user_infos' = [user_infos EXCEPT
                         ![zone[w]][Head(rows[w])] = Read(zone[w], Head(rows[w]))]
    BY <1>5 DEF ReadUserInfo, ReadUnlocked, Store
  <2>2. Named(zone[w], Head(rows[w])) => Read(zone[w], Head(rows[w])) = "named"
    BY DEF Named, Read, Found
  <2>3. Read(zone[w], Head(rows[w])) \in {"named", "blank"}
    BY <1>1, <1>2 DEF Read, Found, NamesInv, DataTypes
  <2>4. user_infos' \in [Zone -> [Uid -> {"absent", "named", "blank"}]]
    BY <1>1, <1>2, <2>1, <2>3 DEF NamesInv, DataTypes
  <2>5. ASSUME NEW z \in Zone, NEW u \in Uid, Named(z, u)
        PROVE  user_infos'[z][u] = "named"
    <3>1. CASE z = zone[w] /\ u = Head(rows[w])
      BY <1>1, <1>2, <2>1, <2>2, <2>5, <3>1 DEF NamesInv, DataTypes
    <3>2. CASE z # zone[w] \/ u # Head(rows[w])
      BY <1>1, <1>2, <2>1, <2>5, <3>2 DEF Named, NamesInv, DataTypes
    <3>3. QED
      BY <3>1, <3>2
  <2>6. QED
    BY <1>1, <1>3, <1>5, <2>2, <2>4, <2>5, PushNames
    DEF ReadUserInfo, Step, schedVars, Named
<1>6. QED
  BY <1>4, <1>5

LEMMA EndNames ==
  ASSUME NamesInv, RoundInv, NEW w \in Workers, Finish(w),
         UNCHANGED <<dbVars, user_infos>>
  PROVE  NamesInv'
<1> USE DEF Finish, dbVars, schedVars
<1>1. RequestTypes
  BY DEF RoundInv
<1>2. <<>> \in Seq(Uid)
  OBVIOUS
<1>3. DataTypes'
  BY <1>1, <1>2 DEF NamesInv, DataTypes, RequestTypes, InFlight
<1>4. EarlyTaints'
  BY <1>1 DEF NamesInv, EarlyTaints, RequestTypes, InFlight
<1>5. PlayersNamed'
  BY DEF NamesInv, PlayersNamed, Named, BeforeReset, Emptied
<1>6. ASSUME NEW v \in Workers, InFlight(v)'
      PROVE  RequestNamed(v)'
  BY <1>1, <1>6
  DEF NamesInv, DataTypes, RequestsNamed, RequestNamed, RequestTypes, InFlight, Named
<1>7. QED
  BY <1>3, <1>4, <1>5, <1>6 DEF NamesInv, RequestsNamed

LEMMA ArrivalNames ==
  ASSUME NamesInv, RoundInv, NEW w \in Workers, NEW u \in Uid \cup {NoUid},
         NEW z, Accept(w, u, z)
  PROVE  NamesInv'
<1> USE DEF Accept, Step, schedVars, tables
<1>1. RequestTypes /\ BeforeReset(z) \in BOOLEAN
  BY DEF RoundInv, BeforeReset
<1>2. tainted' = [tainted EXCEPT ![z] = tainted[z] \/ BeforeReset(z)]
      /\ \A y \in Zone : tainted[y] => tainted'[y]
  BY <1>1 DEF NamesInv, DataTypes
<1>3. tainted' \in [Zone -> BOOLEAN]
  BY <1>1 DEF NamesInv, DataTypes
<1>4. DataTypes'
  BY <1>1, <1>3 DEF NamesInv, DataTypes, RequestTypes, InFlight
<1>5. EarlyTaints'
  BY <1>1, <1>2 DEF NamesInv, DataTypes, EarlyTaints, RequestTypes, InFlight
<1>6. PlayersNamed'
  BY <1>2 DEF NamesInv, PlayersNamed, Named, BeforeReset, Emptied
<1>7. ASSUME NEW v \in Workers, InFlight(v)'
      PROVE  RequestNamed(v)'
  BY <1>1, <1>2, <1>7
  DEF NamesInv, DataTypes, RequestsNamed, RequestNamed, RequestTypes, InFlight, Named
<1>8. QED
  BY <1>4, <1>5, <1>6, <1>7 DEF NamesInv, RequestsNamed

LEMMA HandlerNames ==
  ASSUME NamesInv, RoundInv, NEW w \in Workers, handler(w)
  PROVE  NamesInv'
<1> USE DEF Step, schedVars, dbVars, WorkerSteps, InFlight
<1>1. CASE AddBet(w)
  BY <1>1, NamesUntouched DEF AddBet, add_bet_credit
<1>2. CASE LockToSet(w) \/ LockToFind(w)
  BY <1>2, NamesUntouched DEF LockToSet, LockToFind, Lock
<1>3. CASE FindHit(w)
  BY <1>3, NamesUntouched DEF FindHit, FindAndUnlock, NamesInv, DataTypes
<1>4. CASE RowsDone(w)
  BY <1>4, NamesUntouched DEF RowsDone, tables
<1>5. CASE QueryThrows(w) \/ Reply(w)
  BY <1>5, EndNames DEF QueryThrows, Reply, ForgetBet
<1>6. CASE QueryNull(w) \/ ReadCrashes(w)
  BY <1>6
  DEF QueryNull, ReadCrashes, tables, reqVars, NamesInv, DataTypes, EarlyTaints,
      PlayersNamed, RequestsNamed, RequestNamed, Named, BeforeReset, Emptied
<1>7. QED
  BY <1>1, <1>2, <1>3, <1>4, <1>5, <1>6, SetNames, QueryNames, ReadNames
  DEF handler

(* A step that changes no name, no player and no request. *)
LEMMA QuietNames ==
  ASSUME NamesInv,
         UNCHANGED <<wpc, uid, zone, rows, blanks, early, dbVars, user_infos>>,
         wiped => spc' = "sql",
         \A z \in Zone : BeforeReset(z)' /\ Emptied' => BeforeReset(z) /\ Emptied
  PROVE  NamesInv'
<1> USE DEF dbVars
<1>1. DataTypes' /\ EarlyTaints'
  BY DEF NamesInv, DataTypes, EarlyTaints, InFlight
<1>2. PlayersNamed'
  BY DEF NamesInv, PlayersNamed, Named
<1>3. RequestsNamed'
  BY DEF NamesInv, RequestsNamed, RequestNamed, InFlight, Named
<1>4. QED
  BY <1>1, <1>2, <1>3 DEF NamesInv

(* The reset procedure empties the tables, or its statement fails. *)
LEMMA DatabaseNames ==
  ASSUME NamesInv, RoundInv, DatabaseReset \/ DatabaseResetFails
  PROVE  NamesInv'
<1>1. /\ spc = "sql"
      /\ UNCHANGED <<wpc, uid, zone, rows, blanks, early, user_infos>>
      /\ \A z \in Zone : BeforeReset(z)
  BY DEF DatabaseReset, DatabaseResetFails, ResetStatementEnds, Goto, tables,
         reqVars, BeforeReset
<1>0. wiped' \in BOOLEAN /\ (wiped' => spc' = "sql")
  <2>1. CASE DatabaseReset
    BY <1>1, <2>1 DEF DatabaseReset, schedVars
  <2>2. CASE DatabaseResetFails
    BY <2>2 DEF DatabaseResetFails, NamesInv, DataTypes
  <2>3. QED
    BY <2>1, <2>2
<1>2. ASSUME NEW w \in Workers, InFlight(w)
      PROVE  tainted'[zone[w]]
  <2>1. zone[w] \in Zone
    BY DEF RoundInv, RequestTypes
  <2>2. early[w]
    BY <1>1, <1>2, <2>1 DEF RoundInv, OutsideReset, Promised
  <2>3. Taint(zone[w])
    BY <1>2, <2>2 DEF Taint
  <2>4. QED
    BY <2>1, <2>3 DEF DatabaseReset, DatabaseResetFails
<1>3. players' \in [Zone -> SUBSET Uid] /\ tainted' \in [Zone -> BOOLEAN]
  <2>1. \A z \in Zone : Taint(z) \in BOOLEAN
    BY DEF Taint
  <2>2. QED
    BY <2>1 DEF DatabaseReset, DatabaseResetFails, NamesInv, DataTypes
<1>4. DataTypes'
  BY <1>1, <1>0, <1>3 DEF NamesInv, DataTypes, InFlight
<1>5. EarlyTaints' /\ RequestsNamed'
  BY <1>1, <1>2 DEF EarlyTaints, RequestsNamed, RequestNamed, InFlight
<1>6. PlayersNamed'
  <2>1. CASE DatabaseReset
    BY <2>1 DEF DatabaseReset, PlayersNamed
  <2>2. CASE DatabaseResetFails
    BY <2>2 DEF DatabaseResetFails, PlayersNamed
  <2>3. QED
    BY <2>1, <2>2
<1>7. QED
  BY <1>4, <1>5, <1>6 DEF NamesInv

(* The reset statement returns. *)
LEMMA ReturnNames ==
  ASSUME NamesInv, DatabaseResetReturns
  PROVE  NamesInv'
<1> USE DEF DatabaseResetReturns, ResetStatementEnds, Goto, tables, reqVars
<1>1. DataTypes' /\ EarlyTaints'
  BY DEF NamesInv, DataTypes, EarlyTaints, InFlight
<1>2. PlayersNamed'
  BY DEF NamesInv, PlayersNamed, Named, BeforeReset, Emptied
<1>3. RequestsNamed'
  BY DEF NamesInv, RequestsNamed, RequestNamed, InFlight, Named
<1>4. QED
  BY <1>1, <1>2, <1>3 DEF NamesInv

(* The table of names is cleared when nobody has played since the database *)
(* was. *)
LEMMA ClearNames ==
  ASSUME NamesInv, RoundInv, ResetClear, ClearAndUnlock(cursor),
         UNCHANGED <<reqVars, dbVars>>
  PROVE  NamesInv'
<1> USE DEF ResetClear, ClearAndUnlock, Goto, reqVars, dbVars
<1>1. cursor \in Zone /\ BeforeReset(cursor)
  BY DEF RoundInv, TimeInv, TimeTypes, Zone, BeforeReset
<1>2. user_infos' \in [Zone -> [Uid -> {"absent", "named", "blank"}]]
  BY <1>1 DEF NamesInv, DataTypes, NoInfos
<1>3. DataTypes' /\ EarlyTaints'
  BY <1>2 DEF NamesInv, DataTypes, EarlyTaints, InFlight
<1>4. \A z \in Zone \ {cursor} : user_infos'[z] = user_infos[z]
  BY DEF NamesInv, DataTypes
<1>5. PlayersNamed'
  <2>1. ASSUME NEW z \in Zone, ~tainted[z], BeforeReset(z)'
        PROVE  players[z] = {}
    BY <2>1 DEF NamesInv, PlayersNamed, BeforeReset, Emptied
  <2>2. ~tainted[cursor] => players[cursor] = {}
    BY <1>1 DEF NamesInv, PlayersNamed, Emptied
  <2>3. ASSUME NEW z \in Zone, ~tainted[z], NEW u \in players[z]
        PROVE  user_infos'[z][u] = "named"
    BY <1>4, <2>2, <2>3 DEF NamesInv, PlayersNamed, Named
  <2>4. QED
    BY <2>1, <2>3 DEF PlayersNamed, Named
<1>6. ASSUME NEW v \in Workers, InFlight(v), ~tainted[zone[v]]
      PROVE  zone[v] \in Zone \ {cursor}
  BY <1>1, <1>6
  DEF NamesInv, EarlyTaints, RoundInv, RequestTypes, OutsideReset, Promised
<1>7. RequestsNamed'
  BY <1>4, <1>6 DEF NamesInv, RequestsNamed, RequestNamed, InFlight, Named
<1>8. QED
  BY <1>3, <1>5, <1>7 DEF NamesInv

LEMMA SchedulerNames ==
  ASSUME NamesInv, RoundInv, scheduler
  PROVE  NamesInv'
<1> USE DEF Goto
<1>1. CASE DatabaseReset \/ DatabaseResetFails
  BY <1>1, DatabaseNames
<1>2. CASE SchedulerTerminates
  BY <1>2, QuietNames
  DEF SchedulerTerminates, ResetStatementUnavailable, tables, reqVars, dbVars,
      BeforeReset, Emptied
<1>0. CASE DatabaseResetReturns
  BY <1>0, ReturnNames
<1>3. CASE TournamentReset
  <2>1. CASE ResetLock /\ Lock(cursor, Sched)
    BY <1>3, <2>1, QuietNames
    DEF TournamentReset, ResetLock, Lock, reqVars, dbVars, BeforeReset, Emptied,
        NamesInv, DataTypes
  <2>2. CASE ResetClear /\ ClearAndUnlock(cursor)
    BY <1>3, <2>2, ClearNames DEF TournamentReset
  <2>3. CASE ResetZero /\ ZeroBets(cursor)
    <3>1. UNCHANGED <<reqVars, dbVars, user_infos>>
      BY <1>3, <2>3 DEF TournamentReset, ZeroBets
    <3>2. \A z \in Zone : BeforeReset(z)' => BeforeReset(z)
      BY <2>3 DEF ResetZero, BeforeReset, Zone, RoundInv, TimeInv, TimeTypes
    <3>3. QED
      BY <2>3, <3>1, <3>2, QuietNames
      DEF ResetZero, reqVars, dbVars, Emptied, NamesInv, DataTypes
  <2>4. QED
    BY <1>3, <2>1, <2>2, <2>3 DEF TournamentReset
<1>4. CASE SchedulerRuns
  BY <1>4, QuietNames
  DEF SchedulerRuns, ReadClock, ArmBreak, CloseForBreak, WakeFromBreak, StartReset,
      Reopen, Resume, ReadClockAgain, ArmPlay, WakeFromPlay, tables, reqVars, dbVars,
      BeforeReset, Emptied, Zone, NamesInv, DataTypes
<1>5. QED
  BY <1>1, <1>2, <1>0, <1>3, <1>4 DEF scheduler

LEMMA NamesInvNext ==
  NamesInv /\ RoundInv /\ [Next]_serverVars => NamesInv'
<1> SUFFICES ASSUME NamesInv, RoundInv, [Next]_serverVars PROVE NamesInv'
  OBVIOUS
<1>1. CASE UNCHANGED serverVars
  BY <1>1, QuietNames
  DEF serverVars, schedVars, tables, reqVars, dbVars, BeforeReset, Emptied, NamesInv,
      DataTypes
<1>2. CASE TimePasses
  <2>1. UNCHANGED <<spc, cursor>>
    BY <1>2 DEF TimePasses, Tick, TickAsleep, TickInStatement, TickRunning,
                SecondPasses
  <2>2. QED
    BY <1>2, <2>1, QuietNames
    DEF TimePasses, tables, dbVars, BeforeReset, Emptied, NamesInv, DataTypes
<1>3. ASSUME NEW w \in Workers, NEW u \in Uid \cup {NoUid}, NEW z, arrive(w, u, z)
      PROVE  NamesInv'
  BY <1>1, <1>3, ArrivalNames DEF arrive, Refuse, UnknownZone
<1>4. QED
  BY <1>1, <1>2, <1>3, HandlerNames, SchedulerNames DEF Next

(* The name that a request without a taint has found is still there when it *)
(* reads it: it never inserts.                                              *)
ReadsFind ==
  \A w \in Workers :
    wpc[w] = "read" /\ ~early[w] => Found(zone[w], Head(rows[w]))

(* A step of request w that does not bring it to its read, and removes no   *)
(* key.                                                                     *)
LEMMA ReadsKept ==
  ASSUME ReadsFind, NamesInv, RoundInv, NEW w \in Workers, NEW s \in WorkerSteps \ {"read"},
         wpc' = [wpc EXCEPT ![w] = s],
         \A v \in Workers \ {w} :
           zone'[v] = zone[v] /\ early'[v] = early[v] /\ rows'[v] = rows[v],
         \A z \in Zone, u \in Uid : Found(z, u) => Found(z, u)'
  PROVE  ReadsFind'
<1> SUFFICES ASSUME NEW v \in Workers, wpc'[v] = "read", ~early'[v]
             PROVE  Found(zone[v], Head(rows[v]))'
  BY DEF ReadsFind
<1>1. v # w /\ wpc[v] = "read"
  BY DEF RoundInv, RequestTypes
<1>2. zone[v] \in Zone /\ rows[v] \in Seq(Uid) /\ rows[v] # <<>>
  BY <1>1 DEF RoundInv, RequestTypes, NamesInv, DataTypes
<1>3. Head(rows[v]) \in Uid
  BY <1>2
<1>4. Found(zone[v], Head(rows[v]))
  BY <1>1 DEF ReadsFind
<1>5. QED
  BY <1>1, <1>2, <1>3, <1>4 DEF Found

(* Only a reset removes names, and no reset comes to a tournament in which  *)
(* a request without a taint is under way.                                  *)
LEMMA SchedulerReads ==
  ASSUME ReadsFind, NamesInv, RoundInv, scheduler
  PROVE  ReadsFind'
<1>1. UNCHANGED <<wpc, zone, early, rows>>
  BY DEF scheduler, DatabaseReset, DatabaseResetReturns, DatabaseResetFails,
         SchedulerTerminates, TournamentReset, SchedulerRuns, reqVars
<1>2. CASE ResetClear /\ ClearAndUnlock(cursor)
  <2>1. ASSUME NEW w \in Workers, wpc[w] = "read", ~early[w]
        PROVE  zone[w] \in Zone /\ zone[w] # cursor
    <3>1. zone[w] \in Zone /\ ~BeforeReset(zone[w])
      BY <2>1 DEF RoundInv, RequestTypes, OutsideReset, Promised, InFlight
    <3>2. spc = "clear" /\ cursor \in Zone
      BY <1>2 DEF ResetClear, Goto, RoundInv, TimeInv, TimeTypes
    <3>3. QED
      BY <3>1, <3>2 DEF BeforeReset, Zone
  <2>2. \A z \in Zone \ {cursor} : user_infos'[z] = user_infos[z]
    BY <1>2 DEF ClearAndUnlock, NamesInv, DataTypes
  <2>3. QED
    BY <1>1, <2>1, <2>2 DEF ReadsFind, Found
<1>3. CASE UNCHANGED user_infos
  BY <1>1, <1>3 DEF ReadsFind, Found
<1>4. QED
  BY <1>2, <1>3
  DEF scheduler, DatabaseReset, DatabaseResetReturns, DatabaseResetFails,
      SchedulerTerminates, TournamentReset, SchedulerRuns, tables, Lock, ZeroBets

LEMMA HandlerReads ==
  ASSUME ReadsFind, NamesInv, RoundInv, NEW w \in Workers, handler(w)
  PROVE  ReadsFind'
<1> USE DEF Step, WorkerSteps
<1>1. RequestTypes /\ zone[w] \in Zone
  BY DEF RoundInv, RequestTypes
<1>2. CASE SetUserInfo(w)
  <2>1. \A z \in Zone, u \in Uid : Found(z, u) => Found(z, u)'
    BY <1>2 DEF SetUserInfo, SetAndUnlock, Store, Found, NamesInv, DataTypes
  <2>2. QED
    BY <1>2, <2>1, ReadsKept DEF SetUserInfo
<1>3. CASE ReadUserInfo(w)
  <2>1. Read(zone[w], Head(rows[w])) # "absent"
    BY DEF Read, Found
  <2>2. \A z \in Zone, u \in Uid : Found(z, u) => Found(z, u)'
    BY <1>3, <2>1 DEF ReadUserInfo, ReadUnlocked, Store, Found, NamesInv, DataTypes
  <2>3. \A v \in Workers \ {w} : rows'[v] = rows[v]
    BY <1>3 DEF ReadUserInfo, PushRow, NamesInv, DataTypes
  <2>4. QED
    BY <1>3, <2>2, <2>3, ReadsKept DEF ReadUserInfo
<1>4. CASE FindHit(w)
  BY <1>1, <1>4 DEF FindHit, FindAndUnlock, ReadsFind, Found, RequestTypes
<1>5. CASE AddBet(w) \/ LockToSet(w) \/ LockToFind(w) \/ RowsDone(w)
  <2>1. UNCHANGED user_infos
    BY <1>5
    DEF AddBet, LockToSet, LockToFind, RowsDone, add_bet_credit, Lock, tables
  <2>2. QED
    BY <1>5, <2>1, ReadsKept DEF AddBet, LockToSet, LockToFind, RowsDone, Found
<1>6. CASE Query(w) \/ FindMiss(w)
  <2>1. UNCHANGED user_infos
    BY <1>6 DEF Query, FindMiss, FindAndUnlock, tables
  <2>2. \A v \in Workers \ {w} : rows'[v] = rows[v]
    BY <1>6 DEF Query, FindMiss, PushRow, NamesInv, DataTypes
  <2>3. QED
    BY <1>6, <2>1, <2>2, ReadsKept DEF Query, FindMiss, Found
<1>7. CASE QueryThrows(w) \/ Reply(w)
  <2>1. UNCHANGED user_infos
    BY <1>7 DEF QueryThrows, Reply, ForgetBet
  <2>2. /\ wpc' = [wpc EXCEPT ![w] = "idle"]
        /\ \A v \in Workers \ {w} :
             zone'[v] = zone[v] /\ early'[v] = early[v] /\ rows'[v] = rows[v]
    BY <1>1, <1>7
    DEF QueryThrows, Reply, Finish, RequestTypes, NamesInv, DataTypes
  <2>3. QED
    BY <2>1, <2>2, ReadsKept DEF Found
<1>8. CASE QueryNull(w) \/ ReadCrashes(w)
  BY <1>8 DEF QueryNull, ReadCrashes, tables, reqVars, ReadsFind, Found
<1>9. QED
  BY <1>2, <1>3, <1>4, <1>5, <1>6, <1>7, <1>8 DEF handler

LEMMA ReadsFindNext ==
  ReadsFind /\ NamesInv /\ RoundInv /\ [Next]_serverVars => ReadsFind'
<1> SUFFICES ASSUME ReadsFind, NamesInv, RoundInv, [Next]_serverVars
             PROVE  ReadsFind'
  OBVIOUS
<1>1. CASE UNCHANGED serverVars
  BY <1>1 DEF serverVars, reqVars, tables, ReadsFind, Found
<1>2. CASE TimePasses
  BY <1>2 DEF TimePasses, tables, ReadsFind, Found
<1>3. ASSUME NEW w \in Workers, NEW u, NEW z, Accept(w, u, z)
      PROVE  ReadsFind'
  BY <1>3, ReadsKept
  DEF Accept, Step, tables, WorkerSteps, Found, RoundInv, RequestTypes
<1>4. QED
  BY <1>1, <1>2, <1>3, HandlerReads, SchedulerReads
  DEF Next, arrive, Refuse, UnknownZone

(* A tournament's map is changed by one thread at a time, be it a request   *)
(* that stores a name, get_user_info that inserts one without the lock, or  *)
(* the reset, for any number of threads and tournaments: no request but one *)
(* accepted before its reset was over ever comes to insert.                 *)
THEOREM MutualExclusion == Spec => []WritersExclude
<1>1. LockInv /\ ReadsFind => WritersExclude
  <2> SUFFICES ASSUME LockInv, ReadsFind PROVE WritersExclude
    OBVIOUS
  <2>1. \A w \in Workers : Inserts(w) => early[w]
    BY DEF ReadsFind, Inserts
  <2>2. QED
    BY <2>1, ServerAssumption
    DEF LockInv, LockTypes, HandlersOwn, SchedulerOwns, WritersExclude, Changes,
        Uses, Sections
<1>2. Init => LockInv /\ RoundInv /\ NamesInv /\ ReadsFind
  <2>1. Init => ReadsFind
    BY DEF Init, ReadsFind
  <2>2. QED
    BY <2>1, LockInvInit, RoundInvInit, NamesInvInit
<1>3. /\ LockInv /\ RoundInv /\ NamesInv /\ ReadsFind /\ [Next]_serverVars
      => (LockInv /\ RoundInv /\ NamesInv /\ ReadsFind)'
  BY LockInvNext, RoundInvNext, NamesInvNext, ReadsFindNext
<1>4. QED
  BY <1>1, <1>2, <1>3, PTL DEF Spec

(* Every row of a reply has a name, except in the tournaments that are      *)
(* tainted, for any number of threads, users and tournaments and any timing *)
(* within TimingAssumption.                                                 *)
THEOREM RowsHaveNames == Spec => []RowsAreNamed
<1>1. NamesInv => RowsAreNamed
  BY DEF NamesInv, RequestsNamed, RequestNamed, RowsAreNamed
<1>2. Init => RoundInv /\ NamesInv
  BY RoundInvInit, NamesInvInit
<1>3. RoundInv /\ NamesInv /\ [Next]_serverVars => (RoundInv /\ NamesInv)'
  BY RoundInvNext, NamesInvNext
<1>4. QED
  BY <1>1, <1>2, <1>3, PTL DEF Spec

(* What the proofs above do not need to know. *)
OtherTypes == resets \in Nat /\ up \in BOOLEAN

LEMMA OtherTypesNext == OtherTypes /\ [Next]_serverVars => OtherTypes'
<1> SUFFICES ASSUME OtherTypes, [Next]_serverVars PROVE OtherTypes'
  OBVIOUS
<1> USE DEF OtherTypes, schedVars, Goto
<1>1. CASE UNCHANGED serverVars
  BY <1>1 DEF serverVars
<1>2. CASE TimePasses
  BY <1>2
  DEF TimePasses, Tick, TickAsleep, TickInStatement, TickRunning, SecondPasses
<1>3. ASSUME NEW w \in Workers, handler(w)
      PROVE  OtherTypes'
  BY <1>3
  DEF handler, AddBet, LockToSet, SetUserInfo, Query, QueryThrows, QueryNull,
      LockToFind, FindHit, FindMiss, ReadUserInfo, ReadCrashes, RowsDone, Reply,
      Step, Finish
<1>4. ASSUME NEW w \in Workers, NEW u, NEW z, arrive(w, u, z)
      PROVE  OtherTypes'
  BY <1>1, <1>4 DEF arrive, Refuse, UnknownZone, Accept, Step
<1>5. CASE \/ DatabaseReset \/ DatabaseResetReturns
           \/ DatabaseResetFails \/ SchedulerTerminates
  BY <1>5
  DEF DatabaseReset, DatabaseResetReturns, DatabaseResetFails, SchedulerTerminates,
      ResetStatementEnds, ResetStatementUnavailable
<1>6. CASE TournamentReset
  BY <1>6 DEF TournamentReset, ResetLock, ResetClear, ResetZero
<1>7. CASE SchedulerRuns
  BY <1>7
  DEF SchedulerRuns, ReadClock, ArmBreak, CloseForBreak, WakeFromBreak, StartReset,
      Reopen, Resume, ReadClockAgain, ArmPlay, WakeFromPlay
<1>8. QED
  BY <1>1, <1>2, <1>3, <1>4, <1>5, <1>6, <1>7 DEF Next, scheduler

(* The variables have their types. *)
THEOREM TypesOK == Spec => []TypeOK
<1> DEFINE TInv == LockInv /\ RoundInv /\ NamesInv /\ OtherTypes
<1>1. TInv => TypeOK
  <2> SUFFICES ASSUME TInv PROVE TypeOK
    OBVIOUS
  <2>1. SchedTypeOK
    BY DEF RoundInv, TimeInv, TimeTypes, OtherTypes, SchedTypeOK, Zone
  <2>2. TableTypeOK(Workers \cup {Sched})
    <3>1. lock \in [Zone -> (Workers \cup {Sched}) \cup {Nobody}]
      BY DEF LockInv, LockTypes
    <3>2. QED
      BY <3>1 DEF RoundInv, RequestTypes, NamesInv, DataTypes, TableTypeOK
  <2>3. QED
    BY <2>1, <2>2 DEF RoundInv, RequestTypes, NamesInv, DataTypes, TypeOK
<1>2. Init => TInv
  <2>1. Init => OtherTypes
    BY DEF Init, SchedInit, OtherTypes
  <2>2. QED
    BY <2>1, RoundInvInit, NamesInvInit, LockInvInit
<1>3. TInv /\ [Next]_serverVars => TInv'
  BY RoundInvNext, NamesInvNext, LockInvNext, OtherTypesNext
<1> HIDE DEF TInv
<1>4. QED
  BY <1>1, <1>2, <1>3, PTL DEF Spec

=============================================================================
