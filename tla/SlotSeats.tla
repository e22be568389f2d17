------------------------------ MODULE SlotSeats ------------------------------
(***************************************************************************)
(* The slots and who sits at them: slot_md (slot_md.cpp), seat_req and     *)
(* spin_req (handler/slot_info.cpp) that call it, and of a slot (slot.cpp) *)
(* its timestamp and the map of its paytable.                              *)
(*                                                                         *)
(* A slot can be given to a player when nobody has spun it for a minute.   *)
(* get_slot_id looks for such a slot under the mutex m; get_slot and spin  *)
(* use neither m nor any other lock, and every use of the clock is two     *)
(* steps, get_now() and what is done with its result.  Keys of the map     *)
(* count from 0.  Seats at another type of slot than classic, of which     *)
(* there are none, are not asked for.                                      *)
(***************************************************************************)
EXTENDS Integers, FiniteSets

CONSTANTS
  Slots,     \* slots made by slot_md::init (10 in the code)
  MaxId,     \* bound: the largest id a client asks for
  Players,   \* clients, with one spin at a time each
  Nobody,    \* no client
  SeatTime,  \* a minute, in steps of the clock
  MaxTime,   \* bound: the last time the clock shows
  Word       \* values of a size_t (2^64 in the code)

ASSUME SeatsAssumption ==
  /\ Slots \in Nat
  /\ MaxId \in Nat
  /\ Nobody \notin Players
  /\ SeatTime \in Nat \ {0}
  /\ MaxTime \in Nat
  /\ Word \in Nat /\ MaxTime < Word

VARIABLES
  clock,      \* the steady clock
  slots,      \* slots_: "absent", "slot", or "null" for a null slot_ptr
  inserting,  \* the keys that a get_slot is putting into the map: at most one
  timestamp,  \* timestamp_ of each slot
  scattered,  \* paytable_ of the slot has an entry for Scatter
  asker,      \* the player whose seat_req holds m, or Nobody
  apc,        \* where it is in get_slot_id
  cursor,     \* the key it is at
  asked,      \* what get_now() gave it
  spc,        \* where each player's spin is
  spun,       \* its slot
  snow,       \* what get_now() gave it
  seat,       \* the slot each player was given last, or NoSlot
  active,     \* history: the timestamp that the player last gave his slot
  lapsed,     \* history: that timestamp has been SeatTime old in this seat
  raced,      \* history: two threads had read the clock for this seat at once
  strayed,    \* history: a client spun another slot than it was given
  doubled,    \* history: a slot was given while another held or spun it
  up          \* the process has not crashed

mapVars == <<slots, inserting>>
slotVars == <<timestamp, scattered>>
seatVars == <<asker, apc, cursor, asked>>
spinVars == <<spc, spun, snow>>
playerVars == <<seat, active, lapsed, raced>>
vars == <<clock, mapVars, slotVars, seatVars, spinVars, playerVars,
          strayed, doubled, up>>

Id == 0..MaxId
NoSlot == -1
Time == 0..MaxTime

TypeOK ==
  /\ clock \in Time
  /\ slots \in [Id -> {"absent", "slot", "null"}]
  /\ inserting \in SUBSET Id
  /\ timestamp \in [Id -> Time]
  /\ scattered \in [Id -> BOOLEAN]
  /\ asker \in Players \cup {Nobody}
  /\ apc \in {"idle", "look", "compare", "update", "store"}
  /\ cursor \in 0..(MaxId + 1)
  /\ asked \in Time
  /\ spc \in [Players -> {"idle", "store", "credit", "insert"}]
  /\ spun \in [Players -> Id \cup {NoSlot}]
  /\ snow \in [Players -> Time]
  /\ seat \in [Players -> Id \cup {NoSlot}]
  /\ active \in [Players -> Time]
  /\ lapsed \in [Players -> BOOLEAN]
  /\ raced \in [Players -> BOOLEAN]
  /\ strayed \in BOOLEAN /\ doubled \in BOOLEAN /\ up \in BOOLEAN

(* slot_md::init.  The clock counts from the start of the machine.          *)
Init ==
  /\ clock \in Time
  /\ slots = [i \in Id |-> IF i < Slots THEN "slot" ELSE "absent"]
  /\ inserting = {}
  /\ timestamp = [i \in Id |-> 0]
  /\ scattered = [i \in Id |-> FALSE]
  /\ asker = Nobody /\ apc = "idle" /\ cursor = 0 /\ asked = 0
  /\ spc = [p \in Players |-> "idle"]
  /\ spun = [p \in Players |-> NoSlot]
  /\ snow = [p \in Players |-> 0]
  /\ seat = [p \in Players |-> NoSlot]
  /\ active = [p \in Players |-> 0]
  /\ lapsed = [p \in Players |-> FALSE]
  /\ raced = [p \in Players |-> FALSE]
  /\ strayed = FALSE /\ doubled = FALSE /\ up = TRUE

slots_size == Cardinality({i \in Id : slots[i] # "absent"})

(* A spin of slot i is between get_now() and the store of its result. *)
Storing(i) == \E q \in Players : spc[q] = "store" /\ spun[q] = i

(* What raced becomes when one more thread reads the clock for slot i. *)
Race(i, other) ==
  raced' = [p \in Players |-> raced[p] \/ (other /\ seat[p] = i)]

-----------------------------------------------------------------------------
(* seat_req: get_slot_id *)

(* The mutex is taken and the loop over the map begins. *)
SeatReq(p) ==
  /\ up /\ asker = Nobody
  /\ asker' = p
  /\ apc' = "look"
  /\ cursor' = 0
  /\ UNCHANGED <<clock, mapVars, slotVars, asked, spinVars, playerVars,
                 strayed, doubled, up>>

At(state) == up /\ apc = "look" /\ cursor \in Id /\ slots[cursor] = state

(* is_seat() reads the clock ... *)
LookAtClock ==
  /\ At("slot")
  /\ asked' = clock
  /\ apc' = "compare"
  /\ Race(cursor, Storing(cursor))
  /\ UNCHANGED <<clock, mapVars, slotVars, asker, cursor, spinVars, seat,
                 active, lapsed, strayed, doubled, up>>

(* ... then the timestamp: their difference is unsigned. *)
Elapsed == (asked - timestamp[cursor]) % Word

(* Somebody has spun this slot within the minute. *)
SkipSlot ==
  /\ up /\ apc = "compare"
  /\ Elapsed < SeatTime
  /\ cursor' = cursor + 1
  /\ asked' = 0
  /\ apc' = "look"
  /\ UNCHANGED <<clock, mapVars, slotVars, asker, spinVars, playerVars,
                 strayed, doubled, up>>

ChooseSlot ==
  /\ up /\ apc = "compare"
  /\ Elapsed >= SeatTime
  /\ apc' = "update"
  /\ UNCHANGED <<clock, mapVars, slotVars, asker, cursor, asked, spinVars,
                 playerVars, strayed, doubled, up>>

(* get_type() of a null slot_ptr *)
NullSlot ==
  /\ At("null")
  /\ up' = FALSE
  /\ UNCHANGED <<clock, mapVars, slotVars, seatVars, spinVars, playerVars,
                 strayed, doubled>>

(* update_timestamp() reads the clock again ... *)
UpdateTimestamp ==
  /\ up /\ apc = "update"
  /\ asked' = clock
  /\ apc' = "store"
  /\ UNCHANGED <<clock, mapVars, slotVars, asker, cursor, spinVars,
                 playerVars, strayed, doubled, up>>

Leave == asker' = Nobody /\ apc' = "idle" /\ cursor' = 0 /\ asked' = 0

(* The slot becomes the asker's. *)
Sit ==
  /\ seat' = [seat EXCEPT ![asker] = cursor]
  /\ active' = [active EXCEPT ![asker] = asked]
  /\ lapsed' = [lapsed EXCEPT ![asker] = (clock - asked >= SeatTime)]
  /\ raced' = [raced EXCEPT ![asker] = Storing(cursor)]
  /\ doubled' =
       (doubled \/ \E q \in Players :
                     \/ q # asker /\ seat[q] = cursor
                     \/ spc[q] # "idle" /\ spun[q] = cursor)

(* Wrong on purpose: the timestamp is left to the first spin. *)
GrantUntouched ==
  /\ up /\ apc = "store"
  /\ Sit
  /\ Leave
  /\ UNCHANGED <<clock, mapVars, slotVars, spinVars, strayed, up>>

(* ... and stores it, and the id goes to the player. *)
GrantSlot ==
  /\ up /\ apc = "store"
  /\ timestamp' = [timestamp EXCEPT ![cursor] = asked]
  /\ Sit
  /\ Leave
  /\ UNCHANGED <<clock, mapVars, scattered, spinVars, strayed, up>>

(* Wrong on purpose: the reply is the key behind the last. *)
NoSeatButSize ==
  /\ up /\ apc = "look"
  /\ cursor \in Id => slots[cursor] = "absent"
  /\ seat' = [seat EXCEPT ![asker] = slots_size]
  /\ Leave
  /\ UNCHANGED <<clock, mapVars, slotVars, spinVars, active, lapsed, raced,
                 strayed, doubled, up>>

(* The end of the map: the reply is -1. *)
NoSeat ==
  /\ up /\ apc = "look"
  /\ cursor \in Id => slots[cursor] = "absent"
  /\ Leave
  /\ UNCHANGED <<clock, mapVars, slotVars, spinVars, playerVars, strayed,
                 doubled, up>>

-----------------------------------------------------------------------------
(* spin_req with an id chosen by the client: get_slot *)

(* Wrong on purpose: the comparison is signed. *)
PastEndSigned(id) == id > slots_size

(* id > slots_.size(), compared as unsigned numbers: every negative id is   *)
(* past the end.                                                            *)
PastEnd(id) == id < 0 \/ id > slots_size

(* A request of a player who waits for no other spin. *)
Request(p, id) ==
  /\ up /\ spc[p] = "idle"
  /\ strayed' = (strayed \/ id # seat[p])

(* nullptr, and an empty reply. *)
SpinPastEnd(p, id) ==
  /\ Request(p, id)
  /\ PastEnd(id)
  /\ UNCHANGED <<clock, mapVars, slotVars, seatVars, spinVars, playerVars,
                 doubled, up>>

(* The slot is there: spin() begins with update_timestamp(), which reads    *)
(* the clock ...                                                            *)
SpinSlot(p, id) ==
  /\ Request(p, id)
  /\ ~PastEnd(id)
  /\ id \in Id /\ slots[id] = "slot"
  /\ spc' = [spc EXCEPT ![p] = "store"]
  /\ spun' = [spun EXCEPT ![p] = id]
  /\ snow' = [snow EXCEPT ![p] = clock]
  /\ Race(id, Storing(id) \/ (apc = "compare" /\ cursor = id))
  /\ UNCHANGED <<clock, mapVars, slotVars, seatVars, seat, active, lapsed,
                 doubled, up>>

(* The null slot_ptr of an earlier request is found: an empty reply. *)
SpinNull(p, id) ==
  /\ Request(p, id)
  /\ ~PastEnd(id)
  /\ id \in Id /\ slots[id] = "null"
  /\ UNCHANGED <<clock, mapVars, slotVars, seatVars, spinVars, playerVars,
                 doubled, up>>

(* slots_[id] of a missing key, which the comparison lets through for id =  *)
(* size(), inserts a null slot_ptr.                                         *)
SpinInserts(p, id) ==
  /\ Request(p, id)
  /\ inserting = {}
  /\ ~PastEnd(id)
  /\ id \in Id => slots[id] = "absent"
  /\ inserting' = {id}
  /\ UNCHANGED <<clock, slots, slotVars, seatVars, spinVars, playerVars,
                 doubled, up>>

Inserted ==
  /\ up /\ inserting # {}
  /\ slots' = [i \in Id |-> IF i \in inserting THEN "null" ELSE slots[i]]
  /\ inserting' = {}
  /\ UNCHANGED <<clock, slotVars, seatVars, spinVars, playerVars, strayed,
                 doubled, up>>

(* A thread that uses the map during the insertion may see anything. *)
InsertionRace ==
  /\ up /\ inserting # {}
  /\ up' = FALSE
  /\ UNCHANGED <<clock, mapVars, slotVars, seatVars, spinVars, playerVars,
                 strayed, doubled>>

-----------------------------------------------------------------------------
(* spin() of a slot that is there *)

(* ... and stores it. *)
StoreTimestamp(p) ==
  /\ up /\ spc[p] = "store"
  /\ timestamp' = [timestamp EXCEPT ![spun[p]] = snow[p]]
  /\ active' = [active EXCEPT ![p] = IF seat[p] = spun[p] THEN snow[p] ELSE @]
  /\ snow' = [snow EXCEPT ![p] = 0]
  /\ spc' = [spc EXCEPT ![p] = "credit"]
  /\ UNCHANGED <<clock, mapVars, scattered, seatVars, spun, seat, lapsed,
                 raced, strayed, doubled, up>>

(* get_credit of a line with the Scatter, which no add_paytable names:      *)
(* paytable_[symbol] inserts it.                                            *)
ScatterLine(p) ==
  /\ up /\ spc[p] = "credit"
  /\ ~scattered[spun[p]]
  /\ spc' = [spc EXCEPT ![p] = "insert"]
  /\ UNCHANGED <<clock, mapVars, slotVars, seatVars, spun, snow, playerVars,
                 strayed, doubled, up>>

ScatterInserted(p) ==
  /\ up /\ spc[p] = "insert"
  /\ scattered' = [scattered EXCEPT ![spun[p]] = TRUE]
  /\ spc' = [spc EXCEPT ![p] = "credit"]
  /\ UNCHANGED <<clock, mapVars, timestamp, seatVars, spun, snow, playerVars,
                 strayed, doubled, up>>

(* The lines have their credits and the reply is written. *)
SpinEnds(p) ==
  /\ up /\ spc[p] = "credit"
  /\ spc' = [spc EXCEPT ![p] = "idle"]
  /\ spun' = [spun EXCEPT ![p] = NoSlot]
  /\ UNCHANGED <<clock, mapVars, slotVars, seatVars, snow, playerVars,
                 strayed, doubled, up>>

(* Every slot has a paytable_ of its own.  A thread that uses the map       *)
(* during an insertion may see anything.                                    *)
PaytableRace(p, q) ==
  /\ up /\ p # q
  /\ spc[p] = "insert" /\ spc[q] \in {"credit", "insert"}
  /\ spun[p] = spun[q]
  /\ up' = FALSE
  /\ UNCHANGED <<clock, mapVars, slotVars, seatVars, spinVars, playerVars,
                 strayed, doubled>>

-----------------------------------------------------------------------------
Tick ==
  /\ up /\ clock < MaxTime
  /\ clock' = clock + 1
  /\ lapsed' = [p \in Players |->
                  \/ lapsed[p]
                  \/ seat[p] # NoSlot /\ clock' - active[p] >= SeatTime]
  /\ UNCHANGED <<mapVars, slotVars, seatVars, spinVars, seat, active, raced,
                 strayed, doubled, up>>

get_slot_id ==
  \/ LookAtClock \/ SkipSlot \/ ChooseSlot \/ NullSlot
  \/ UpdateTimestamp \/ GrantSlot \/ NoSeat

spin_req(p, id) ==
  SpinPastEnd(p, id) \/ SpinSlot(p, id) \/ SpinNull(p, id) \/ SpinInserts(p, id)

spin(p) ==
  StoreTimestamp(p) \/ ScatterLine(p) \/ ScatterInserted(p) \/ SpinEnds(p)

Next ==
  \/ \E p \in Players :
       \/ SeatReq(p)
       \/ \E id \in Id \cup {NoSlot} : spin_req(p, id)
       \/ spin(p)
       \/ \E q \in Players : PaytableRace(p, q)
  \/ get_slot_id
  \/ Inserted \/ InsertionRace
  \/ Tick
  \/ ~up /\ UNCHANGED vars   \* the process has crashed

Spec == Init /\ [][Next]_vars

(* Threads that are at work go on. *)
FairSpec == Spec /\ WF_vars(get_slot_id) /\ \A p \in Players : WF_vars(spin(p))

-----------------------------------------------------------------------------
(* A seat is kept by spinning: two players are at the same slot only if one *)
(* of them let the slot's timestamp get a minute old after it was given it, *)
(* or two threads were at once between get_now() and the use of its result  *)
(* for that slot.  Neither the spins, whose timestamps may be those of      *)
(* strangers, nor the second look at the clock before a slot is given need  *)
(* the mutex for that.                                                      *)
SeatsExclusive ==
  \A p, q \in Players :
    p # q /\ seat[p] = seat[q] /\ seat[p] # NoSlot =>
      \E r \in {p, q} : lapsed[r] \/ raced[r]

(* Clients that spin the slots they were given, or the -1 they were given   *)
(* when there was none, bring the server down only after a slot was given   *)
(* to somebody while another still held it or was still spinning it: then   *)
(* two spins may meet in the paytable of the slot, where the first Scatter  *)
(* is inserted without a lock.                                              *)
OnlyStraysCrash == ~up => strayed \/ doubled

(* What is_seat() says when it calls a slot one that can be chosen: nobody  *)
(* has spun it for a minute.  A spin between its two reads makes the        *)
(* unsigned difference of the times a huge one.                             *)
SelectableIsQuiet ==
  [][ChooseSlot => clock - timestamp[cursor] >= SeatTime]_vars

=============================================================================
