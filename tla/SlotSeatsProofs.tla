--------------------------- MODULE SlotSeatsProofs ---------------------------
(***************************************************************************)
(* Proofs about the slots and who sits at them, for any number of slots    *)
(* and players, any ids, any length of the minute and any width of the     *)
(* clock.                                                                  *)
(***************************************************************************)
EXTENDS SlotSeats, TLAPS

(* What has been read from the clock is not ahead of it. *)
ClockBehind ==
  /\ asked <= clock
  /\ \A i \in Id : timestamp[i] <= clock
  /\ \A p \in Players : snow[p] <= clock /\ active[p] <= clock

(* p sits at slot i and is to keep it. *)
Safe(p, i) == seat[p] = i /\ ~lapsed[p] /\ ~raced[p]

(* The timestamp of a slot is never older than the player's own, nor is one *)
(* about to be stored by a spin; the spin stores alone.                     *)
SeatFresh ==
  \A p \in Players, i \in Id : Safe(p, i) =>
    /\ clock - active[p] < SeatTime
    /\ active[p] <= timestamp[i]
    /\ \A q \in Players : spc[q] = "store" /\ spun[q] = i =>
         /\ active[p] <= snow[q]
         /\ \A r \in Players : spc[r] = "store" /\ spun[r] = i => r = q

(* Between the look at the clock and the comparison the timestamp stays     *)
(* behind the time asked for, and no spin is about to store another.        *)
LookIsFresh ==
  apc = "compare" =>
    /\ cursor \in Id
    /\ \A p \in Players : Safe(p, cursor) =>
         timestamp[cursor] <= asked /\ ~Storing(cursor)

(* A slot about to be given away is nobody's, from the comparison on. *)
GrantIsFree ==
  apc \in {"update", "store"} =>
    /\ asker \in Players /\ cursor \in Id
    /\ \A p \in Players : ~Safe(p, cursor)

(* The inductive invariant behind SeatsExclusive. *)
SeatsInv ==
  /\ TypeOK
  /\ apc # "idle" => asker \in Players
  /\ \A p \in Players : spc[p] # "idle" => spun[p] \in Id
  /\ ClockBehind
  /\ SeatFresh
  /\ LookIsFresh
  /\ GrantIsFree
  /\ SeatsExclusive

-----------------------------------------------------------------------------
(* A difference that does not underflow is the time that went by. *)
LEMMA NoUnderflow ==
  ASSUME NEW a \in Time, NEW t \in Time, t <= a
  PROVE  (a - t) % Word = a - t
<1>1. a - t \in Nat /\ a - t < Word
  BY SeatsAssumption DEF Time
<1>2. QED
  BY <1>1, SeatsAssumption

LEMMA SeatsInit == Init => SeatsInv
<1> SUFFICES ASSUME Init PROVE SeatsInv
  OBVIOUS
<1> USE SeatsAssumption DEF Init, Time, Id
<1>1. TypeOK
  <2>1. /\ slots \in [Id -> {"absent", "slot", "null"}]
        /\ inserting \in SUBSET Id
        /\ scattered \in [Id -> BOOLEAN]
        /\ asker \in Players \cup {Nobody}
        /\ apc \in {"idle", "look", "compare", "update", "store"}
    OBVIOUS
  <2>2. 0 \in Time /\ 0 \in 0..(MaxId + 1) /\ clock \in Time
    OBVIOUS
  <2>3. /\ timestamp \in [Id -> Time] /\ cursor \in 0..(MaxId + 1)
        /\ asked \in Time
        /\ snow \in [Players -> Time] /\ active \in [Players -> Time]
    BY <2>2
  <2>4. /\ spc \in [Players -> {"idle", "store", "credit", "insert"}]
        /\ spun \in [Players -> Id \cup {NoSlot}]
        /\ seat \in [Players -> Id \cup {NoSlot}]
    OBVIOUS
  <2>5. /\ lapsed \in [Players -> BOOLEAN] /\ raced \in [Players -> BOOLEAN]
        /\ strayed \in BOOLEAN /\ doubled \in BOOLEAN /\ up \in BOOLEAN
    OBVIOUS
  <2>6. QED
    BY <2>1, <2>2, <2>3, <2>4, <2>5 DEF TypeOK
<1>2. ClockBehind
  BY DEF ClockBehind
<1>3. \A p \in Players, i \in Id : ~Safe(p, i)
  BY DEF Safe, NoSlot
<1>4. SeatFresh /\ LookIsFresh /\ GrantIsFree
  BY <1>3 DEF SeatFresh, LookIsFresh, GrantIsFree
<1>5. SeatsExclusive
  BY DEF SeatsExclusive
<1>6. QED
  BY <1>1, <1>2, <1>4, <1>5 DEF SeatsInv

(* A step that touches neither the clock nor what was read from it, and     *)
(* begins no spin, keeps all but the types.                                 *)
LEMMA SeatsKept ==
  ASSUME SeatsInv, TypeOK',
         UNCHANGED <<clock, timestamp, seatVars, snow, playerVars>>,
         \A p \in Players :
           /\ spc'[p] # "idle" => spun'[p] \in Id
           /\ spc'[p] = "store" => spc[p] = "store" /\ spun'[p] = spun[p]
  PROVE  SeatsInv'
<1> USE DEF seatVars, playerVars
<1>1. ClockBehind'
  BY DEF SeatsInv, ClockBehind
<1>2. \A p \in Players, i \in Id : Safe(p, i)' <=> Safe(p, i)
  BY DEF Safe
<1>3. SeatFresh'
  <2>1. SUFFICES ASSUME NEW p \in Players, NEW i \in Id, Safe(p, i)
                 PROVE  /\ clock - active[p] < SeatTime
                        /\ active[p] <= timestamp[i]
                        /\ \A q \in Players : spc'[q] = "store" /\ spun'[q] = i =>
                             /\ active[p] <= snow[q]
                             /\ \A r \in Players :
                                  spc'[r] = "store" /\ spun'[r] = i => r = q
    BY <1>2 DEF SeatFresh
  <2>2. \A q \in Players :
          spc'[q] = "store" /\ spun'[q] = i => spc[q] = "store" /\ spun[q] = i
    OBVIOUS
  <2>3. QED
    BY <2>1, <2>2 DEF SeatsInv, SeatFresh
<1>4. \A i \in Id : Storing(i)' => Storing(i)
  BY DEF Storing
<1>5. LookIsFresh' /\ GrantIsFree'
  BY <1>2, <1>4 DEF SeatsInv, LookIsFresh, GrantIsFree
<1>6. SeatsExclusive'
  BY DEF SeatsInv, SeatsExclusive
<1>7. QED
  BY <1>1, <1>3, <1>5, <1>6 DEF SeatsInv

(* The steps of get_slot_id but the last. *)
LEMMA SeatsLook ==
  ASSUME SeatsInv,
         \/ \E p \in Players : SeatReq(p)
         \/ LookAtClock \/ SkipSlot \/ ChooseSlot \/ NullSlot
         \/ UpdateTimestamp \/ NoSeat
  PROVE  SeatsInv'
<1> USE SeatsAssumption
    DEF SeatsInv, TypeOK, ClockBehind, SeatFresh, LookIsFresh, GrantIsFree,
        SeatsExclusive, Safe, Storing, mapVars, slotVars, seatVars, spinVars,
        playerVars, Id, NoSlot, Time, At, Leave
<1>1. ASSUME NEW p \in Players, SeatReq(p) PROVE SeatsInv'
  BY <1>1 DEF SeatReq
<1>2. CASE LookAtClock
  <2>1. /\ raced' = [p \in Players |-> raced[p] \/ (Storing(cursor) /\ seat[p] = cursor)]
        /\ asked' = clock /\ apc' = "compare" /\ cursor \in Id /\ apc = "look"
        /\ UNCHANGED <<clock, mapVars, slotVars, asker, cursor, spinVars, seat,
                       active, lapsed, strayed, doubled, up>>
    BY <1>2 DEF LookAtClock, Race
  <2>2. TypeOK'
    <3>1. raced' \in [Players -> BOOLEAN]
      BY <2>1
    <3>2. QED
      BY <2>1, <3>1
  <2>3. ClockBehind'
    BY <2>1
  <2>4. \A p \in Players : raced[p] => raced'[p]
    BY <2>1
  <2>5. SeatFresh' /\ SeatsExclusive' /\ GrantIsFree'
    <3>1. \A p \in Players, i \in Id : Safe(p, i)' => Safe(p, i)
      BY <2>1, <2>4
    <3>2. SeatFresh'
      BY <2>1, <3>1
    <3>3. SeatsExclusive'
      BY <2>1, <2>4
    <3>4. GrantIsFree'
      BY <2>1
    <3>5. QED
      BY <3>2, <3>3, <3>4
  <2>6. LookIsFresh'
    BY <2>1, <2>4
  <2>7. QED
    BY <2>1, <2>2, <2>3, <2>5, <2>6
<1>3. CASE SkipSlot
  BY <1>3 DEF SkipSlot
<1>4. CASE ChooseSlot
  <2>1. /\ Elapsed >= SeatTime /\ apc = "compare" /\ apc' = "update"
        /\ UNCHANGED <<clock, mapVars, slotVars, asker, cursor, asked,
                       spinVars, playerVars, strayed, doubled, up>>
    BY <1>4 DEF ChooseSlot
  <2>2. ASSUME NEW p \in Players, Safe(p, cursor) PROVE FALSE
    <3>1. cursor \in Id /\ timestamp[cursor] <= asked
      BY <2>1, <2>2
    <3>2. timestamp[cursor] \in Time /\ asked \in Time
      BY <3>1
    <3>3. Elapsed = asked - timestamp[cursor]
      BY <3>1, <3>2, NoUnderflow DEF Elapsed
    <3>4. active[p] <= timestamp[cursor] /\ active[p] \in Time /\ clock \in Time
      BY <2>2, <3>1
    <3>5. clock - active[p] >= SeatTime
      BY <2>1, <3>1, <3>2, <3>3, <3>4
    <3>6. QED
      BY <2>2, <3>1, <3>4, <3>5
  <2>3. GrantIsFree'
    BY <2>1, <2>2
  <2>4. QED
    BY <2>1, <2>3
<1>5. CASE NullSlot
  <2>1. /\ up' = FALSE
        /\ UNCHANGED <<clock, mapVars, slotVars, seatVars, spinVars,
                       playerVars, strayed, doubled>>
    BY <1>5 DEF NullSlot
  <2>2. TypeOK'
    BY <2>1
  <2>3. QED
    BY <2>1, <2>2, SeatsKept
<1>6. CASE UpdateTimestamp
  BY <1>6 DEF UpdateTimestamp
<1>7. CASE NoSeat
  BY <1>7 DEF NoSeat
<1>8. QED
  BY <1>1, <1>2, <1>3, <1>4, <1>5, <1>6, <1>7

(* The slot is given away. *)
LEMMA SeatsGrant ==
  ASSUME SeatsInv, GrantSlot
  PROVE  SeatsInv'
<1> USE SeatsAssumption
    DEF SeatsInv, TypeOK, ClockBehind, mapVars, spinVars, Id, NoSlot, Time
<1>1. /\ apc = "store" /\ asker \in Players /\ cursor \in Id
      /\ timestamp' = [timestamp EXCEPT ![cursor] = asked]
      /\ seat' = [seat EXCEPT ![asker] = cursor]
      /\ active' = [active EXCEPT ![asker] = asked]
      /\ lapsed' = [lapsed EXCEPT ![asker] = (clock - asked >= SeatTime)]
      /\ raced' = [raced EXCEPT ![asker] = Storing(cursor)]
      /\ asker' = Nobody /\ apc' = "idle" /\ cursor' = 0 /\ asked' = 0
      /\ UNCHANGED <<clock, slots, inserting, scattered, spc, spun, snow,
                     strayed, up>>
  BY DEF GrantSlot, Sit, Leave, GrantIsFree
<1>2. TypeOK'
  <2>1. /\ timestamp' \in [Id -> Time] /\ active' \in [Players -> Time]
        /\ seat' \in [Players -> Id \cup {NoSlot}]
    BY <1>1
  <2>2. /\ lapsed' \in [Players -> BOOLEAN] /\ raced' \in [Players -> BOOLEAN]
        /\ doubled' \in BOOLEAN
    BY <1>1 DEF GrantSlot, Sit, Storing
  <2>3. cursor' \in 0..(MaxId + 1) /\ asked' \in Time
    BY <1>1
  <2>4. QED
    BY <1>1, <2>1, <2>2, <2>3
<1>3. ClockBehind'
  BY <1>1
<1>4. ASSUME NEW p \in Players, NEW i \in Id, Safe(p, i)'
      PROVE  /\ clock' - active'[p] < SeatTime
             /\ active'[p] <= timestamp'[i]
             /\ \A q \in Players : spc'[q] = "store" /\ spun'[q] = i =>
                  /\ active'[p] <= snow'[q]
                  /\ \A r \in Players : spc'[r] = "store" /\ spun'[r] = i => r = q
  <2>1. CASE p = asker
    <3>1. i = cursor /\ ~Storing(cursor) /\ active'[p] = asked /\ timestamp'[i] = asked
      BY <1>1, <1>4, <2>1 DEF Safe
    <3>2. ~(clock - asked >= SeatTime)
      BY <1>1, <1>4, <2>1 DEF Safe
    <3>3. asked \in Int /\ clock \in Int /\ SeatTime \in Int
      OBVIOUS
    <3>4. clock' - active'[p] < SeatTime
      BY <1>1, <3>1, <3>2, <3>3
    <3>5. active'[p] <= timestamp'[i]
      BY <3>1, <3>3
    <3>6. QED
      BY <1>1, <3>1, <3>4, <3>5 DEF Storing
  <2>2. CASE p # asker
    <3>1. Safe(p, i) /\ active'[p] = active[p]
      BY <1>1, <1>4, <2>2 DEF Safe
    <3>2. i # cursor
      BY <1>1, <3>1 DEF GrantIsFree
    <3>3. QED
      BY <1>1, <3>1, <3>2 DEF SeatFresh
  <2>3. QED
    BY <2>1, <2>2
<1>5. SeatsExclusive'
  BY <1>1 DEF SeatsExclusive, GrantIsFree, Safe
<1>6. LookIsFresh' /\ GrantIsFree'
  BY <1>1 DEF LookIsFresh, GrantIsFree
<1>7. SeatFresh'
  BY <1>4 DEF SeatFresh
<1>8. QED
  BY <1>1, <1>2, <1>3, <1>5, <1>6, <1>7

(* A spin reads the clock, or ends before it does. *)
LEMMA SeatsSpinReq ==
  ASSUME SeatsInv, NEW p \in Players, NEW id \in Id \cup {NoSlot},
         spin_req(p, id)
  PROVE  SeatsInv'
<1> USE SeatsAssumption
    DEF SeatsInv, TypeOK, ClockBehind, SeatFresh, LookIsFresh, GrantIsFree,
        SeatsExclusive, Safe, Storing, mapVars, slotVars, seatVars, spinVars,
        playerVars, Id, NoSlot, Time, Request
<1>1. CASE SpinPastEnd(p, id) \/ SpinNull(p, id)
  <2>1. /\ strayed' \in BOOLEAN
        /\ UNCHANGED <<clock, mapVars, slotVars, seatVars, spinVars, playerVars,
                       doubled, up>>
    BY <1>1 DEF SpinPastEnd, SpinNull
  <2>2. TypeOK'
    BY <2>1
  <2>3. QED
    BY <2>1, <2>2, SeatsKept
<1>2. CASE SpinInserts(p, id)
  <2>1. inserting' = {id} /\ id \in Id /\ strayed' \in BOOLEAN
    BY <1>2 DEF SpinInserts, PastEnd
  <2>2. UNCHANGED <<clock, slots, slotVars, seatVars, spinVars, playerVars,
                    doubled, up>>
    BY <1>2 DEF SpinInserts
  <2>3. TypeOK'
    BY <2>1, <2>2
  <2>4. QED
    BY <2>2, <2>3, SeatsKept
<1>3. CASE SpinSlot(p, id)
  <2>1. /\ id \in Id /\ spc[p] = "idle" /\ strayed' \in BOOLEAN
        /\ spc' = [spc EXCEPT ![p] = "store"]
        /\ spun' = [spun EXCEPT ![p] = id]
        /\ snow' = [snow EXCEPT ![p] = clock]
        /\ UNCHANGED <<clock, mapVars, slotVars, seatVars, seat, active,
                       lapsed, doubled, up>>
    BY <1>3 DEF SpinSlot
  <2>2. raced' = [q \in Players |->
                    \/ raced[q]
                    \/ /\ Storing(id) \/ (apc = "compare" /\ cursor = id)
                       /\ seat[q] = id]
    BY <1>3 DEF SpinSlot, Race
  <2>3. TypeOK'
    <3>1. raced' \in [Players -> BOOLEAN]
      BY <2>2
    <3>2. QED
      BY <2>1, <3>1
  <2>4. \A q \in Players : raced[q] => raced'[q]
    BY <2>2
  <2>5. \A q \in Players, i \in Id : Safe(q, i)' => Safe(q, i)
    BY <2>1, <2>4
  <2>6. \A q \in Players : Safe(q, id)' =>
          ~Storing(id) /\ ~(apc = "compare" /\ cursor = id)
    BY <2>1, <2>2
  <2>7. ClockBehind'
    BY <2>1
  <2>8. SeatFresh'
    <3>1. SUFFICES ASSUME NEW q \in Players, NEW i \in Id, Safe(q, i)',
                          NEW r \in Players, spc'[r] = "store", spun'[r] = i
                   PROVE  /\ active[q] <= snow'[r]
                          /\ \A t \in Players :
                               spc'[t] = "store" /\ spun'[t] = i => t = r
      <4>1. \A q \in Players, i \in Id : Safe(q, i)' =>
              clock' - active'[q] < SeatTime /\ active'[q] <= timestamp'[i]
        BY <2>1, <2>5
      <4>2. active' = active
        BY <2>1
      <4>3. QED
        BY <4>1, <4>2 DEF SeatFresh
    <3>2. CASE i = id
      BY <2>1, <2>6, <3>1, <3>2
    <3>3. CASE i # id
      BY <2>1, <2>5, <3>1, <3>3
    <3>4. QED
      BY <3>2, <3>3
  <2>9. LookIsFresh'
    BY <2>1, <2>5, <2>6
  <2>10. GrantIsFree'
    BY <2>1, <2>5
  <2>11. SeatsExclusive'
    BY <2>1, <2>4
  <2>12. \A q \in Players : spc'[q] # "idle" => spun'[q] \in Id
    BY <2>1
  <2>13. QED
    BY <2>1, <2>3, <2>7, <2>8, <2>9, <2>10, <2>11, <2>12
<1>4. QED
  BY <1>1, <1>2, <1>3 DEF spin_req

(* What a spin does to its slot, and the insertions into the two maps. *)
LEMMA SeatsSpin ==
  ASSUME SeatsInv,
         \/ \E p \in Players : spin(p)
         \/ \E p, q \in Players : PaytableRace(p, q)
         \/ Inserted \/ InsertionRace
  PROVE  SeatsInv'
<1> USE SeatsAssumption
    DEF SeatsInv, TypeOK, ClockBehind, SeatFresh, LookIsFresh, GrantIsFree,
        SeatsExclusive, Safe, Storing, mapVars, slotVars, seatVars, spinVars,
        playerVars, Id, NoSlot, Time
<1>1. ASSUME NEW p \in Players, StoreTimestamp(p) PROVE SeatsInv'
  <2>1. /\ spc[p] = "store" /\ spun[p] \in Id
        /\ timestamp' = [timestamp EXCEPT ![spun[p]] = snow[p]]
        /\ active' = [active EXCEPT ![p] = IF seat[p] = spun[p] THEN snow[p] ELSE @]
        /\ snow' = [snow EXCEPT ![p] = 0]
        /\ spc' = [spc EXCEPT ![p] = "credit"]
        /\ UNCHANGED <<clock, mapVars, scattered, seatVars, spun, seat, lapsed,
                       raced, strayed, doubled, up>>
    BY <1>1 DEF StoreTimestamp
  <2>2. TypeOK'
    <3>1. 0 \in Time /\ snow[p] \in Time
      OBVIOUS
    <3>2. /\ timestamp' \in [Id -> Time] /\ active' \in [Players -> Time]
          /\ snow' \in [Players -> Time]
      BY <2>1, <3>1
    <3>3. spc' \in [Players -> {"idle", "store", "credit", "insert"}]
      BY <2>1
    <3>4. QED
      BY <2>1, <3>2, <3>3
  <2>3. ClockBehind'
    BY <2>1
  <2>4. SeatFresh'
    <3>1. SUFFICES ASSUME NEW q \in Players, NEW i \in Id, Safe(q, i)
                   PROVE  /\ clock - active'[q] < SeatTime
                          /\ active'[q] <= timestamp'[i]
                          /\ \A r \in Players : spc'[r] = "store" /\ spun[r] = i =>
                               /\ active'[q] <= snow'[r]
                               /\ \A t \in Players :
                                    spc'[t] = "store" /\ spun[t] = i => t = r
      BY <2>1
    <3>2. CASE i = spun[p]
      <4>1. active[q] <= snow[p] /\ \A r \in Players : ~(spc'[r] = "store" /\ spun[r] = i)
        BY <2>1, <3>1, <3>2
      <4>2. active'[q] = active[q] \/ active'[q] = snow[p]
        BY <2>1
      <4>3. timestamp'[i] = snow[p]
        BY <2>1, <3>2
      <4>4. clock - active[q] < SeatTime
        BY <3>1
      <4>5. /\ clock \in Int /\ active[q] \in Int /\ snow[p] \in Int
            /\ SeatTime \in Int
        OBVIOUS
      <4>6. CASE active'[q] = active[q]
        BY <4>1, <4>3, <4>4, <4>6
      <4>7. CASE active'[q] = snow[p]
        <5>1. clock - snow[p] < SeatTime
          BY <4>1, <4>4, <4>5
        <5>2. QED
          BY <4>1, <4>3, <4>5, <4>7, <5>1
      <4>8. QED
        BY <4>2, <4>6, <4>7
    <3>3. CASE i # spun[p]
      <4>1. active'[q] = active[q] /\ timestamp'[i] = timestamp[i]
        BY <2>1, <3>1, <3>3
      <4>2. clock - active[q] < SeatTime /\ active[q] <= timestamp[i]
        BY <3>1
      <4>3. ASSUME NEW r \in Players, spc'[r] = "store", spun[r] = i
            PROVE  /\ active'[q] <= snow'[r]
                   /\ \A t \in Players : spc'[t] = "store" /\ spun[t] = i => t = r
        <5>1. r # p /\ snow'[r] = snow[r]
          BY <2>1, <3>3, <4>3
        <5>2. \A t \in Players : spc'[t] = "store" => spc[t] = "store"
          BY <2>1
        <5>3. QED
          BY <3>1, <4>1, <4>3, <5>1, <5>2
      <4>4. QED
        BY <4>1, <4>2, <4>3
    <3>4. QED
      BY <3>2, <3>3
  <2>5. LookIsFresh'
    BY <2>1
  <2>6. GrantIsFree' /\ SeatsExclusive'
    <3>1. GrantIsFree'
      BY <2>1
    <3>2. SeatsExclusive'
      BY <2>1
    <3>3. QED
      BY <3>1, <3>2
  <2>7. \A q \in Players : spc'[q] # "idle" => spun'[q] \in Id
    BY <2>1
  <2>8. QED
    BY <2>1, <2>2, <2>3, <2>4, <2>5, <2>6, <2>7
<1>2. ASSUME NEW p \in Players,
             ScatterLine(p) \/ ScatterInserted(p) \/ SpinEnds(p)
      PROVE  SeatsInv'
  <2>1. /\ spc[p] # "idle"
        /\ \E w \in {"idle", "credit", "insert"} : spc' = [spc EXCEPT ![p] = w]
        /\ \/ spun' = spun
           \/ spun' = [spun EXCEPT ![p] = NoSlot] /\ spc' = [spc EXCEPT ![p] = "idle"]
        /\ UNCHANGED <<clock, mapVars, timestamp, seatVars, snow, playerVars,
                       strayed, doubled, up>>
    BY <1>2 DEF ScatterLine, ScatterInserted, SpinEnds
  <2>2. scattered' \in [Id -> BOOLEAN]
    <3>1. scattered' = scattered \/ scattered' = [scattered EXCEPT ![spun[p]] = TRUE]
      BY <1>2 DEF ScatterLine, ScatterInserted, SpinEnds
    <3>2. QED
      BY <3>1
  <2>3. TypeOK'
    <3>1. spc' \in [Players -> {"idle", "store", "credit", "insert"}]
      BY <2>1
    <3>2. spun' \in [Players -> Id \cup {NoSlot}]
      BY <2>1
    <3>3. QED
      BY <2>1, <2>2, <3>1, <3>2
  <2>4. \A q \in Players :
          /\ spc'[q] # "idle" => spun'[q] \in Id
          /\ spc'[q] = "store" => spc[q] = "store" /\ spun'[q] = spun[q]
    BY <2>1
  <2>5. QED
    BY <2>1, <2>3, <2>4, SeatsKept
<1>3. ASSUME NEW p \in Players, NEW q \in Players, PaytableRace(p, q)
      PROVE  SeatsInv'
  <2>1. /\ up' = FALSE
        /\ UNCHANGED <<clock, mapVars, slotVars, seatVars, spinVars,
                       playerVars, strayed, doubled>>
    BY <1>3 DEF PaytableRace
  <2>2. TypeOK'
    BY <2>1
  <2>3. QED
    BY <2>1, <2>2, SeatsKept
<1>4. CASE Inserted
  <2>1. slots' \in [Id -> {"absent", "slot", "null"}] /\ inserting' = {}
    BY <1>4 DEF Inserted
  <2>2. UNCHANGED <<clock, slotVars, seatVars, spinVars, playerVars, strayed,
                    doubled, up>>
    BY <1>4 DEF Inserted
  <2>3. TypeOK'
    BY <2>1, <2>2
  <2>4. QED
    BY <2>2, <2>3, SeatsKept
<1>5. CASE InsertionRace
  <2>1. /\ up' = FALSE
        /\ UNCHANGED <<clock, mapVars, slotVars, seatVars, spinVars,
                       playerVars, strayed, doubled>>
    BY <1>5 DEF InsertionRace
  <2>2. TypeOK'
    BY <2>1
  <2>3. QED
    BY <2>1, <2>2, SeatsKept
<1>6. QED
  BY <1>1, <1>2, <1>3, <1>4, <1>5 DEF spin

LEMMA SeatsTick ==
  ASSUME SeatsInv, Tick
  PROVE  SeatsInv'
<1> USE SeatsAssumption
    DEF SeatsInv, TypeOK, ClockBehind, mapVars, slotVars, seatVars, spinVars,
        Id, NoSlot, Time
<1>1. /\ clock < MaxTime /\ clock' = clock + 1
      /\ lapsed' = [p \in Players |->
                      \/ lapsed[p]
                      \/ seat[p] # NoSlot /\ clock' - active[p] >= SeatTime]
      /\ UNCHANGED <<mapVars, slotVars, seatVars, spinVars, seat, active, raced,
                     strayed, doubled, up>>
  BY DEF Tick
<1>2. TypeOK'
  <2>1. clock' \in Time
    BY <1>1
  <2>2. lapsed' \in [Players -> BOOLEAN]
    BY <1>1
  <2>3. QED
    BY <1>1, <2>1, <2>2
<1>3. ClockBehind'
  BY <1>1
<1>4. ASSUME NEW p \in Players, NEW i \in Id, Safe(p, i)'
      PROVE  Safe(p, i) /\ clock' - active[p] < SeatTime
  <2>1. seat[p] = i /\ ~raced[p] /\ ~lapsed'[p]
    BY <1>1, <1>4 DEF Safe
  <2>2. ~lapsed[p] /\ ~(clock' - active[p] >= SeatTime)
    BY <1>1, <2>1
  <2>3. clock' \in Int /\ active[p] \in Int
    BY <1>1
  <2>4. QED
    BY <2>1, <2>2, <2>3 DEF Safe
<1>5. SeatFresh'
  BY <1>1, <1>4 DEF SeatFresh
<1>6. LookIsFresh' /\ GrantIsFree'
  BY <1>1, <1>4 DEF LookIsFresh, GrantIsFree, Storing
<1>7. \A p \in Players : lapsed[p] => lapsed'[p]
  BY <1>1
<1>8. SeatsExclusive'
  BY <1>1, <1>7 DEF SeatsExclusive
<1>9. QED
  BY <1>1, <1>2, <1>3, <1>5, <1>6, <1>8

THEOREM SeatsInvariant == Spec => []SeatsInv
<1>1. SeatsInv /\ [Next]_vars => SeatsInv'
  <2>1. CASE UNCHANGED vars
    BY <2>1
    DEF vars, mapVars, slotVars, seatVars, spinVars, playerVars, SeatsInv,
        TypeOK, ClockBehind, SeatFresh, LookIsFresh, GrantIsFree,
        SeatsExclusive, Safe, Storing
  <2>2. QED
    BY <2>1, SeatsLook, SeatsGrant, SeatsSpinReq, SeatsSpin, SeatsTick
    DEF Next, get_slot_id
<1>2. QED
  BY <1>1, SeatsInit, PTL DEF Spec

(* The variables of the slots keep their types. *)
THEOREM SeatsTypeCorrect == Spec => []TypeOK
<1>1. SeatsInv => TypeOK
  BY DEF SeatsInv
<1>2. QED
  BY <1>1, SeatsInvariant, PTL

(* A seat is kept by spinning: it is shared only after one of the two let   *)
(* it lapse, or after two threads had read the clock for it at once.        *)
THEOREM SeatsAreExclusive == Spec => []SeatsExclusive
<1>1. SeatsInv => SeatsExclusive
  BY DEF SeatsInv
<1>2. QED
  BY <1>1, SeatsInvariant, PTL

-----------------------------------------------------------------------------
(* A slot that is sat at or about to be given is one that there is, and     *)
(* only a missing key is ever inserted.                                     *)
SeatsExist ==
  /\ \A i \in inserting : slots[i] = "absent"
  /\ apc \in {"compare", "update", "store"} => slots[cursor] = "slot"
  /\ \A p \in Players : seat[p] # NoSlot => slots[seat[p]] = "slot"

(* While clients spin what they were given and nothing was given twice, no  *)
(* two of them are at the same slot, be it by their seats or by the spins   *)
(* that have not ended.                                                     *)
SeatsApart ==
  ~strayed /\ ~doubled =>
    /\ up /\ inserting = {} /\ \A i \in Id : slots[i] # "null"
    /\ \A p, q \in Players : p # q =>
         /\ seat[p] = seat[q] => seat[p] = NoSlot
         /\ spc[q] # "idle" =>
              seat[p] # spun[q] /\ (spc[p] # "idle" => spun[p] # spun[q])

(* The inductive invariant behind OnlyStraysCrash, under SeatsInv. *)
ApartInv == SeatsExist /\ SeatsApart

LEMMA ApartInit == Init => ApartInv
  BY DEF Init, ApartInv, SeatsExist, SeatsApart

(* A step that changes none of the seats, the map and the spins' slots. *)
LEMMA ApartKept ==
  ASSUME ApartInv,
         UNCHANGED <<mapVars, seat, strayed, doubled, up>>,
         apc' \in {"compare", "update", "store"} =>
           /\ cursor' = cursor
           /\ \/ apc \in {"compare", "update", "store"}
              \/ slots[cursor] = "slot",
         \A p \in Players :
           spc'[p] # "idle" => spc[p] # "idle" /\ spun'[p] = spun[p]
  PROVE  ApartInv'
  BY DEF ApartInv, SeatsExist, SeatsApart, mapVars

LEMMA ApartLook ==
  ASSUME SeatsInv, ApartInv,
         \/ \E p \in Players : SeatReq(p)
         \/ get_slot_id
  PROVE  ApartInv'
<1> USE DEF mapVars, slotVars, seatVars, spinVars, playerVars, At, Leave
<1>1. ASSUME NEW p \in Players, SeatReq(p) PROVE ApartInv'
  BY <1>1, ApartKept DEF SeatReq
<1>2. CASE LookAtClock
  BY <1>2, ApartKept DEF LookAtClock
<1>3. CASE SkipSlot \/ NoSeat
  BY <1>3, ApartKept DEF SkipSlot, NoSeat
<1>4. CASE ChooseSlot \/ UpdateTimestamp
  BY <1>4, ApartKept DEF ChooseSlot, UpdateTimestamp
<1>5. CASE NullSlot
  BY <1>5 DEF NullSlot, ApartInv, SeatsExist, SeatsApart
<1>6. CASE GrantSlot
  <2>1. /\ apc = "store" /\ asker \in Players /\ cursor \in Id
        /\ seat' = [seat EXCEPT ![asker] = cursor] /\ apc' = "idle"
        /\ UNCHANGED <<mapVars, spinVars, strayed, up>>
    BY <1>6 DEF GrantSlot, Sit, SeatsInv, GrantIsFree
  <2>2. ~doubled' =>
          /\ ~doubled
          /\ \A q \in Players :
               /\ q # asker => seat[q] # cursor
               /\ spc[q] # "idle" => spun[q] # cursor
    BY <1>6 DEF GrantSlot, Sit
  <2>3. seat \in [Players -> Id \cup {NoSlot}]
    BY DEF SeatsInv, TypeOK
  <2>4. SeatsExist'
    BY <2>1, <2>3 DEF ApartInv, SeatsExist
  <2>5. SeatsApart'
    BY <2>1, <2>2, <2>3 DEF ApartInv, SeatsApart
  <2>6. QED
    BY <2>4, <2>5 DEF ApartInv
<1>7. QED
  BY <1>1, <1>2, <1>3, <1>4, <1>5, <1>6 DEF get_slot_id

LEMMA ApartSpinReq ==
  ASSUME SeatsInv, ApartInv, NEW p \in Players, NEW id \in Id \cup {NoSlot},
         spin_req(p, id)
  PROVE  ApartInv'
<1> USE DEF mapVars, slotVars, seatVars, spinVars, playerVars, Request
<1>0. /\ spc \in [Players -> {"idle", "store", "credit", "insert"}]
      /\ spun \in [Players -> Id \cup {NoSlot}]
      /\ strayed \in BOOLEAN
  BY DEF SeatsInv, TypeOK
<1>1. CASE SpinPastEnd(p, id) \/ SpinNull(p, id)
  <2>1. UNCHANGED <<mapVars, seatVars, spinVars, seat, doubled, up>>
    BY <1>1 DEF SpinPastEnd, SpinNull
  <2>2. ~strayed' => ~strayed
    BY <1>1 DEF SpinPastEnd, SpinNull
  <2>3. SeatsExist'
    BY <2>1 DEF ApartInv, SeatsExist
  <2>4. SeatsApart'
    BY <2>1, <2>2 DEF ApartInv, SeatsApart
  <2>5. QED
    BY <2>3, <2>4 DEF ApartInv
<1>2. CASE SpinInserts(p, id)
  <2>1. /\ id \in Id /\ slots[id] = "absent" /\ inserting' = {id}
        /\ strayed' = (strayed \/ id # seat[p])
        /\ UNCHANGED <<slots, slotVars, seatVars, spinVars, playerVars, doubled, up>>
    BY <1>2 DEF SpinInserts, PastEnd, NoSlot
  <2>2. id # seat[p]
    BY <2>1 DEF ApartInv, SeatsExist, NoSlot, Id
  <2>3. QED
    BY <2>1, <2>2 DEF ApartInv, SeatsExist, SeatsApart
<1>3. CASE SpinSlot(p, id)
  <2>1. /\ id \in Id
        /\ spc' = [spc EXCEPT ![p] = "store"]
        /\ spun' = [spun EXCEPT ![p] = id]
        /\ strayed' = (strayed \/ id # seat[p])
        /\ UNCHANGED <<mapVars, seatVars, seat, doubled, up>>
    BY <1>3 DEF SpinSlot
  <2>2. SeatsExist'
    BY <2>1 DEF ApartInv, SeatsExist
  <2>3. SUFFICES ASSUME ~strayed', ~doubled PROVE SeatsApart'
    BY <2>1, <2>2 DEF ApartInv, SeatsApart
  <2>4. ~strayed /\ id = seat[p] /\ id # NoSlot
    <3>1. ~strayed /\ id = seat[p]
      BY <2>1, <2>3
    <3>2. id # NoSlot
      BY <2>1, SeatsAssumption DEF Id, NoSlot
    <3>3. QED
      BY <3>1, <3>2
  <2>5. QED
    BY <1>0, <2>1, <2>3, <2>4 DEF ApartInv, SeatsApart
<1>4. QED
  BY <1>1, <1>2, <1>3 DEF spin_req

LEMMA ApartSpin ==
  ASSUME SeatsInv, ApartInv,
         \/ \E p \in Players : spin(p)
         \/ \E p, q \in Players : PaytableRace(p, q)
         \/ Inserted \/ InsertionRace \/ Tick
  PROVE  ApartInv'
<1> USE DEF mapVars, slotVars, seatVars, spinVars, playerVars
<1>0. /\ spc \in [Players -> {"idle", "store", "credit", "insert"}]
      /\ spun \in [Players -> Id \cup {NoSlot}]
      /\ slots \in [Id -> {"absent", "slot", "null"}] /\ inserting \subseteq Id
      /\ cursor \in 0..(MaxId + 1) /\ seat \in [Players -> Id \cup {NoSlot}]
  BY DEF SeatsInv, TypeOK
<1>1. ASSUME NEW p \in Players, spin(p) PROVE ApartInv'
  <2>1. /\ spc[p] # "idle"
        /\ \E w \in {"idle", "credit", "insert"} : spc' = [spc EXCEPT ![p] = w]
        /\ \/ spun' = spun
           \/ spun' = [spun EXCEPT ![p] = NoSlot] /\ spc' = [spc EXCEPT ![p] = "idle"]
        /\ UNCHANGED <<mapVars, seatVars, seat, strayed, doubled, up>>
    BY <1>1 DEF spin, StoreTimestamp, ScatterLine, ScatterInserted, SpinEnds
  <2>2. \A q \in Players :
          spc'[q] # "idle" => spc[q] # "idle" /\ spun'[q] = spun[q]
    BY <1>0, <2>1
  <2>3. QED
    BY <2>1, <2>2, ApartKept
<1>2. ASSUME NEW p \in Players, NEW q \in Players, PaytableRace(p, q)
      PROVE  ApartInv'
  <2>1. strayed \/ doubled
    BY <1>2 DEF PaytableRace, ApartInv, SeatsApart
  <2>2. QED
    BY <1>2, <2>1 DEF PaytableRace, ApartInv, SeatsExist, SeatsApart
<1>3. CASE Inserted
  <2>1. strayed \/ doubled
    BY <1>3 DEF Inserted, ApartInv, SeatsApart
  <2>2. \A i \in Id : slots[i] = "slot" => slots'[i] = "slot"
    BY <1>3 DEF Inserted, ApartInv, SeatsExist
  <2>3. /\ inserting' = {}
        /\ UNCHANGED <<slotVars, seatVars, spinVars, playerVars, strayed, doubled, up>>
    BY <1>3 DEF Inserted
  <2>4. apc \in {"compare", "update", "store"} => cursor \in Id
    BY DEF SeatsInv, LookIsFresh, GrantIsFree
  <2>5. SeatsExist'
    BY <1>0, <2>2, <2>3, <2>4 DEF ApartInv, SeatsExist
  <2>6. SeatsApart'
    BY <2>1, <2>3 DEF SeatsApart
  <2>7. QED
    BY <2>5, <2>6 DEF ApartInv
<1>4. CASE InsertionRace
  BY <1>4 DEF InsertionRace, ApartInv, SeatsExist, SeatsApart
<1>5. CASE Tick
  BY <1>5, ApartKept DEF Tick
<1>6. QED
  BY <1>1, <1>2, <1>3, <1>4, <1>5

(* Clients that spin what they were given bring the server down only after  *)
(* a slot was given while another held or spun it.                          *)
THEOREM CrashesAreStrays == Spec => []OnlyStraysCrash
<1>1. SeatsInv /\ ApartInv /\ [Next]_vars => ApartInv'
  <2>1. CASE UNCHANGED vars
    BY <2>1
    DEF vars, mapVars, slotVars, seatVars, spinVars, playerVars, ApartInv,
        SeatsExist, SeatsApart
  <2>2. QED
    BY <2>1, ApartLook, ApartSpinReq, ApartSpin DEF Next
<1>2. ApartInv => OnlyStraysCrash
  BY DEF ApartInv, SeatsApart, OnlyStraysCrash
<1>3. QED
  BY <1>1, <1>2, ApartInit, SeatsInvariant, PTL DEF Spec

=============================================================================
