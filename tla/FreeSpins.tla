------------------------------ MODULE FreeSpins ------------------------------
(***************************************************************************)
(* The free spins of one classic slot: the two counters that               *)
(* ddslot_classic::spin (slot.cpp) keeps in the slot.                      *)
(*                                                                         *)
(* Nothing locks a slot, so the HTTP threads may be in spin() for the same *)
(* slot together: every read and every write of a counter is a step of its *)
(* own.  The paylines are abstracted to the sequences of Scatter symbols   *)
(* they show, 3, 4 or 5 long; shorter ones change nothing.                 *)
(***************************************************************************)
EXTENDS Integers

CONSTANTS
  Threads,   \* the HTTP threads
  Award,     \* Award[n]: free spins for n Scatters, 10, 15 and 20 in the code
  MaxLines,  \* bound: paylines of a spin with three Scatters or more
  MaxCount   \* bound: no line or spin begins that would count much further

ASSUME FreeSpinsAssumption ==
  /\ Award \in [3..5 -> Nat \ {0}]
  /\ MaxLines \in Nat
  /\ MaxCount \in Nat

VARIABLES
  current,  \* current_freespin_count_
  max,      \* max_freespin_count_
  pc,       \* where each thread is in spin()
  reg,      \* what it has read and is about to compare or write back
  lines     \* paylines with Scatters it may still find

vars == <<current, max, pc, reg, lines>>

Steps ==
  {"idle", "compare", "load", "bump", "lines", "first", "read", "write",
   "over", "zero_current", "zero_max"}

TypeOK ==
  /\ current \in Nat
  /\ max \in Nat
  /\ pc \in [Threads -> Steps]
  /\ reg \in [Threads -> Nat]
  /\ lines \in [Threads -> 0..MaxLines]

(* The constructor. *)
Init ==
  /\ current = 0
  /\ max = 0
  /\ pc = [t \in Threads |-> "idle"]
  /\ reg = [t \in Threads |-> 0]
  /\ lines = [t \in Threads |-> 0]

Goto(t, from, to) == pc[t] = from /\ pc' = [pc EXCEPT ![t] = to]
Keep(t, value) == reg' = [reg EXCEPT ![t] = value]

(* if(current_freespin_count_ < max_freespin_count_) *)
Spin(t) ==
  /\ \A u \in Threads : reg[u] <= MaxCount
  /\ Goto(t, "idle", "compare")
  /\ Keep(t, current)
  /\ lines' = [lines EXCEPT ![t] = MaxLines]
  /\ UNCHANGED <<current, max>>

IsFreeSpin(t) ==
  /\ Goto(t, "compare", IF reg[t] < max THEN "load" ELSE "lines")
  /\ Keep(t, 0)
  /\ UNCHANGED <<current, max, lines>>

(* current_freespin_count_++ *)
Load(t) ==
  /\ Goto(t, "load", "bump")
  /\ Keep(t, current + 1)
  /\ UNCHANGED <<current, max, lines>>

Bump(t) ==
  /\ Goto(t, "bump", "lines")
  /\ current' = reg[t]
  /\ Keep(t, 0)
  /\ UNCHANGED <<max, lines>>

(* The next payline with n Scatters: is it the start of a free game? *)
Scatter(t, n) ==
  /\ lines[t] > 0
  /\ \A m \in {max} \cup {reg[u] : u \in Threads} : m + Award[n] <= MaxCount
  /\ Goto(t, "lines", IF current = 0 THEN "first" ELSE "read")
  /\ lines' = [lines EXCEPT ![t] = @ - 1]
  /\ Keep(t, Award[n])
  /\ UNCHANGED <<current, max>>

(* Wrong on purpose: the winning spin is not counted. *)
StartAtZero(t) == Goto(t, "first", "read") /\ UNCHANGED <<current, max, reg, lines>>

(* current_freespin_count_ = 1 *)
StartGame(t) ==
  /\ Goto(t, "first", "read")
  /\ current' = 1
  /\ UNCHANGED <<max, reg, lines>>

(* max_freespin_count_ += the award *)
ReadMax(t) ==
  /\ Goto(t, "read", "write")
  /\ Keep(t, max + reg[t])
  /\ UNCHANGED <<current, max, lines>>

WriteMax(t) ==
  /\ Goto(t, "write", "lines")
  /\ max' = reg[t]
  /\ Keep(t, 0)
  /\ UNCHANGED <<current, lines>>

(* All paylines are done. *)
LinesDone(t) ==
  /\ Goto(t, "lines", "over")
  /\ Keep(t, current)
  /\ lines' = [lines EXCEPT ![t] = 0]
  /\ UNCHANGED <<current, max>>

(* Wrong on purpose: the game ends only when it has been exceeded. *)
IsGameExceeded(t) ==
  /\ Goto(t, "over", IF reg[t] > max THEN "zero_current" ELSE "idle")
  /\ Keep(t, 0)
  /\ UNCHANGED <<current, max, lines>>

(* if(current_freespin_count_ >= max_freespin_count_) *)
IsGameOver(t) ==
  /\ Goto(t, "over", IF reg[t] >= max THEN "zero_current" ELSE "idle")
  /\ Keep(t, 0)
  /\ UNCHANGED <<current, max, lines>>

(* Wrong on purpose: no game is written as -1. *)
CurrentToNone(t) ==
  /\ Goto(t, "zero_current", "zero_max")
  /\ current' = -1
  /\ UNCHANGED <<max, reg, lines>>

ZeroCurrent(t) ==
  /\ Goto(t, "zero_current", "zero_max")
  /\ current' = 0
  /\ UNCHANGED <<max, reg, lines>>

ZeroMax(t) ==
  /\ Goto(t, "zero_max", "idle")
  /\ max' = 0
  /\ UNCHANGED <<current, reg, lines>>

spin(t) ==
  \/ Spin(t) \/ IsFreeSpin(t) \/ Load(t) \/ Bump(t)
  \/ \E n \in 3..5 : Scatter(t, n)
  \/ StartGame(t) \/ ReadMax(t) \/ WriteMax(t)
  \/ LinesDone(t) \/ IsGameOver(t) \/ ZeroCurrent(t) \/ ZeroMax(t)

Next == \E t \in Threads : spin(t)

Spec == Init /\ [][Next]_vars

-----------------------------------------------------------------------------
AtRest == \A t \in Threads : pc[t] = "idle"

(* Whatever threads have been in spin() together and whatever writes they   *)
(* lost, the slot comes to rest either without free spins or with at least  *)
(* one left to play: it never stays in a game that is over.                 *)
RestIsSound == AtRest => max = 0 \/ current < max

=============================================================================
