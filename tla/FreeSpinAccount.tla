--------------------------- MODULE FreeSpinAccount ---------------------------
(***************************************************************************)
(* The accounts of the free spins of one slot: FreeSpins with two history  *)
(* variables, what the player is owed and whether two threads have been in *)
(* spin() together.                                                        *)
(***************************************************************************)
EXTENDS FreeSpins, TLC

VARIABLES
  owed,       \* the free spins left when the latest spin began, and those
              \* it has won since
  overlapped  \* two spins have been under way at once since the slot was
              \* last at rest without free spins; nothing is owed then

(* Smaller awards than in the code, in the same order. *)
SmallAwards == [n \in 3..5 |-> n - 1]

Symmetry == Permutations(Threads)

Begins(t) == pc[t] = "idle"
Wins(t) == pc[t] = "lines" /\ pc'[t] \in {"first", "read"}

Overlaps(t) ==
  IF AtRest THEN overlapped /\ <<current, max>> # <<0, 0>>
  ELSE overlapped \/ Begins(t)

AccountNext ==
  \E t \in Threads :
    /\ spin(t)
    /\ overlapped' = Overlaps(t)
    /\ owed' = IF Overlaps(t) THEN 0
               ELSE IF Begins(t) THEN max - current
               ELSE owed + (IF Wins(t) THEN reg'[t] ELSE 0)

AccountInit == Init /\ owed = 0 /\ overlapped = FALSE

AccountSpec == AccountInit /\ [][AccountNext]_<<vars, owed, overlapped>>

-----------------------------------------------------------------------------
(* As long as one spin at a time is under way, the two counters keep honest *)
(* accounts: a spin that wins free spins, or is one, leaves what there was  *)
(* and what it won less one, the spin itself.  Winning on the last free     *)
(* spin prolongs the game, and a finished game leaves nothing behind for    *)
(* the next.                                                                *)
HonestAccount ==
  AtRest /\ ~overlapped => max - current = IF owed = 0 THEN 0 ELSE owed - 1

=============================================================================
