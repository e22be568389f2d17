------------------------------ MODULE MCSlotSeats ------------------------------
(***************************************************************************)
(* Model checking of SlotSeats: the players are interchangeable.           *)
(***************************************************************************)
EXTENDS SlotSeats, TLC

PlayerSymmetry == Permutations(Players)

=============================================================================
