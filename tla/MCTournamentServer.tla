-------------------------- MODULE MCTournamentServer --------------------------
(***************************************************************************)
(* Constants for the runs of TournamentServer.                             *)
(***************************************************************************)
EXTENDS TournamentServer, TLC

(* Every failure the database can have. *)
AllFaults == {"null", "throw", "reset", "terminate"}

(* Those the process survives. *)
Survivable == {"throw", "reset"}

NoFaults == {}

(* HTTP threads are alike, and so are users. *)
Symmetry == Permutations(Workers) \cup Permutations(Uid)

=============================================================================
