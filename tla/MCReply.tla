------------------------------- MODULE MCReply -------------------------------
(***************************************************************************)
(* Model checking of what a tournament request computes for its reply: the *)
(* prize (PrizePool) and the rows of the ranking (Standings).  They share  *)
(* no state, so each behaviour has one of the two: the rows are built      *)
(* where there is a ranking, and the prize goes on where there is none.    *)
(***************************************************************************)
EXTENDS PrizePool, Standings

CONSTANT AnyUser  \* whose reply has no rows

(* A small bet, one that makes the sum wrap around soon, and a negative one. *)
SomeBets == {-3, 1, 7}

Unranked == tournament_infos = <<>>

ReplyInit ==
  /\ Init /\ StandingsInit
  /\ IF Unranked THEN uid = AnyUser ELSE second = 0

ReplyNext ==
  \/ Unranked /\ Next /\ UNCHANGED standingsVars
  \/ ~Unranked /\ Build /\ UNCHANGED vars

ReplySpec == ReplyInit /\ [][ReplyNext]_<<vars, standingsVars>>

=============================================================================
