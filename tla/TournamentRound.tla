--------------------------- MODULE TournamentRound ---------------------------
(***************************************************************************)
(* What the tournaments promise a request, with the clock, the flag, the   *)
(* locks and the steps of the handlers hidden: a request plays in one      *)
(* tournament at a time, no tournament is reset while a request plays in   *)
(* it, and a bet that has been placed counts until its request leaves.     *)
(*                                                                         *)
(* Were there a readers-writer lock between requests and resets, this      *)
(* would be its specification.  There is none: TournamentServer implements *)
(* this module by timing alone.                                            *)
(***************************************************************************)

CONSTANTS
  Zone,    \* the tournaments
  Workers  \* the threads that handle requests

VARIABLES
  playing,   \* playing[z]: the requests under way in tournament z
  counted,   \* counted[z]: those whose bet is in its prize pool
  resetting  \* the tournaments whose reset is due or under way

roundVars == <<playing, counted, resetting>>

Empty == [z \in Zone |-> {}]

Init ==
  /\ playing = Empty
  /\ counted = Empty
  /\ resetting = Zone

(* A request enters a tournament that is not being reset. *)
Enter(w, z) ==
  /\ z \notin resetting
  /\ \A y \in Zone : w \notin playing[y]
  /\ playing' = [playing EXCEPT ![z] = @ \cup {w}]
  /\ UNCHANGED <<counted, resetting>>

Bet(w, z) ==
  /\ w \in playing[z]
  /\ counted' = [counted EXCEPT ![z] = @ \cup {w}]
  /\ UNCHANGED <<playing, resetting>>

(* Answered or not. *)
Leave(w, z) ==
  /\ w \in playing[z]
  /\ playing' = [playing EXCEPT ![z] = @ \ {w}]
  /\ counted' = [counted EXCEPT ![z] = @ \ {w}]
  /\ UNCHANGED resetting

(* All tournaments are reset together, once every request has left, and     *)
(* reopen one by one or, when the reset is put off, together.               *)
BeginReset ==
  /\ playing = Empty
  /\ resetting' = Zone
  /\ UNCHANGED <<playing, counted>>

EndReset ==
  /\ resetting' \in SUBSET resetting
  /\ UNCHANGED <<playing, counted>>

Next ==
  \/ \E w \in Workers, z \in Zone : Enter(w, z) \/ Bet(w, z) \/ Leave(w, z)
  \/ BeginReset \/ EndReset

Spec == Init /\ [][Next]_roundVars

=============================================================================
