--------------------------- MODULE TournamentTable ---------------------------
(***************************************************************************)
(* The operations of class tournament (scheduler_md.cpp) on the objects of *)
(* scheduler_md::tournaments_, one for each zone, and of the spin_mutex m  *)
(* each has (lib/ddlock.hpp).                                              *)
(*                                                                         *)
(* user_infos_ maps a uid to what set_user_info stored for it; a name is   *)
(* abstracted to being there ("named") or being the two empty strings that *)
(* std::map::operator[] inserts for a missing key ("blank").  The sum      *)
(* bet_credits_ is abstracted to the requests whose bet it still includes. *)
(***************************************************************************)

CONSTANTS
  Zone,     \* indices of the vector tournaments_
  Uid,      \* users
  Workers,  \* the HTTP threads
  Nobody    \* the flag of the spin lock is clear

VARIABLES
  lock,        \* lock[z]: the thread that has set the flag of m, or Nobody
  user_infos,  \* user_infos[z][u]: "absent", "named" or "blank"
  bet_credits  \* bet_credits[z]: the requests in progress whose bet counts

NoInfos == [u \in Uid |-> "absent"]

TableTypeOK(Thread) ==
  /\ lock \in [Zone -> Thread \cup {Nobody}]
  /\ user_infos \in [Zone -> [Uid -> {"absent", "named", "blank"}]]
  /\ bet_credits \in [Zone -> SUBSET Workers]

TableInit ==
  /\ lock = [z \in Zone |-> Nobody]
  /\ user_infos = [z \in Zone |-> NoInfos]
  /\ bet_credits = [z \in Zone |-> {}]

-----------------------------------------------------------------------------
(* m.lock(): the test_and_set that found the flag clear. *)
Lock(z, t) ==
  /\ lock[z] = Nobody
  /\ lock' = [lock EXCEPT ![z] = t]
  /\ UNCHANGED <<user_infos, bet_credits>>

(* m.unlock() *)
Unlock(z) == lock' = [lock EXCEPT ![z] = Nobody]

Store(z, u, info) == user_infos' = [user_infos EXCEPT ![z][u] = info]

(* Wrong on purpose: the name is not stored. *)
UnlockWithoutSet(z, u) == Unlock(z) /\ UNCHANGED <<user_infos, bet_credits>>

(* set_user_info, from its assignment on. *)
SetAndUnlock(z, u) ==
  /\ Store(z, u, "named")
  /\ Unlock(z)
  /\ UNCHANGED bet_credits

(* get_user_info, the find() and the unlock() of either branch. *)
Found(z, u) == user_infos[z][u] # "absent"

FindAndUnlock(z) ==
  /\ Unlock(z)
  /\ UNCHANGED <<user_infos, bet_credits>>

(* get_user_info, the return after the unlock(): operator[] inserts the key *)
(* when it has gone in the meantime.                                        *)
Read(z, u) == IF Found(z, u) THEN user_infos[z][u] ELSE "blank"

ReadUnlocked(z, u) ==
  /\ Store(z, u, Read(z, u))
  /\ UNCHANGED <<lock, bet_credits>>

(* add_bet_credit: an atomic += . *)
add_bet_credit(z, w) ==
  /\ bet_credits' = [bet_credits EXCEPT ![z] = @ \cup {w}]
  /\ UNCHANGED <<lock, user_infos>>

(* The bet of a request that is over stays in the sum, but is no longer     *)
(* told apart.                                                              *)
ForgetBet(w) ==
  /\ bet_credits' = [z \in Zone |-> bet_credits[z] \ {w}]
  /\ UNCHANGED <<lock, user_infos>>

(* reset(): user_infos_.clear() and m.unlock(), then bet_credits_ = 0. *)
ClearAndUnlock(z) ==
  /\ user_infos' = [user_infos EXCEPT ![z] = NoInfos]
  /\ Unlock(z)
  /\ UNCHANGED bet_credits

ZeroBets(z) ==
  /\ bet_credits' = [bet_credits EXCEPT ![z] = {}]
  /\ UNCHANGED <<lock, user_infos>>

=============================================================================
