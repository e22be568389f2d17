------------------------------ MODULE Standings ------------------------------
(***************************************************************************)
(* get_tournament_infos of handler/tournament_info.cpp: which rows of a    *)
(* ranking the reply to a user shows.  It copies the rows around the       *)
(* user's own into an array of max_tournament_pool (3) entries, then       *)
(* writes as many entries as the RANKING has into the reply.               *)
(***************************************************************************)
EXTENDS Integers, Sequences, FiniteSets, SequencesExt

CONSTANTS
  Uid,        \* users
  MaxRanking  \* bound: rows the stored procedure may return

ASSUME StandingsAssumption == IsFiniteSet(Uid) /\ MaxRanking \in Nat

VARIABLES
  tournament_infos,  \* the ranking, as uids, best first
  uid,               \* the user the reply is for
  results            \* the entries of the reply, <<>> before it is built

standingsVars == <<tournament_infos, uid, results>>

max_tournament_pool == 3

(* What an entry of the reply holds when it is no row of the ranking: an    *)
(* entry of the array nothing was copied to, or memory behind the array.    *)
Uninitialised == "uninitialised"
OutOfBounds == "out of bounds"

ASSUME NoRowAssumption == Uninitialised \notin Uid /\ OutOfBounds \notin Uid

(* Indices count from 0, as in the code. *)
find_user_index(u, infos) ==
  IF \E i \in DOMAIN infos : infos[i] = u
  THEN (CHOOSE i \in DOMAIN infos : infos[i] = u) - 1
  ELSE -1

(* The bounds of the copy.  A comparison of index with the unsigned         *)
(* size() - 1 makes -1 the last index of an empty ranking.                  *)
FirstRow(index, size) ==
  IF size < max_tournament_pool \/ index = 0 THEN 0
  ELSE IF index = size - 1 THEN size - 3
  ELSE index - 1

(* Wrong on purpose: the last row is not copied. *)
LastRowExclusive(index, size) ==
  IF size < max_tournament_pool THEN size - 1
  ELSE IF index = 0 THEN 1
  ELSE IF index = size - 1 THEN size - 2
  ELSE index

LastRow(index, size) ==
  IF size < max_tournament_pool THEN size - 1
  ELSE IF index = 0 THEN 2
  ELSE IF index = size - 1 THEN size - 1
  ELSE index + 1

(* Wrong on purpose: a user who is not ranked is shown the top. *)
CopiedFromTop(u, infos) ==
  LET index == find_user_index(u, infos)
      first == FirstRow(index, Len(infos))
  IN  IF first < 0 THEN SubSeq(infos, 1, max_tournament_pool)
      ELSE SubSeq(infos, first + 1, LastRow(index, Len(infos)) + 1)

(* The rows copied.  For a user who is not ranked FirstRow is -2, which as  *)
(* an unsigned number is past every LastRow: nothing is copied.             *)
Copied(u, infos) ==
  LET index == find_user_index(u, infos)
      first == FirstRow(index, Len(infos))
  IN  IF first < 0 THEN <<>>
      ELSE SubSeq(infos, first + 1, LastRow(index, Len(infos)) + 1)

(* The entries of the reply: Len(infos) of them, whatever was copied. *)
get_tournament_infos(u, infos) ==
  [i \in DOMAIN infos |->
     IF i <= Len(Copied(u, infos)) THEN Copied(u, infos)[i]
     ELSE IF i <= max_tournament_pool THEN Uninitialised
     ELSE OutOfBounds]

-----------------------------------------------------------------------------
StandingsInit ==
  /\ tournament_infos \in SetToAllKPermutations(Uid)
  /\ Len(tournament_infos) <= MaxRanking
  /\ uid \in Uid
  /\ results = <<>>

Build ==
  /\ results = <<>>
  /\ results' = get_tournament_infos(uid, tournament_infos)
  /\ UNCHANGED <<tournament_infos, uid>>

StandingsSpec == StandingsInit /\ [][Build]_standingsVars

-----------------------------------------------------------------------------
Ranked == uid \in ToSet(tournament_infos)

Least(m, n) == IF m < n THEN m ELSE n

(* A ranked user is shown with the neighbours: the entries that are rows    *)
(* come first, and are three consecutive rows of the ranking (all of them   *)
(* when there are fewer), the user's own among them, and in the middle      *)
(* unless it is the first or the last.                                      *)
OwnNeighbourhood ==
  results # <<>> /\ Ranked =>
    LET size == Len(tournament_infos)
        shown == Least(size, 3)
    IN  /\ {i \in DOMAIN results : results[i] \in Uid} = 1..shown
        /\ \E k \in 0..(size - shown) :
             \A i \in 1..shown : results[i] = tournament_infos[k + i]
        /\ \E i \in 1..shown : results[i] = uid
        /\ shown = 3 => uid \in {results[2], Head(tournament_infos), Last(tournament_infos)}

(* The reply is made of rows of the ranking exactly when the ranking has    *)
(* at most three rows and, if it has three, the user is one of them: that   *)
(* is what the stored procedures have to guarantee.                         *)
DefinedExactlyWhen ==
  results # <<>> =>
    (ToSet(results) \subseteq Uid
       <=> \/ Len(tournament_infos) < 3
           \/ Len(tournament_infos) = 3 /\ Ranked)

=============================================================================
