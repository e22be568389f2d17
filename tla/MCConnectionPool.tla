-------------------------- MODULE MCConnectionPool --------------------------
(***************************************************************************)
(* Constants for the run of ConnectionPool.                                *)
(***************************************************************************)
EXTENDS ConnectionPool

(* Everything that can go wrong outside the server. *)
AllFaults == {"lost", "sql", "throw", "create"}

=============================================================================
