----------------------------- MODULE LeasePool -----------------------------
(***************************************************************************)
(* What the database layer promises its callers, with the pool's deque,    *)
(* its set of borrowed connections and its replacement rule hidden: a      *)
(* caller holds at most one connection, a connection is held by at most    *)
(* one caller, and at most Capacity of them are held at any time.          *)
(*                                                                         *)
(* ConnectionPool implements this module with lease <- held.               *)
(***************************************************************************)
EXTENDS Naturals, FiniteSets

CONSTANTS
  Conn,      \* the connections that may be leased
  Threads,   \* the callers
  Capacity,  \* how many leases may be out at once
  NoConn     \* "this caller holds no connection"

VARIABLE lease   \* lease[t]: the connection caller t holds, or NoConn

Holders == {t \in Threads : lease[t] # NoConn}

Init == lease = [t \in Threads |-> NoConn]

(* A caller gets a connection nobody holds, while the capacity allows it. *)
Acquire(t) ==
  /\ lease[t] = NoConn
  /\ Cardinality(Holders) < Capacity
  /\ \E c \in Conn :
       /\ \A u \in Threads : lease[u] # c
       /\ lease' = [lease EXCEPT ![t] = c]

(* A caller gives its connection up, by returning it or by abandoning it. *)
Release(t) ==
  /\ lease[t] # NoConn
  /\ lease' = [lease EXCEPT ![t] = NoConn]

Next == \E t \in Threads : Acquire(t) \/ Release(t)

Spec == Init /\ [][Next]_lease

=============================================================================
