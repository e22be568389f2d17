--------------------------- MODULE ConnectionPool ---------------------------
(***************************************************************************)
(* The pool of MySQL connections (db/ConnectionPool.hpp) and the two       *)
(* functions that use it, db_md::execute_query and db_md::execute.         *)
(*                                                                         *)
(* Every thread runs the same call: borrow a connection, run a statement   *)
(* on it, return it.  borrow() and unborrow() hold io_mutex from their     *)
(* first line to their last, so each is one step; the statement runs       *)
(* without the mutex, between the two.                                     *)
(*                                                                         *)
(* A connection object is shared by std::shared_ptr.  borrow() treats a    *)
(* borrowed connection as crashed when its reference is unique(), that is, *)
(* when no thread has it any more: the local variable of the caller went   *)
(* away without unborrow().                                                *)
(***************************************************************************)
EXTENDS Naturals, Sequences, FiniteSets, Functions

CONSTANTS
  Conn,      \* connection objects the factory can create
  Threads,   \* the threads that call db_md: HTTP workers and the scheduler
  PoolSize,  \* connection_cnt of db_md::init (8 in main.cpp)
  NoConn,    \* a null shared_ptr
  Faults     \* which failures of the outside world a run allows

ASSUME PoolAssumption ==
  /\ PoolSize \in Nat \ {0}
  /\ NoConn \notin Conn
  /\ IsFiniteSet(Threads)
  /\ Faults \subseteq {"lost", "sql", "throw", "create"}

VARIABLES
  pool,      \* the deque of free connections, front first
  borrowed,  \* the set of connections handed out
  held,      \* held[t]: the local `conn` of the call thread t is in
  pc,        \* pc[t]: where thread t is in its call
  result,    \* result[t]: how the latest call of thread t went
  lost       \* connections the database has closed (external)

vars == <<pool, borrowed, held, pc, result, lost>>

Results == {"rows", "null", "unavailable", "thrown"}

TypeOK ==
  /\ pool \in Seq(Conn)
  /\ borrowed \in SUBSET Conn
  /\ held \in [Threads -> Conn \cup {NoConn}]
  /\ pc \in [Threads -> {"idle", "statement", "return"}]
  /\ result \in [Threads -> Results]
  /\ lost \in SUBSET Conn

-----------------------------------------------------------------------------
(* The connection objects that exist: in the deque or in the borrowed set. *)
Circulating == Range(pool) \cup borrowed

(* Wrong on purpose: every borrowed connection counts as crashed. *)
AbandonedAnyone == borrowed

(* unique(): only the borrowed set still refers to the connection. *)
Abandoned == {c \in borrowed : \A t \in Threads : held[t] # c}

(* create(): a connection object that did not exist before. *)
Fresh == Conn \ Circulating

get_stats == [pool_size |-> Len(pool), borrowed_size |-> Cardinality(borrowed)]

(* The constructor fills the deque with PoolSize new connections. *)
Init ==
  /\ pool \in [1..PoolSize -> Conn]
  /\ \A i, j \in 1..PoolSize : pool[i] = pool[j] => i = j
  /\ borrowed = {}
  /\ held = [t \in Threads |-> NoConn]
  /\ pc = [t \in Threads |-> "idle"]
  /\ result = [t \in Threads |-> "null"]
  /\ lost = {}

-----------------------------------------------------------------------------
(* borrow() *)

(* The call got connection c and goes on to its statement. *)
Obtain(t, c) ==
  /\ held' = [held EXCEPT ![t] = c]
  /\ pc' = [pc EXCEPT ![t] = "statement"]
  /\ result' = [result EXCEPT ![t] = "null"]

(* borrow() threw ConnectionUnavailable: the call is over. *)
Refuse(t) ==
  /\ result' = [result EXCEPT ![t] = "unavailable"]
  /\ UNCHANGED <<pool, borrowed, held, pc, lost>>

(* Wrong on purpose: the front is handed out and not popped. *)
BorrowWithoutPop(t) ==
  /\ pc[t] = "idle"
  /\ pool # <<>>
  /\ borrowed' = borrowed \cup {Head(pool)}
  /\ Obtain(t, Head(pool))
  /\ UNCHANGED <<pool, lost>>

(* A free connection is taken off the front. *)
BorrowPooled(t) ==
  /\ pc[t] = "idle"
  /\ pool # <<>>
  /\ pool' = Tail(pool)
  /\ borrowed' = borrowed \cup {Head(pool)}
  /\ Obtain(t, Head(pool))
  /\ UNCHANGED lost

(* The deque is empty: an abandoned connection is replaced by a new one. *)
BorrowReplacement(t) ==
  /\ pc[t] = "idle"
  /\ pool = <<>>
  /\ \E old \in Abandoned, new \in Fresh :
       /\ borrowed' = (borrowed \ {old}) \cup {new}
       /\ lost' = lost \ {old, new}
       /\ Obtain(t, new)
  /\ UNCHANGED pool

(* The replacement cannot be created: factory->create() threw. *)
ReplacementFails(t) ==
  /\ "create" \in Faults
  /\ pc[t] = "idle"
  /\ pool = <<>>
  /\ Abandoned # {}
  /\ Refuse(t)

(* Nothing free and nothing abandoned. *)
BorrowUnavailable(t) ==
  /\ pc[t] = "idle"
  /\ pool = <<>>
  /\ Abandoned = {}
  /\ Refuse(t)

-----------------------------------------------------------------------------
(* The statement: createStatement, executeQuery or execute, getMoreResults. *)

StatementSucceeds(t) ==
  /\ pc[t] = "statement"
  /\ held[t] \notin lost
  /\ pc' = [pc EXCEPT ![t] = "return"]
  /\ result' = [result EXCEPT ![t] = "rows"]
  /\ UNCHANGED <<pool, borrowed, held, lost>>

(* sql::SQLException is caught: the call goes on with a null result.  A     *)
(* connection the database has closed can do nothing else.                  *)
StatementFails(t) ==
  /\ pc[t] = "statement"
  /\ held[t] \in lost \/ "sql" \in Faults
  /\ pc' = [pc EXCEPT ![t] = "return"]
  /\ UNCHANGED <<pool, borrowed, held, result, lost>>

(* Any other exception leaves the function, past unborrow(). *)
StatementThrows(t) ==
  /\ "throw" \in Faults
  /\ pc[t] = "statement"
  /\ held' = [held EXCEPT ![t] = NoConn]
  /\ pc' = [pc EXCEPT ![t] = "idle"]
  /\ result' = [result EXCEPT ![t] = "thrown"]
  /\ UNCHANGED <<pool, borrowed, lost>>

(* Wrong on purpose, four ways to return a connection: it stays in the      *)
(* borrowed set, it is pushed after the reference is gone, it is not pushed *)
(* at all, or it is pushed to the front.                                    *)
ReturnWith(t, newPool, newBorrowed) ==
  /\ pc[t] = "return"
  /\ pool' = newPool
  /\ borrowed' = newBorrowed
  /\ held' = [held EXCEPT ![t] = NoConn]
  /\ pc' = [pc EXCEPT ![t] = "idle"]
  /\ UNCHANGED <<result, lost>>

unborrowKeeps(t) == ReturnWith(t, Append(pool, held[t]), borrowed)
unborrowNull(t) == ReturnWith(t, Append(pool, NoConn), borrowed \ {held[t]})
unborrowDrops(t) == ReturnWith(t, pool, borrowed \ {held[t]})
unborrowFront(t) == ReturnWith(t, <<held[t]>> \o pool, borrowed \ {held[t]})

(* unborrow(conn), then the return drops the local reference. *)
unborrow(t) ==
  /\ pc[t] = "return"
  /\ pool' = Append(pool, held[t])
  /\ borrowed' = borrowed \ {held[t]}
  /\ held' = [held EXCEPT ![t] = NoConn]
  /\ pc' = [pc EXCEPT ![t] = "idle"]
  /\ UNCHANGED <<result, lost>>

(* The database closes a connection: nothing on the server side notices. *)
ConnectionLost(c) ==
  /\ "lost" \in Faults
  /\ c \in Circulating \ lost
  /\ lost' = lost \cup {c}
  /\ UNCHANGED <<pool, borrowed, held, pc, result>>

-----------------------------------------------------------------------------
borrow(t) ==
  \/ BorrowPooled(t)
  \/ BorrowReplacement(t)
  \/ ReplacementFails(t)
  \/ BorrowUnavailable(t)

statement(t) ==
  \/ StatementSucceeds(t)
  \/ StatementFails(t)
  \/ StatementThrows(t)

Next ==
  \/ \E t \in Threads : borrow(t) \/ statement(t) \/ unborrow(t)
  \/ \E c \in Conn : ConnectionLost(c)

Spec == Init /\ [][Next]_vars

(* A thread that has begun a call runs it to its end; nothing obliges a     *)
(* client to make the next call.                                            *)
FairSpec ==
  Spec /\ \A t \in Threads : WF_vars(statement(t)) /\ WF_vars(unborrow(t))

-----------------------------------------------------------------------------
(* No connection is ever leaked or duplicated: what get_stats() reports     *)
(* always adds up to the size the pool was built with, and the deque and    *)
(* the borrowed set share no connection, even across exceptions that skip   *)
(* unborrow() and across replacements.                                      *)
PoolConserved ==
  /\ get_stats.pool_size + get_stats.borrowed_size = PoolSize
  /\ \A i, j \in DOMAIN pool : pool[i] = pool[j] => i = j
  /\ Range(pool) \cap borrowed = {}

(* A connection is used by one thread at a time, and is never handed out    *)
(* or destroyed (dropped from the borrowed set by a replacement) under the  *)
(* thread that is using it.                                                 *)
ExclusiveUse ==
  \A t \in Threads :
    held[t] # NoConn =>
      /\ held[t] \in borrowed
      /\ \A u \in Threads : held[u] = held[t] => u = t

(* borrow() gives up without asking for a new connection only when PoolSize *)
(* other threads are each in the middle of a call with a connection of its  *)
(* own: an exception that skips unborrow() never costs the pool a place.    *)
(* With no more threads than connections, as in main.cpp, which runs 4 HTTP *)
(* threads and the scheduler on 8, that never happens.                      *)
CapacitySuffices ==
  \A t \in Threads :
    pc[t] = "idle" /\ pool = <<>> /\ Abandoned = {} =>
      Cardinality({u \in Threads \ {t} : held[u] # NoConn}) = PoolSize

(* The inductive invariant behind the three properties above: besides them, *)
(* a thread holds a connection exactly while it is inside its call.         *)
PoolInv ==
  /\ TypeOK
  /\ IsFiniteSet(borrowed)
  /\ PoolConserved
  /\ ExclusiveUse
  /\ \A t \in Threads : pc[t] = "idle" <=> held[t] = NoConn

Lease == INSTANCE LeasePool WITH lease <- held, Capacity <- PoolSize

(* The pool is an implementation of the bounded, exclusive lease its        *)
(* callers rely on.                                                         *)
LeaseSpec == Lease!Spec

(* Connections the database has closed are put back and come round again,   *)
(* but they cannot starve a working one: the deque is first-in first-out,   *)
(* so a connection that stays alive and is not abandoned is used again and  *)
(* again as long as calls keep arriving.                                    *)
LiveConnectionServes ==
  \A c \in Conn :
    (/\ <>[](c \in (Circulating \ lost) \ Abandoned)
     /\ []<>(\E t \in Threads : pc[t] = "statement"))
      => []<>(\E t \in Threads : held[t] = c)

=============================================================================
