------------------------ MODULE ConnectionPoolProofs ------------------------
(***************************************************************************)
(* Theorems about ConnectionPool, for every number of threads, every pool  *)
(* size and every combination of failures.                                 *)
(***************************************************************************)
EXTENDS ConnectionPool, SequenceTheorems, FiniteSetTheorems, TLAPS

(* What pop_front() does to a deque without duplicates.                     *)
LEMMA PopFront ==
  ASSUME NEW S, NEW s \in Seq(S), s # <<>>,
         \A i, j \in DOMAIN s : s[i] = s[j] => i = j
  PROVE  /\ Head(s) \in S
         /\ Tail(s) \in Seq(S)
         /\ Len(Tail(s)) = Len(s) - 1
         /\ Head(s) \in Range(s)
         /\ Range(Tail(s)) = Range(s) \ {Head(s)}
         /\ \A i, j \in DOMAIN Tail(s) : Tail(s)[i] = Tail(s)[j] => i = j
<1>1. /\ Head(s) \in S
      /\ Tail(s) \in Seq(S)
      /\ Len(Tail(s)) = Len(s) - 1
      /\ \A i \in 1 .. Len(Tail(s)) : Tail(s)[i] = s[i+1]
  BY HeadTailProperties
<1>2. /\ Len(s) \in Nat \ {0}
      /\ DOMAIN s = 1 .. Len(s)
      /\ DOMAIN Tail(s) = 1 .. (Len(s) - 1)
  BY <1>1, LenProperties, EmptySeq
<1>3. Head(s) = s[1]
  BY <1>2
<1>4. Head(s) \in Range(s)
  BY <1>2, <1>3 DEF Range
<1>5. ASSUME NEW i \in DOMAIN Tail(s)
      PROVE  /\ Tail(s)[i] = s[i+1]
             /\ i + 1 \in DOMAIN s
             /\ i + 1 # 1
  BY <1>1, <1>2
<1>6. ASSUME NEW k \in DOMAIN s, k # 1
      PROVE  /\ k - 1 \in DOMAIN Tail(s)
             /\ Tail(s)[k - 1] = s[k]
  BY <1>1, <1>2, <1>6
<1>7. Range(Tail(s)) = Range(s) \ {Head(s)}
  <2>1. ASSUME NEW i \in DOMAIN Tail(s)
        PROVE  Tail(s)[i] \in Range(s) \ {Head(s)}
    BY <1>2, <1>3, <1>5 DEF Range
  <2>2. ASSUME NEW k \in DOMAIN s, s[k] # Head(s)
        PROVE  s[k] \in Range(Tail(s))
    <3>1. k # 1
      BY <2>2, <1>3
    <3>2. QED
      BY <3>1, <1>6 DEF Range
  <2>3. QED
    BY <2>1, <2>2 DEF Range
<1>8. \A i, j \in DOMAIN Tail(s) : Tail(s)[i] = Tail(s)[j] => i = j
  <2>1. SUFFICES ASSUME NEW i \in DOMAIN Tail(s), NEW j \in DOMAIN Tail(s),
                        Tail(s)[i] = Tail(s)[j]
                 PROVE  i = j
    OBVIOUS
  <2>2. s[i+1] = s[j+1]
    BY <2>1, <1>5
  <2>3. i + 1 = j + 1
    BY <2>2, <1>5
  <2>4. QED
    BY <2>3, <1>2
<1>9. QED
  BY <1>1, <1>4, <1>7, <1>8

(* What push_back() of a new element does to a deque without duplicates.    *)
LEMMA PushBack ==
  ASSUME NEW S, NEW s \in Seq(S), NEW e \in S, e \notin Range(s),
         \A i, j \in DOMAIN s : s[i] = s[j] => i = j
  PROVE  /\ Append(s, e) \in Seq(S)
         /\ Len(Append(s, e)) = Len(s) + 1
         /\ Range(Append(s, e)) = Range(s) \cup {e}
         /\ \A i, j \in DOMAIN Append(s, e) :
              Append(s, e)[i] = Append(s, e)[j] => i = j
<1>1. /\ Len(s) \in Nat
      /\ DOMAIN s = 1 .. Len(s)
      /\ Append(s, e) \in Seq(S)
      /\ Len(Append(s, e)) = Len(s) + 1
      /\ DOMAIN Append(s, e) = 1 .. (Len(s) + 1)
  BY LenProperties
<1>2. /\ \A i \in 1 .. Len(s) : Append(s, e)[i] = s[i]
      /\ Append(s, e)[Len(s) + 1] = e
  BY <1>1
<1>3. \A i \in DOMAIN Append(s, e) : i \in DOMAIN s \/ i = Len(s) + 1
  BY <1>1
<1>4. \A i \in DOMAIN s : s[i] # e
  BY DEF Range
<1>5. Range(Append(s, e)) = Range(s) \cup {e}
  BY <1>1, <1>2, <1>3 DEF Range
<1>6. \A i, j \in DOMAIN Append(s, e) :
        Append(s, e)[i] = Append(s, e)[j] => i = j
  BY <1>1, <1>2, <1>3, <1>4
<1>7. QED
  BY <1>1, <1>5, <1>6

-----------------------------------------------------------------------------
(* The constructor establishes the invariant.                               *)
LEMMA PoolInit == Init => PoolInv
<1> SUFFICES ASSUME Init PROVE PoolInv
  OBVIOUS
<1>1. /\ pool \in Seq(Conn)
      /\ Len(pool) = PoolSize
      /\ DOMAIN pool = 1..PoolSize
  BY PoolAssumption, SeqDef DEF Init
<1>2. /\ IsFiniteSet(borrowed)
      /\ Cardinality(borrowed) = 0
  BY FS_EmptySet DEF Init
<1>3. TypeOK
  BY <1>1 DEF Init, TypeOK, Results
<1>4. PoolConserved
  BY <1>1, <1>2, PoolAssumption DEF Init, PoolConserved, get_stats
<1>5. ExclusiveUse
  BY DEF Init, ExclusiveUse
<1>6. QED
  BY <1>2, <1>3, <1>4, <1>5 DEF PoolInv, Init

(* Taking the front of the deque preserves the invariant.                   *)
LEMMA BorrowPooledInv ==
  ASSUME PoolInv, NEW t \in Threads, BorrowPooled(t)
  PROVE  PoolInv'
<1>1. /\ pool \in Seq(Conn) /\ pool # <<>>
      /\ \A i, j \in DOMAIN pool : pool[i] = pool[j] => i = j
  BY DEF PoolInv, TypeOK, PoolConserved, BorrowPooled
<1>2. /\ Head(pool) \in Conn
      /\ pool' \in Seq(Conn)
      /\ Len(pool') = Len(pool) - 1
      /\ Head(pool) \in Range(pool)
      /\ Range(pool') = Range(pool) \ {Head(pool)}
      /\ \A i, j \in DOMAIN pool' : pool'[i] = pool'[j] => i = j
  <2> pool' = Tail(pool)
    BY DEF BorrowPooled
  <2> QED
    BY <1>1, PopFront
<1>3. Head(pool) \notin borrowed
  BY <1>2 DEF PoolInv, PoolConserved
<1>4. \A u \in Threads : held[u] # Head(pool)
  BY <1>2, <1>3, PoolAssumption DEF PoolInv, ExclusiveUse
<1>5. /\ IsFiniteSet(borrowed')
      /\ Cardinality(borrowed') = Cardinality(borrowed) + 1
  BY <1>3, FS_AddElement DEF PoolInv, BorrowPooled
<1>6. TypeOK'
  BY <1>2 DEF PoolInv, TypeOK, BorrowPooled, Obtain, Results
<1>7. PoolConserved'
  <2>1. Len(pool') + Cardinality(borrowed') = PoolSize
    <3>1. /\ Len(pool) \in Nat
          /\ Cardinality(borrowed) \in Nat
          /\ Len(pool) + Cardinality(borrowed) = PoolSize
      BY <1>1, LenProperties, FS_CardinalityType DEF PoolInv, PoolConserved, get_stats
    <3>2. QED
      BY <3>1, <1>2, <1>5, PoolAssumption
  <2>2. Range(pool') \cap borrowed' = {}
    BY <1>2 DEF PoolInv, PoolConserved, BorrowPooled
  <2>3. QED
    BY <1>2, <2>1, <2>2 DEF PoolConserved, get_stats
<1>8. ExclusiveUse'
  BY <1>4 DEF PoolInv, TypeOK, ExclusiveUse, BorrowPooled, Obtain
<1>9. (\A u \in Threads : pc[u] = "idle" <=> held[u] = NoConn)'
  BY <1>2, PoolAssumption DEF PoolInv, TypeOK, BorrowPooled, Obtain
<1>10. QED
  BY <1>5, <1>6, <1>7, <1>8, <1>9 DEF PoolInv

(* Replacing an abandoned connection preserves the invariant: the one that  *)
(* is destroyed is held by nobody, the new one is in no collection yet.     *)
LEMMA BorrowReplacementInv ==
  ASSUME PoolInv, NEW t \in Threads, BorrowReplacement(t)
  PROVE  PoolInv'
<1>1. PICK old \in Abandoned, new \in Fresh :
        /\ borrowed' = (borrowed \ {old}) \cup {new}
        /\ lost' = lost \ {old, new}
        /\ Obtain(t, new)
  BY DEF BorrowReplacement
<1>2. /\ old \in borrowed
      /\ \A u \in Threads : held[u] # old
      /\ new \in Conn
      /\ new \notin borrowed
      /\ new \notin Range(pool)
      /\ pool' = pool
  BY DEF Abandoned, Fresh, Circulating, BorrowReplacement
<1>3. \A u \in Threads : held[u] # new
  BY <1>2, PoolAssumption DEF PoolInv, ExclusiveUse
<1>4. /\ IsFiniteSet(borrowed')
      /\ Cardinality(borrowed') = Cardinality(borrowed)
  <2>1. /\ IsFiniteSet(borrowed)
        /\ Cardinality(borrowed) \in Nat
    BY FS_CardinalityType DEF PoolInv
  <2>2. /\ IsFiniteSet(borrowed \ {old})
        /\ Cardinality(borrowed \ {old}) = Cardinality(borrowed) - 1
    BY <1>2, <2>1, FS_RemoveElement
  <2>3. /\ IsFiniteSet((borrowed \ {old}) \cup {new})
        /\ Cardinality((borrowed \ {old}) \cup {new}) = Cardinality(borrowed \ {old}) + 1
    BY <1>2, <2>2, FS_AddElement
  <2>4. QED
    BY <1>1, <2>1, <2>2, <2>3
<1>5. TypeOK'
  BY <1>1, <1>2 DEF PoolInv, TypeOK, Obtain, Results
<1>6. PoolConserved'
  BY <1>1, <1>2, <1>4 DEF PoolInv, PoolConserved, get_stats
<1>7. ExclusiveUse'
  BY <1>1, <1>2, <1>3 DEF PoolInv, TypeOK, ExclusiveUse, Obtain
<1>8. (\A u \in Threads : pc[u] = "idle" <=> held[u] = NoConn)'
  BY <1>1, <1>2, PoolAssumption DEF PoolInv, TypeOK, Obtain
<1>9. QED
  BY <1>4, <1>5, <1>6, <1>7, <1>8 DEF PoolInv

(* Returning a connection preserves the invariant.                          *)
LEMMA UnborrowInv ==
  ASSUME PoolInv, NEW t \in Threads, unborrow(t)
  PROVE  PoolInv'
<1>1. /\ held[t] # NoConn
      /\ held[t] \in Conn
      /\ held[t] \in borrowed
      /\ \A u \in Threads : held[u] = held[t] => u = t
      /\ held[t] \notin Range(pool)
  BY DEF PoolInv, TypeOK, ExclusiveUse, PoolConserved, unborrow
<1>2. /\ pool' = Append(pool, held[t])
      /\ borrowed' = borrowed \ {held[t]}
      /\ held' = [held EXCEPT ![t] = NoConn]
      /\ pc' = [pc EXCEPT ![t] = "idle"]
      /\ UNCHANGED <<result, lost>>
  BY DEF unborrow
<1>3. /\ pool \in Seq(Conn)
      /\ \A i, j \in DOMAIN pool : pool[i] = pool[j] => i = j
  BY DEF PoolInv, TypeOK, PoolConserved
<1>4. /\ pool' \in Seq(Conn)
      /\ Len(pool') = Len(pool) + 1
      /\ Range(pool') = Range(pool) \cup {held[t]}
      /\ \A i, j \in DOMAIN pool' : pool'[i] = pool'[j] => i = j
  BY <1>1, <1>2, <1>3, PushBack
<1>5. /\ IsFiniteSet(borrowed')
      /\ Cardinality(borrowed') = Cardinality(borrowed) - 1
  BY <1>1, <1>2, FS_RemoveElement DEF PoolInv
<1>6. TypeOK'
  BY <1>2, <1>4 DEF PoolInv, TypeOK
<1>7. PoolConserved'
  <2>1. /\ Len(pool) \in Nat
        /\ Cardinality(borrowed) \in Nat
        /\ Len(pool) + Cardinality(borrowed) = PoolSize
    BY <1>3, LenProperties, FS_CardinalityType DEF PoolInv, PoolConserved, get_stats
  <2>2. Len(pool') + Cardinality(borrowed') = PoolSize
    BY <2>1, <1>4, <1>5
  <2>3. Range(pool') \cap borrowed' = {}
    BY <1>2, <1>4 DEF PoolInv, PoolConserved
  <2>4. QED
    BY <1>4, <2>2, <2>3 DEF PoolConserved, get_stats
<1>8. ExclusiveUse'
  BY <1>1, <1>2 DEF PoolInv, TypeOK, ExclusiveUse
<1>9. (\A u \in Threads : pc[u] = "idle" <=> held[u] = NoConn)'
  BY <1>2 DEF PoolInv, TypeOK
<1>10. QED
  BY <1>5, <1>6, <1>7, <1>8, <1>9 DEF PoolInv

(* The steps that touch neither the deque nor the borrowed set, and the     *)
(* steps of nobody.                                                         *)
LEMMA StatementInv ==
  ASSUME PoolInv, NEW t \in Threads, statement(t)
  PROVE  PoolInv'
<1>1. UNCHANGED <<pool, borrowed, lost>>
  BY DEF statement, StatementSucceeds, StatementFails, StatementThrows
<1>2. PoolConserved' /\ IsFiniteSet(borrowed')
  BY <1>1 DEF PoolInv, PoolConserved, get_stats
<1>3. TypeOK'
  BY <1>1 DEF PoolInv, TypeOK, Results, statement, StatementSucceeds, StatementFails,
              StatementThrows
<1>4. ExclusiveUse'
  BY <1>1 DEF PoolInv, TypeOK, ExclusiveUse, statement, StatementSucceeds,
              StatementFails, StatementThrows
<1>5. (\A u \in Threads : pc[u] = "idle" <=> held[u] = NoConn)'
  BY DEF PoolInv, TypeOK, statement, StatementSucceeds, StatementFails,
         StatementThrows
<1>6. QED
  BY <1>2, <1>3, <1>4, <1>5 DEF PoolInv

LEMMA RefuseInv ==
  ASSUME PoolInv, NEW t \in Threads, Refuse(t)
  PROVE  PoolInv'
BY DEF PoolInv, TypeOK, PoolConserved, get_stats, ExclusiveUse, Refuse, Results

LEMMA ConnectionLostInv ==
  ASSUME PoolInv, NEW c \in Conn, ConnectionLost(c)
  PROVE  PoolInv'
BY DEF PoolInv, TypeOK, PoolConserved, get_stats, ExclusiveUse, ConnectionLost

LEMMA StutterInv ==
  ASSUME PoolInv, UNCHANGED vars
  PROVE  PoolInv'
BY DEF PoolInv, TypeOK, PoolConserved, get_stats, ExclusiveUse, vars

(* Every step preserves the invariant.                                      *)
LEMMA NextInv == PoolInv /\ [Next]_vars => PoolInv'
<1> SUFFICES ASSUME PoolInv, [Next]_vars PROVE PoolInv'
  OBVIOUS
<1>1. CASE \E t \in Threads : borrow(t)
  <2>1. PICK t \in Threads : borrow(t)
    BY <1>1
  <2>2. CASE BorrowPooled(t)
    BY <2>2, BorrowPooledInv
  <2>3. CASE BorrowReplacement(t)
    BY <2>3, BorrowReplacementInv
  <2>4. CASE ReplacementFails(t) \/ BorrowUnavailable(t)
    BY <2>4, RefuseInv DEF ReplacementFails, BorrowUnavailable
  <2>5. QED
    BY <2>1, <2>2, <2>3, <2>4 DEF borrow
<1>2. CASE \E t \in Threads : statement(t)
  BY <1>2, StatementInv
<1>3. CASE \E t \in Threads : unborrow(t)
  BY <1>3, UnborrowInv
<1>4. CASE \E c \in Conn : ConnectionLost(c)
  BY <1>4, ConnectionLostInv
<1>5. CASE UNCHANGED vars
  BY <1>5, StutterInv
<1>6. QED
  BY <1>1, <1>2, <1>3, <1>4, <1>5 DEF Next

-----------------------------------------------------------------------------
(* The inductive invariant holds in every reachable state, whatever the     *)
(* number of threads and connections and whatever fails.                    *)
THEOREM PoolInvariant == Spec => []PoolInv
<1>1. QED
  BY PoolInit, NextInv, PTL DEF Spec

(* The variables keep their types.                                          *)
THEOREM TypeCorrect == Spec => []TypeOK
<1>1. PoolInv => TypeOK
  BY DEF PoolInv
<1>2. QED
  BY <1>1, PoolInvariant, PTL

(* borrow() and unborrow() neither leak nor duplicate a connection.         *)
THEOREM Conservation == Spec => []PoolConserved
<1>1. PoolInv => PoolConserved
  BY DEF PoolInv
<1>2. QED
  BY <1>1, PoolInvariant, PTL

(* No connection is shared by two threads or destroyed while in use.        *)
THEOREM Exclusion == Spec => []ExclusiveUse
<1>1. PoolInv => ExclusiveUse
  BY DEF PoolInv
<1>2. QED
  BY <1>1, PoolInvariant, PTL

(* borrow() gives up only while every connection of the pool is in the      *)
(* hands of another thread: each is borrowed, none is abandoned, and each   *)
(* thread has one at most.                                                  *)
THEOREM Capacity == Spec => []CapacitySuffices
<1>1. PoolInv => CapacitySuffices
  <2>1. SUFFICES ASSUME PoolInv, NEW t \in Threads, pc[t] = "idle",
                        pool = <<>>, Abandoned = {}
                 PROVE  Cardinality({u \in Threads \ {t} : held[u] # NoConn})
                          = PoolSize
    BY DEF CapacitySuffices
  <2> DEFINE Users == {u \in Threads \ {t} : held[u] # NoConn}
             h == [u \in Users |-> held[u]]
  <2>2. \A c \in borrowed : \E u \in Threads : held[u] = c
    BY <2>1 DEF Abandoned
  <2>3. held[t] = NoConn /\ NoConn \notin borrowed
    BY <2>1, PoolAssumption DEF PoolInv, TypeOK
  <2>4. /\ IsFiniteSet(borrowed)
        /\ Cardinality(borrowed) = PoolSize
    <3>1. Len(pool) = 0
      BY <2>1
    <3>2. Cardinality(borrowed) \in Nat
      BY <2>1, FS_CardinalityType DEF PoolInv
    <3>3. QED
      BY <2>1, <3>1, <3>2, PoolAssumption DEF PoolInv, PoolConserved, get_stats
  <2>5. h \in [Users -> borrowed]
    BY <2>1 DEF PoolInv, ExclusiveUse
  <2>6. \A u, v \in Users : h[u] = h[v] => u = v
    BY <2>1 DEF PoolInv, ExclusiveUse
  <2>7. \A c \in borrowed : \E u \in Users : h[u] = c
    BY <2>2, <2>3
  <2>8. /\ h \in Injection(Users, borrowed)
        /\ h \in Surjection(Users, borrowed)
    <3> HIDE DEF h, Users
    <3> QED
      BY <2>5, <2>6, <2>7 DEF Injection, IsInjective, Surjection
  <2>9. Cardinality(Users) = Cardinality(borrowed)
    <3> HIDE DEF h, Users
    <3> QED
      BY <2>4, <2>8, FS_Injection
  <2>10. QED
    BY <2>4, <2>9
<1>2. QED
  BY <1>1, PoolInvariant, PTL

-----------------------------------------------------------------------------
(* The lease's Cardinality is the pool's: both are that of FiniteSets.      *)
LEMMA SameCardinality == \A S : Lease!Cardinality(S) = Cardinality(S)
BY DEF Lease!Cardinality, Cardinality

(* There are at most as many holders as connections that may be held.       *)
LEMMA HoldersBound ==
  ASSUME PoolInv, NEW S, IsFiniteSet(S),
         \A u \in Threads : held[u] # NoConn => held[u] \in S
  PROVE  /\ Cardinality(Lease!Holders) \in Nat
         /\ Cardinality(Lease!Holders) <= Cardinality(S)
<1>1. DEFINE h == [u \in Lease!Holders |-> held[u]]
<1>2. h \in [Lease!Holders -> S]
  BY DEF Lease!Holders
<1>3. \A u, v \in Lease!Holders : h[u] = h[v] => u = v
  BY DEF PoolInv, ExclusiveUse, Lease!Holders
<1>4. h \in Injection(Lease!Holders, S)
  BY <1>2, <1>3 DEF Injection, IsInjective
<1>5. IsFiniteSet(Lease!Holders)
  BY PoolAssumption, FS_Subset DEF Lease!Holders
<1>6. QED
  BY <1>4, <1>5, FS_Injection, FS_CardinalityType

(* Taking a connection, pooled or new, acquires a lease.                    *)
LEMMA BorrowAcquires ==
  ASSUME PoolInv, NEW t \in Threads, BorrowPooled(t) \/ BorrowReplacement(t)
  PROVE  Lease!Acquire(t)
<1>1. held[t] = NoConn
  BY DEF PoolInv, BorrowPooled, BorrowReplacement
<1>2. /\ Len(pool) \in Nat
      /\ Cardinality(borrowed) \in Nat
      /\ Len(pool) + Cardinality(borrowed) = PoolSize
  BY LenProperties, FS_CardinalityType DEF PoolInv, TypeOK, PoolConserved, get_stats
<1>3. CASE BorrowPooled(t)
  <2>1. /\ Head(pool) \in Conn
        /\ Head(pool) \in Range(pool)
        /\ Len(pool) # 0
    <3>1. /\ pool \in Seq(Conn) /\ pool # <<>>
          /\ \A i, j \in DOMAIN pool : pool[i] = pool[j] => i = j
      BY <1>3 DEF PoolInv, TypeOK, PoolConserved, BorrowPooled
    <3>2. QED
      BY <3>1, PopFront, EmptySeq
  <2>2. \A u \in Threads : held[u] # Head(pool)
    BY <2>1, PoolAssumption DEF PoolInv, PoolConserved, ExclusiveUse
  <2>3. Cardinality(Lease!Holders) <= Cardinality(borrowed)
        /\ Cardinality(Lease!Holders) \in Nat
    BY HoldersBound DEF PoolInv, ExclusiveUse
  <2>4. Cardinality(Lease!Holders) < PoolSize
    BY <1>2, <2>1, <2>3, PoolAssumption
  <2>5. held' = [held EXCEPT ![t] = Head(pool)]
    BY <1>3 DEF BorrowPooled, Obtain
  <2>6. QED
    BY <1>1, <2>1, <2>2, <2>4, <2>5, SameCardinality DEF Lease!Acquire
<1>4. CASE BorrowReplacement(t)
  <2>1. PICK old \in Abandoned, new \in Fresh : Obtain(t, new)
    BY <1>4 DEF BorrowReplacement
  <2>2. /\ old \in borrowed
        /\ \A u \in Threads : held[u] # old
        /\ new \in Conn
        /\ new \notin borrowed
    BY DEF Abandoned, Fresh, Circulating
  <2>3. \A u \in Threads : held[u] # new
    BY <2>2, PoolAssumption DEF PoolInv, ExclusiveUse
  <2>4. /\ IsFiniteSet(borrowed \ {old})
        /\ Cardinality(borrowed \ {old}) = Cardinality(borrowed) - 1
    BY <2>2, FS_RemoveElement DEF PoolInv
  <2>5. /\ Cardinality(Lease!Holders) \in Nat
        /\ Cardinality(Lease!Holders) <= Cardinality(borrowed \ {old})
    <3>1. \A u \in Threads : held[u] # NoConn => held[u] \in borrowed \ {old}
      BY <2>2 DEF PoolInv, ExclusiveUse
    <3>2. QED
      BY <2>4, <3>1, HoldersBound
  <2>6. Cardinality(Lease!Holders) < PoolSize
    BY <1>2, <2>4, <2>5, PoolAssumption
  <2>7. QED
    BY <1>1, <2>1, <2>2, <2>3, <2>6, SameCardinality DEF Lease!Acquire, Obtain
<1>5. QED
  BY <1>3, <1>4

(* Every step of the pool is a step of the lease or leaves it unchanged.    *)
LEMMA StepRefines == PoolInv /\ [Next]_vars => [Lease!Next]_held
<1> SUFFICES ASSUME PoolInv, [Next]_vars PROVE [Lease!Next]_held
  OBVIOUS
<1>1. CASE \E t \in Threads : BorrowPooled(t) \/ BorrowReplacement(t)
  BY <1>1, BorrowAcquires DEF Lease!Next
<1>2. CASE \E t \in Threads : ReplacementFails(t) \/ BorrowUnavailable(t)
  BY <1>2 DEF ReplacementFails, BorrowUnavailable, Refuse
<1>3. CASE \E t \in Threads : StatementSucceeds(t) \/ StatementFails(t)
  BY <1>3 DEF StatementSucceeds, StatementFails
<1>4. CASE \E t \in Threads : StatementThrows(t) \/ unborrow(t)
  <2>1. PICK t \in Threads : StatementThrows(t) \/ unborrow(t)
    BY <1>4
  <2>2. pc[t] # "idle" /\ held' = [held EXCEPT ![t] = NoConn]
    BY <2>1 DEF StatementThrows, unborrow
  <2>3. held[t] # NoConn
    BY <2>2 DEF PoolInv
  <2>4. QED
    BY <2>2, <2>3 DEF Lease!Next, Lease!Release
<1>5. CASE \E c \in Conn : ConnectionLost(c)
  BY <1>5 DEF ConnectionLost
<1>6. CASE UNCHANGED vars
  BY <1>6 DEF vars
<1>7. QED
  BY <1>1, <1>2, <1>3, <1>4, <1>5, <1>6 DEF Next, borrow, statement

(* The pool with its deque, borrowed set and replacement rule implements    *)
(* the exclusive, bounded lease its callers rely on.                        *)
THEOREM Refinement == Spec => LeaseSpec
<1>1. Init => Lease!Init
  BY DEF Init, Lease!Init
<1>2. QED
  BY <1>1, PoolInvariant, StepRefines, PTL DEF Spec, LeaseSpec, Lease!Spec

=============================================================================
