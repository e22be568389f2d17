------------------------ MODULE HttpConnectionProofs ------------------------
(***************************************************************************)
(* Proofs about a connection of the HTTP server, for any number of         *)
(* requests: its timers, and what becomes of the requests that come in     *)
(* turn.                                                                   *)
(***************************************************************************)
EXTENDS HttpConnection, SequenceTheorems, TLAPS

(* Types, but for the bound on the replies, which takes counting.           *)
Types ==
  /\ at \in {"accept", "head", "content", "resource", "write", "nothing"}
  /\ request \in Heads \cup {NoRequest}
  /\ timers \subseteq {"head", "content", "response"}
  /\ closing \subseteq {"strand", "loose"}
  /\ socket \in {"open", "late", "closed"}
  /\ blocked \in BOOLEAN
  /\ stream \in Seq(Heads \cup {Content})
  /\ sent \in 0..MaxRequests
  /\ answered \in Nat
  /\ ahead \in BOOLEAN
  /\ lost \in BOOLEAN

LEMMA ContentIsNoHead == Content \notin Heads
<1>1. \A h \in Heads : h.kind \in Kinds
  BY DEF Heads, Message
<1>2. Content.kind \notin Kinds
  BY DEF Content, Message, Kinds
<1>3. QED
  BY <1>1, <1>2

(* Whatever is taken for a request is one. *)
LEMMA TakenIsHead ==
  ASSUME Types, NEW i \in DOMAIN stream, NEW h \in TakenFor(i)
  PROVE  h \in Heads
BY DEF Types, TakenFor

-----------------------------------------------------------------------------
(* Each step that moves the connection on leaves it waiting under a timer,  *)
(* or with nothing to wait for.                                             *)
Guard ==
  at \notin {"accept", "nothing"} /\ socket = "open" => timers # {} \/ closing # {}

(* What a callback makes of the connection. *)
Progress ==
  /\ at' \in {"head", "content", "resource", "nothing"}
  /\ request' \in Heads \cup {NoRequest}
  /\ at' = "head" => timers' = {"head"}
  /\ at' = "content" => timers' = {"content"}
  /\ at' = "resource" => timers' = {"response"}
  /\ timers' \subseteq {"head", "content", "response"}
  /\ closing' \subseteq {"strand", "loose"}

LEMMA ReturnProgress == Types /\ Return => Progress
BY DEF Types, Return, Progress

LEMMA FinishProgress == Types /\ Finish => Progress
BY DEF Types, Finish, Read, Return, Progress

LEMMA FindProgress ==
  ASSUME Types, NEW h \in Heads, FindResource(h)
  PROVE  Progress
BY DEF Types, FindResource, CallResource, Return, Progress

LEMMA HeadProgress ==
  ASSUME Types, NEW h \in Heads, NEW n, UseHead(h, n)
  PROVE  Progress
BY FindProgress, ReturnProgress DEF Types, UseHead, AwaitContent, Progress

(* A callback that leaves Types: the stream it leaves is left to prove.     *)
LEMMA TypesAfterCallback ==
  ASSUME Types, Progress, socket' \in {"open", "late", "closed"},
         UNCHANGED <<blocked, sent, ahead>>,
         stream' \in Seq(Heads \cup {Content}), answered' \in Nat,
         lost' \in BOOLEAN
  PROVE  Types'
BY DEF Types, Progress

LEMMA CallbackSocket ==
  ASSUME Types, NEW from, Callback(from)
  PROVE  /\ socket' \in {"open", "late", "closed"}
         /\ socket' = "open" => socket = "open"
         /\ UNCHANGED <<blocked, sent, ahead>>
BY DEF Types, Callback

LEMMA StageAfterProgress ==
  ASSUME Types, Progress
  PROVE  TimersFollowStage' /\ Guard'
BY DEF Progress, TimersFollowStage, Guard

-----------------------------------------------------------------------------
(* What each callback makes of the connection. *)

LEMMA HeadReadProgress ==
  ASSUME Types, HeadRead
  PROVE  Progress /\ Types'
<1>1. PICK i \in DOMAIN stream : \E n \in i..Len(stream), h \in TakenFor(i) :
        /\ Succeeds("head")
        /\ stream' = SubSeq(stream, n + 1, Len(stream))
        /\ lost' = (lost \/ n - i > IF h.content THEN 1 ELSE 0)
        /\ UseHead(h, n - i)
        /\ UNCHANGED answered
  BY DEF HeadRead
<1>2. PICK n \in i..Len(stream), h \in TakenFor(i) :
        /\ Succeeds("head")
        /\ stream' = SubSeq(stream, n + 1, Len(stream))
        /\ lost' = (lost \/ n - i > IF h.content THEN 1 ELSE 0)
        /\ UseHead(h, n - i)
        /\ UNCHANGED answered
  BY <1>1
<1>3. Progress
  BY <1>2, TakenIsHead, HeadProgress
<1>4. stream' \in Seq(Heads \cup {Content}) /\ answered' \in Nat
  <2>1. Len(stream) \in Nat /\ n \in Nat
    BY DEF Types
  <2>2. QED
    BY <1>2, <2>1 DEF Types
<1>5. lost' \in BOOLEAN
  BY <1>2 DEF Types
<1>6. QED
  BY <1>2, <1>3, <1>4, <1>5, CallbackSocket, TypesAfterCallback DEF Succeeds

LEMMA ContentReadProgress ==
  ASSUME Types, at = "content" => request \in Heads, ContentRead
  PROVE  Progress /\ Types'
<1>1. Callback("content") /\ request \in Heads
  BY DEF ContentRead, Succeeds, Callback
<1>2. Progress
  BY <1>1, FindProgress DEF ContentRead
<1>3. /\ stream' \in Seq(Heads \cup {Content}) /\ answered' \in Nat
      /\ lost' \in BOOLEAN
  BY DEF ContentRead, Types
<1>4. QED
  BY <1>1, <1>2, <1>3, CallbackSocket, TypesAfterCallback

LEMMA OtherProgress ==
  ASSUME Types, Accept \/ ReadFails \/ Written \/ WriteFails
  PROVE  Progress /\ Types'
<1>1. CASE Accept
  <2>1. Progress
    BY <1>1 DEF Accept, Read, Progress
  <2>2. QED
    BY <1>1, <2>1, CallbackSocket, TypesAfterCallback DEF Accept, Types
<1>2. CASE ReadFails
  BY <1>2, ReturnProgress, CallbackSocket, TypesAfterCallback DEF ReadFails, Types
<1>3. CASE WriteFails
  BY <1>3, ReturnProgress, CallbackSocket, TypesAfterCallback DEF WriteFails, Types
<1>4. CASE Written
  <2>1. answered' \in Nat
    BY <1>4 DEF Written, Types
  <2>2. QED
    BY <1>4, <2>1, FinishProgress, CallbackSocket, TypesAfterCallback
    DEF Written, Succeeds, Types
<1>5. QED
  BY <1>1, <1>2, <1>3, <1>4

-----------------------------------------------------------------------------
(* The timers.                                                              *)
TimerInv ==
  /\ Types
  /\ at = "content" => request \in Heads
  /\ TimersFollowStage
  /\ Guard

LEMMA ProgressKeepsHead ==
  ASSUME Types, HeadRead \/ ContentRead \/ Accept \/ ReadFails \/ Written \/ WriteFails
  PROVE  at' = "content" => request' \in Heads
<1>1. CASE HeadRead
  <2>1. PICK i \in DOMAIN stream : \E n \in i..Len(stream), h \in TakenFor(i) :
          UseHead(h, n - i)
    BY <1>1 DEF HeadRead
  <2>2. PICK n \in i..Len(stream), h \in TakenFor(i) :
          UseHead(h, n - i)
    BY <2>1
  <2>3. h \in Heads
    BY <2>2, TakenIsHead
  <2>4. QED
    BY <2>2, <2>3 DEF UseHead, AwaitContent, FindResource, CallResource, Return
<1>2. CASE ContentRead
  BY <1>2 DEF ContentRead, FindResource, CallResource, Return
<1>3. CASE Accept \/ ReadFails \/ Written \/ WriteFails
  BY <1>3 DEF Accept, ReadFails, Written, WriteFails, Finish, Read, Return
<1>4. QED
  BY <1>1, <1>2, <1>3

LEMMA TimerServer ==
  ASSUME TimerInv, server
  PROVE  TimerInv'
<1>1. CASE HeadRead \/ ContentRead \/ Accept \/ ReadFails \/ Written \/ WriteFails
  BY <1>1, HeadReadProgress, ContentReadProgress, OtherProgress,
     StageAfterProgress, ProgressKeepsHead DEF TimerInv
<1>2. CASE ResourceReturns
  <2>1. CASE Return
    <3>1. Progress
      BY <2>1, ReturnProgress DEF TimerInv
    <3>2. QED
      BY <1>2, <2>1, <3>1, StageAfterProgress, TypesAfterCallback
      DEF TimerInv, ResourceReturns, Types, Return, clientVars
  <2>2. CASE Finish
    <3>1. Progress /\ at' # "content"
      BY <2>2, FinishProgress DEF TimerInv, Finish, Read, Return
    <3>2. QED
      BY <1>2, <3>1, StageAfterProgress, TypesAfterCallback
      DEF TimerInv, ResourceReturns, Types, clientVars
  <2>3. CASE at' = "write" /\ UNCHANGED <<request, timers, closing>>
    BY <1>2, <2>3 DEF TimerInv, ResourceReturns, Types, clientVars, TimersFollowStage, Guard
  <2>4. QED
    BY <1>2, <2>1, <2>2, <2>3 DEF ResourceReturns
<1>3. QED
  BY <1>1, <1>2 DEF server

LEMMA TimerOthers ==
  ASSUME TimerInv,
         \/ ClientSends \/ OthersBlock
         \/ \E t \in {"head", "content", "response"} : Expire(t)
         \/ \E x \in {"strand", "loose"} : Close(x)
  PROVE  TimerInv'
<1> USE DEF TimerInv, Types, TimersFollowStage, Guard, serverVars, clientVars
<1>1. CASE ClientSends
  <2>1. PICK h \in Heads :
          stream' = stream \o (IF h.content THEN <<h, Content>> ELSE <<h>>)
    BY <1>1 DEF ClientSends
  <2>2. stream' \in Seq(Heads \cup {Content})
    <3>1. <<h>> \in Seq(Heads \cup {Content})
      OBVIOUS
    <3>2. <<h, Content>> \in Seq(Heads \cup {Content})
      OBVIOUS
    <3>3. CASE h.content
      BY <2>1, <3>2, <3>3
    <3>4. CASE ~h.content
      BY <2>1, <3>1, <3>4
    <3>5. QED
      BY <3>3, <3>4
  <2>3. sent' \in 0..MaxRequests /\ ahead' \in BOOLEAN
    BY <1>1, HttpAssumption DEF ClientSends
  <2>4. QED
    BY <1>1, <2>2, <2>3 DEF ClientSends
<1>2. CASE OthersBlock
  BY <1>2 DEF OthersBlock
<1>3. ASSUME NEW t \in {"head", "content", "response"}, Expire(t)
      PROVE  TimerInv'
  BY <1>3 DEF Expire
<1>4. ASSUME NEW x \in {"strand", "loose"}, Close(x)
      PROVE  TimerInv'
  BY <1>4 DEF Close, Closed
<1>5. QED
  BY <1>1, <1>2, <1>3, <1>4

LEMMA TimerInit == Init => TimerInv
<1> SUFFICES ASSUME Init PROVE TimerInv
  OBVIOUS
<1>1. stream \in Seq(Heads \cup {Content}) /\ sent \in 0..MaxRequests
  BY HttpAssumption DEF Init
<1>2. QED
  BY <1>1 DEF Init, TimerInv, Types, TimersFollowStage, Guard

THEOREM TimerInvariant == Spec => []TimerInv
<1>1. TimerInv /\ [Next]_vars => TimerInv'
  <2>1. CASE UNCHANGED vars
    BY <2>1
    DEF vars, serverVars, clientVars, TimerInv, Types, TimersFollowStage, Guard
  <2>2. QED
    BY <2>1, TimerServer, TimerOthers DEF Next
<1>2. QED
  BY <1>1, TimerInit, PTL DEF Spec

(* Whatever the server waits for on an open connection, a timer is running  *)
(* or has just run out, on every path through the callbacks.                *)
THEOREM TimersGuard == Spec => []GuardedByTimer
<1>1. TimerInv => GuardedByTimer
  BY DEF TimerInv, Guard, GuardedByTimer, Open
<1>2. QED
  BY <1>1, TimerInvariant, PTL

(* A stage of a request is under no timer but its own.                      *)
THEOREM StagesHaveTheirTimers == Spec => []TimersFollowStage
<1>1. TimerInv => TimersFollowStage
  BY DEF TimerInv, TimersFollowStage
<1>2. QED
  BY <1>1, TimerInvariant, PTL

-----------------------------------------------------------------------------
(* Requests in turn: at most one is under way, and the stream holds the     *)
(* part of it that has not been read.                                       *)
Whole(h) == IF h.content THEN <<h, Content>> ELSE <<h>>

UnderWay == sent = answered + 1

TurnInv ==
  ~ahead =>
    /\ ~lost
    /\ sent = answered \/ UnderWay
    /\ at \in {"accept", "head"} =>
         stream = <<>> \/ (UnderWay /\ \E h \in Heads : stream = Whole(h))
    /\ at = "content" => UnderWay /\ stream = <<Content>>
    /\ at \in {"resource", "write"} => UnderWay /\ stream = <<>>

(* The head of a whole request is read alone, or with its content.          *)
LEMMA HeadInTurn ==
  ASSUME NEW h \in Heads, NEW i \in DOMAIN Whole(h),
         \A j \in 1..(i - 1) : Whole(h)[j] = Content,
         NEW n \in i..Len(Whole(h))
  PROVE  /\ i = 1 /\ Whole(h)[1] = h
         /\ n - i = 0 \/ (n - i = 1 /\ h.content)
         /\ n - i = 0 /\ h.content => SubSeq(Whole(h), n + 1, Len(Whole(h))) = <<Content>>
         /\ n - i = 1 \/ ~h.content => SubSeq(Whole(h), n + 1, Len(Whole(h))) = <<>>
<1>1. CASE h.content
  <2>1. Whole(h) = <<h, Content>>
    BY <1>1 DEF Whole
  <2>2. i = 1 /\ n \in {1, 2}
    BY <2>1, ContentIsNoHead
  <2>3. SubSeq(<<h, Content>>, 2, 2) = <<Content>>
    <3>1. <<h, Content>> \in Seq({h, Content}) /\ Len(<<h, Content>>) = 2
      OBVIOUS
    <3>2. Tail(<<h, Content>>) = <<Content>>
      OBVIOUS
    <3>3. QED
      BY <3>1, <3>2, TailIsSubSeq
  <2>4. SubSeq(<<h, Content>>, 3, 2) = <<>>
    OBVIOUS
  <2>5. QED
    BY <1>1, <2>1, <2>2, <2>3, <2>4
<1>2. CASE ~h.content
  <2>1. Whole(h) = <<h>>
    BY <1>2 DEF Whole
  <2>2. i = 1 /\ n = 1
    BY <2>1
  <2>3. SubSeq(<<h>>, 2, 1) = <<>>
    OBVIOUS
  <2>4. QED
    BY <1>2, <2>1, <2>2, <2>3
<1>3. QED
  BY <1>1, <1>2

LEMMA TurnHeadRead ==
  ASSUME Types, TurnInv, HeadRead
  PROVE  TurnInv'
<1> SUFFICES ASSUME ~ahead' PROVE TurnInv'
  BY DEF TurnInv
<1>1. /\ at = "head" /\ ~ahead /\ ~lost
      /\ UNCHANGED <<sent, answered>>
  BY DEF HeadRead, Succeeds, Callback, TurnInv
<1>2. PICK i \in DOMAIN stream : \E n \in i..Len(stream), h \in TakenFor(i) :
        /\ \A j \in 1..(i - 1) : stream[j] = Content
        /\ stream' = SubSeq(stream, n + 1, Len(stream))
        /\ lost' = (lost \/ n - i > IF h.content THEN 1 ELSE 0)
        /\ UseHead(h, n - i)
  BY DEF HeadRead
<1>3. PICK n \in i..Len(stream), h \in TakenFor(i) :
        /\ \A j \in 1..(i - 1) : stream[j] = Content
        /\ stream' = SubSeq(stream, n + 1, Len(stream))
        /\ lost' = (lost \/ n - i > IF h.content THEN 1 ELSE 0)
        /\ UseHead(h, n - i)
  BY <1>2
<1>4. PICK g \in Heads : UnderWay /\ stream = Whole(g)
  BY <1>1 DEF TurnInv
<1>5. /\ h = g
      /\ n - i = 0 \/ (n - i = 1 /\ h.content)
      /\ n - i = 0 /\ h.content => stream' = <<Content>>
      /\ n - i = 1 \/ ~h.content => stream' = <<>>
  <2>1. /\ i = 1 /\ Whole(g)[1] = g
        /\ n - i = 0 \/ (n - i = 1 /\ g.content)
        /\ n - i = 0 /\ g.content => stream' = <<Content>>
        /\ n - i = 1 \/ ~g.content => stream' = <<>>
    BY <1>3, <1>4, HeadInTurn
  <2>2. h = g
    BY <1>3, <1>4, <2>1, ContentIsNoHead DEF TakenFor
  <2>3. QED
    BY <2>1, <2>2
<1>6. ~lost'
  <2>1. ~(n - i > IF h.content THEN 1 ELSE 0)
    BY <1>5
  <2>2. QED
    BY <1>1, <1>3, <2>1
<1>7. /\ at' \in {"content", "resource", "nothing"}
      /\ at' = "content" => n - i = 0 /\ h.content
      /\ at' = "resource" => n - i = 1 \/ ~h.content
  BY <1>3, <1>5 DEF UseHead, AwaitContent, FindResource, CallResource, Return
<1>8. QED
  BY <1>1, <1>4, <1>5, <1>6, <1>7 DEF TurnInv, UnderWay

LEMMA TurnServer ==
  ASSUME Types, TurnInv, server
  PROVE  TurnInv'
<1>1. CASE HeadRead
  BY <1>1, TurnHeadRead
<1>2. CASE ContentRead
  <2>1. at = "content" /\ at' \in {"resource", "nothing"}
    BY <1>2 DEF ContentRead, Succeeds, Callback, FindResource, CallResource, Return
  <2>2. stream = <<Content>> => stream' = <<>>
    BY <1>2 DEF ContentRead
  <2>3. UNCHANGED <<sent, answered, ahead, lost>>
    BY <1>2 DEF ContentRead, Succeeds, Callback
  <2>4. QED
    BY <2>1, <2>2, <2>3 DEF TurnInv, UnderWay
<1>3. CASE Accept
  BY <1>3 DEF Accept, Callback, Read, TurnInv, UnderWay
<1>4. CASE ReadFails \/ WriteFails
  BY <1>4 DEF ReadFails, WriteFails, Callback, Return, TurnInv, UnderWay
<1>5. CASE Written
  <2>1. at = "write" /\ at' \in {"head", "nothing"}
    BY <1>5 DEF Written, Succeeds, Callback, Finish, Read, Return
  <2>2. answered' = answered + 1 /\ UNCHANGED <<sent, ahead, lost, stream>>
    BY <1>5 DEF Written, Succeeds, Callback
  <2>3. QED
    BY <2>1, <2>2 DEF TurnInv, UnderWay, Types
<1>6. CASE ResourceReturns
  <2>1. at = "resource" /\ at' \in {"head", "write", "nothing"}
    BY <1>6 DEF ResourceReturns, Finish, Read, Return
  <2>2. UNCHANGED <<sent, answered, ahead, lost, stream>>
    BY <1>6 DEF ResourceReturns, clientVars
  <2>3. QED
    BY <2>1, <2>2 DEF TurnInv, UnderWay
<1>7. QED
  BY <1>1, <1>2, <1>3, <1>4, <1>5, <1>6 DEF server

LEMMA TurnOthers ==
  ASSUME Types, TurnInv,
         \/ ClientSends \/ OthersBlock
         \/ \E t \in {"head", "content", "response"} : Expire(t)
         \/ \E x \in {"strand", "loose"} : Close(x)
  PROVE  TurnInv'
<1>1. CASE ClientSends
  <2>1. SUFFICES ASSUME ~ahead' PROVE TurnInv'
    BY DEF TurnInv
  <2>2. ~ahead /\ ~(sent > answered)
    BY <1>1, <2>1 DEF ClientSends
  <2>3. sent = answered /\ ~lost
    BY <2>2 DEF TurnInv, UnderWay, Types
  <2>4. /\ at \notin {"content", "resource", "write"}
        /\ at \in {"accept", "head"} => stream = <<>>
    BY <2>2, <2>3 DEF TurnInv, UnderWay, Types
  <2>5. UNCHANGED <<at, answered, lost>> /\ sent' = answered' + 1
    BY <1>1, <2>3 DEF ClientSends, serverVars
  <2>6. PICK h \in Heads : stream' = stream \o Whole(h)
    BY <1>1 DEF ClientSends, Whole
  <2>7. <<>> \o Whole(h) = Whole(h)
    BY DEF Whole
  <2>8. QED
    BY <2>3, <2>4, <2>5, <2>6, <2>7 DEF TurnInv, UnderWay
<1>2. CASE UNCHANGED <<at, stream, sent, answered, ahead, lost>>
  BY <1>2 DEF TurnInv, UnderWay
<1>3. QED
  BY <1>1, <1>2 DEF OthersBlock, Expire, Close, serverVars, clientVars

(* A client that waits for each reply has every request read whole, however *)
(* many it sends and whatever becomes of them.                              *)
THEOREM RequestsInTurn == Spec => []ReadInTurn
<1>1. TimerInv /\ TurnInv => ReadInTurn
  BY DEF TimerInv, Types, TurnInv, UnderWay, ReadInTurn
<1>2. Init => TurnInv
  BY DEF Init, TurnInv
<1>3. TimerInv /\ TurnInv /\ [Next]_vars => TurnInv'
  <2>1. CASE UNCHANGED vars
    BY <2>1 DEF vars, serverVars, clientVars, TurnInv, UnderWay
  <2>2. QED
    BY <2>1, TurnServer, TurnOthers DEF Next, TimerInv
<1>4. QED
  BY <1>1, <1>2, <1>3, TimerInvariant, PTL DEF Spec

-----------------------------------------------------------------------------
(* The bound on the replies: each takes a part of what was sent out of the  *)
(* stream, and a request has two at the most.                               *)
Busy == IF at \in {"content", "resource", "write"} THEN 1 ELSE 0

CountInv == answered + Busy + Len(stream) <= 2 * sent

LEMMA Ledger ==
  \A a, c, d, s \in Nat : \A b, e \in {0, 1} :
    a + b + c <= 2 * s /\ d + e <= c + b => a + e + d <= 2 * s
OBVIOUS

LEMMA CountServer ==
  ASSUME Types, Types', CountInv, server
  PROVE  CountInv'
<1> DEFINE c == Len(stream)
           d == Len(stream')
<1>1. c \in Nat /\ d \in Nat /\ answered \in Nat /\ sent \in Nat
  BY HttpAssumption DEF Types
<1>2. answered + Busy + c <= 2 * sent
  BY DEF CountInv
<1>3. SUFFICES answered' + Busy' + d <= 2 * sent'
  BY DEF CountInv
<1>4. Busy \in {0, 1} /\ Busy' \in {0, 1}
  BY DEF Busy
<1>5. sent' = sent
  BY DEF server, Accept, HeadRead, ContentRead, ReadFails, ResourceReturns,
         Written, WriteFails, Succeeds, Callback, clientVars
<1> HIDE DEF c, d
<1>6. CASE HeadRead
  <2>1. d + 1 <= c
    <3>1. PICK i \in DOMAIN stream : \E n \in i..Len(stream) :
            stream' = SubSeq(stream, n + 1, Len(stream))
      BY <1>6 DEF HeadRead
    <3>2. PICK n \in i..Len(stream) : stream' = SubSeq(stream, n + 1, Len(stream))
      BY <3>1
    <3>3. n \in Nat /\ 1 <= n /\ n <= Len(stream)
      BY DEF Types
    <3>4. Len(stream') = Len(stream) - n
      BY <3>2, <3>3 DEF Types
    <3>5. QED
      BY <1>1, <3>3, <3>4 DEF c, d
  <2>2. answered' = answered /\ Busy = 0
    BY <1>6 DEF HeadRead, Succeeds, Callback, Busy
  <2>3. d + Busy' <= c + Busy
    <3>1. CASE Busy' = 0
      BY <1>1, <1>4, <2>1, <2>2, <3>1
    <3>2. CASE Busy' = 1
      BY <1>1, <1>4, <2>1, <2>2, <3>2
    <3>3. QED
      BY <1>4, <3>1, <3>2
  <2>4. QED
    BY <1>1, <1>2, <1>4, <1>5, <2>2, <2>3, Ledger
<1>7. CASE ContentRead
  <2>1. d <= c
    BY <1>7 DEF ContentRead, Types, c, d
  <2>2. answered' = answered /\ Busy = 1
    BY <1>7 DEF ContentRead, Succeeds, Callback, Busy
  <2>3. d + Busy' <= c + Busy
    <3>1. CASE Busy' = 0
      BY <1>1, <1>4, <2>1, <2>2, <3>1
    <3>2. CASE Busy' = 1
      BY <1>1, <1>4, <2>1, <2>2, <3>2
    <3>3. QED
      BY <1>4, <3>1, <3>2
  <2>4. QED
    BY <1>1, <1>2, <1>4, <1>5, <2>2, <2>3, Ledger
<1>8. CASE Written
  <2>1. d = c /\ answered' = answered + 1
    BY <1>8 DEF Written, c, d
  <2>2. Busy = 1 /\ Busy' = 0
    BY <1>8 DEF Written, Succeeds, Callback, Finish, Read, Return, Busy
  <2>3. QED
    BY <1>1, <1>2, <1>5, <2>1, <2>2
<1>9. CASE Accept \/ ReadFails \/ WriteFails \/ ResourceReturns
  <2>1. d = c /\ answered' = answered
    BY <1>9
    DEF Accept, ReadFails, WriteFails, ResourceReturns, clientVars, c, d
  <2>2. Busy' = 0 \/ Busy = 1
    BY <1>9
    DEF Accept, ReadFails, WriteFails, ResourceReturns, Callback, Read,
        Return, Busy
  <2>3. d + Busy' <= c + Busy
    <3>1. CASE Busy' = 0
      BY <1>1, <1>4, <2>1, <2>2, <3>1
    <3>2. CASE Busy' = 1
      BY <1>1, <1>4, <2>1, <2>2, <3>2
    <3>3. QED
      BY <1>4, <3>1, <3>2
  <2>4. QED
    BY <1>1, <1>2, <1>4, <1>5, <2>1, <2>3, Ledger
<1>10. QED
  BY <1>6, <1>7, <1>8, <1>9 DEF server

LEMMA CountOthers ==
  ASSUME Types, Types', CountInv,
         \/ ClientSends \/ OthersBlock
         \/ \E t \in {"head", "content", "response"} : Expire(t)
         \/ \E x \in {"strand", "loose"} : Close(x)
  PROVE  CountInv'
<1>1. CASE ClientSends
  <2> DEFINE c == Len(stream)
             d == Len(stream')
  <2>1. PICK h \in Heads : stream' = stream \o Whole(h)
    BY <1>1 DEF ClientSends, Whole
  <2>2. d <= c + 2
    <3>1. Whole(h) \in Seq(Heads \cup {Content}) /\ Len(Whole(h)) \in {1, 2}
      <4>1. CASE h.content
        BY <4>1 DEF Whole
      <4>2. CASE ~h.content
        BY <4>2 DEF Whole
      <4>3. QED
        BY <4>1, <4>2
    <3>2. Len(stream') = Len(stream) + Len(Whole(h))
      BY <2>1, <3>1 DEF Types
    <3>3. Len(stream) \in Nat
      BY DEF Types
    <3>4. \A l, m, k \in Nat : m = l + k /\ k \in {1, 2} => m <= l + 2
      OBVIOUS
    <3>5. Len(stream') \in Nat /\ Len(Whole(h)) \in Nat
      BY <3>1 DEF Types
    <3>6. QED
      BY <3>1, <3>2, <3>3, <3>4, <3>5
  <2>3. c \in Nat /\ d \in Nat /\ answered \in Nat /\ sent \in Nat
    BY HttpAssumption DEF Types
  <2>4. Busy' = Busy /\ Busy \in {0, 1} /\ answered' = answered /\ sent' = sent + 1
    BY <1>1 DEF ClientSends, serverVars, Busy
  <2>5. answered + Busy + c <= 2 * sent
    BY DEF CountInv
  <2> HIDE DEF c, d
  <2>6. answered' + Busy' + d <= 2 * sent'
    BY <2>2, <2>3, <2>4, <2>5
  <2>7. QED
    BY <2>6 DEF CountInv, d
<1>2. CASE UNCHANGED <<at, stream, sent, answered>>
  BY <1>2 DEF CountInv, Busy
<1>3. QED
  BY <1>1, <1>2 DEF OthersBlock, Expire, Close, serverVars, clientVars

(* The variables of a connection keep their types; above all, there are not *)
(* more replies than heads and contents.                                    *)
THEOREM HttpTypeCorrect == Spec => []TypeOK
<1>1. TimerInv /\ CountInv => TypeOK
  <2> SUFFICES ASSUME TimerInv, CountInv PROVE TypeOK
    OBVIOUS
  <2>1. Len(stream) \in Nat
    BY DEF TimerInv, Types
  <2>2. answered \in 0..(2 * MaxRequests)
    BY <2>1, HttpAssumption DEF TimerInv, Types, CountInv, Busy
  <2>3. QED
    BY <2>2 DEF TimerInv, Types, TypeOK
<1>2. Init => CountInv
  <2> SUFFICES ASSUME Init PROVE CountInv
    OBVIOUS
  <2>1. Len(stream) = 0
    BY DEF Init
  <2>2. QED
    BY <2>1 DEF Init, CountInv, Busy
<1>3. TimerInv /\ TimerInv' /\ CountInv /\ [Next]_vars => CountInv'
  <2>1. CASE UNCHANGED vars
    BY <2>1 DEF vars, serverVars, clientVars, CountInv, Busy
  <2>2. QED
    BY <2>1, CountServer, CountOthers DEF Next, TimerInv
<1>4. QED
  BY <1>1, <1>2, <1>3, TimerInvariant, PTL DEF Spec

=============================================================================
