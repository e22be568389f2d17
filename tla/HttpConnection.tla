---------------------------- MODULE HttpConnection ----------------------------
(***************************************************************************)
(* One HTTP connection of server_http.hpp: its requests are read, handed   *)
(* to a resource and answered one after the other, with a timer for each   *)
(* part that waits for the client.                                         *)
(*                                                                         *)
(* The callbacks of a connection own its socket and its timers together:   *)
(* the socket is closed by a timer that expires, or when the last callback *)
(* that has it is gone.  A timer is cancelled by name, or destroyed with   *)
(* the callbacks that have it; either comes too late when its handler has  *)
(* been queued, which has the socket as well.  Timers run out at any time  *)
(* here.                                                                   *)
(*                                                                         *)
(* What the client sends is a stream of heads, each perhaps with a         *)
(* content behind it.  The other connections are there as far as they      *)
(* occupy the threads of the io_service.                                   *)
(***************************************************************************)
EXTENDS Naturals, Sequences

CONSTANT MaxRequests   \* bound: requests the client sends

ASSUME HttpAssumption == MaxRequests \in Nat

VARIABLES
  at,         \* the operation that is pending on the connection
  request,    \* the request being read or handled, NoRequest before its head
  timers,     \* timers that are running
  closing,    \* queued handlers of expired timers: "strand" for the one of
              \* the current request's strand, "loose" for any other
  socket,     \* "open", "closed" by a timer, or "late": closed when what was
              \* pending had already succeeded, its callback in the queue
  blocked,    \* every thread is in a handler of another connection
  stream,     \* what the client has sent and the server has not read
  sent,       \* requests sent (external)
  answered,   \* history: replies written
  ahead,      \* history: the client has sent a request before the reply to
              \* the one before it
  lost        \* history: parts of requests dropped with an earlier one

serverVars == <<at, request, timers, closing, socket>>
clientVars == <<stream, sent, ahead>>
vars == <<serverVars, blocked, clientVars, answered, lost>>

(* How a request ends: with a reply, without one, with an exception of the  *)
(* resource, without a resource, or unread because of its length or its     *)
(* first line.                                                              *)
Kinds == {"reply", "empty", "throws", "no resource", "bad length", "malformed"}

Message(kind, content) == [kind |-> kind, content |-> content]
Heads == [kind : Kinds, content : BOOLEAN] \ {Message("bad length", FALSE)}
Content == Message("content", FALSE)
NoRequest == Message("none", FALSE)

TypeOK ==
  /\ at \in {"accept", "head", "content", "resource", "write", "nothing"}
  /\ request \in Heads \cup {NoRequest}
  /\ timers \subseteq {"head", "content", "response"}
  /\ closing \subseteq {"strand", "loose"}
  /\ socket \in {"open", "late", "closed"}
  /\ blocked \in BOOLEAN
  /\ stream \in Seq(Heads \cup {Content})
  /\ sent \in 0..MaxRequests
  /\ answered \in 0..(2 * MaxRequests)
  /\ ahead \in BOOLEAN
  /\ lost \in BOOLEAN

Init ==
  /\ at = "accept"
  /\ request = NoRequest
  /\ timers = {}
  /\ closing = {}
  /\ socket = "open"
  /\ blocked \in BOOLEAN
  /\ stream = <<>>
  /\ sent = 0
  /\ answered = 0
  /\ ahead = FALSE
  /\ lost = FALSE

(* Accepted, not closed by a timer, and somebody still has the socket. *)
Open ==
  /\ at # "accept" /\ socket = "open"
  /\ at # "nothing" \/ closing # {}

-----------------------------------------------------------------------------
(* The client *)

ClientSends ==
  /\ sent < MaxRequests /\ socket = "open"
  /\ \E h \in Heads :
       stream' = stream \o (IF h.content THEN <<h, Content>> ELSE <<h>>)
  /\ sent' = sent + 1
  /\ ahead' = (ahead \/ sent > answered)
  /\ UNCHANGED <<serverVars, blocked, answered, lost>>

(* Handlers of other connections begin and end. *)
OthersBlock == blocked' = ~blocked /\ UNCHANGED <<serverVars, clientVars, answered, lost>>

-----------------------------------------------------------------------------
(* The callbacks of the connection.  Each needs a thread.                   *)

Callback(from) ==
  /\ at = from
  /\ ~blocked
  /\ socket' = IF socket = "late" THEN "closed" ELSE socket
  /\ UNCHANGED <<blocked, sent, ahead>>

Succeeds(from) == Callback(from) /\ socket # "closed"

(* Wrong on purpose: only the first read has a timer. *)
ReadWithoutTimer(closers) ==
  /\ at' = "head"
  /\ request' = NoRequest
  /\ timers' = IF at = "accept" THEN {"head"} ELSE {}
  /\ closing' = {"loose" : x \in closers}

(* read_request_and_content: a new Request, with a new buffer and strand.   *)
Read(closers) ==
  /\ at' = "head"
  /\ request' = NoRequest
  /\ timers' = {"head"}
  /\ closing' = {"loose" : x \in closers}

(* A connection is accepted, and its first request is read. *)
Accept ==
  /\ Callback("accept")
  /\ Read({})
  /\ UNCHANGED <<stream, answered, lost>>

(* The callback starts nothing more: its timer is destroyed with it, and    *)
(* the socket too, unless a timer's handler in the queue still has it.      *)
Return ==
  /\ at' = "nothing"
  /\ request' = NoRequest
  /\ timers' = {}
  /\ UNCHANGED closing

(* Wrong on purpose: the timer of the read is not cancelled. *)
CallUnderBothTimers(h) ==
  /\ at' = "resource"
  /\ request' = h
  /\ timers' = timers \cup {"response"}
  /\ UNCHANGED closing

(* write_response: the timer of the response, and the resource is called. *)
CallResource(h) ==
  /\ at' = "resource"
  /\ request' = h
  /\ timers' = {"response"}
  /\ UNCHANGED closing

(* find_resource: only a POST may be without one. *)
FindResource(h) ==
  IF h.kind = "no resource" THEN Return ELSE CallResource(h)

(* The content is waited for, under a timer of its own. *)
AwaitContent(h) ==
  /\ at' = "content"
  /\ request' = h
  /\ timers' = {"content"}
  /\ UNCHANGED closing

(* Wrong on purpose: the content is waited for even when it is there. *)
WaitAnyway(h, n) ==
  IF h.content THEN AwaitContent(h) ELSE FindResource(h)

(* The head of a request is complete, with n messages behind it in the      *)
(* buffer.                                                                  *)
UseHead(h, n) ==
  IF h.kind \in {"malformed", "bad length"} THEN Return
  ELSE IF h.content /\ n = 0 THEN AwaitContent(h)
  ELSE FindResource(h)

(* A content whose head was lost stands before the next head, or has the    *)
(* end of a head inside: the first line is whatever the content makes of    *)
(* it, and so is the request.                                               *)
TakenFor(i) == IF i = 1 /\ stream[i] # Content THEN {stream[i]} ELSE Heads

(* The buffer has everything up to the end of a head, and perhaps more: the *)
(* content, and what the client has sent ahead.  The latter is lost with    *)
(* the buffer.  Parts of messages are not told apart.                       *)
HeadRead ==
  \E i \in DOMAIN stream : \E n \in i..Len(stream), h \in TakenFor(i) :
    /\ Succeeds("head")
    /\ \A j \in 1..(i - 1) : stream[j] = Content
    /\ stream' = SubSeq(stream, n + 1, Len(stream))
    /\ lost' = (lost \/ n - i > IF h.content THEN 1 ELSE 0)
    /\ UseHead(h, n - i)
    /\ UNCHANGED answered

ContentRead ==
  /\ Succeeds("content")
  /\ stream # <<>>
  /\ stream' = Tail(stream)
  /\ FindResource(request)
  /\ UNCHANGED <<answered, lost>>

(* The read ends with an error: the socket has been closed, or the client   *)
(* has gone.                                                                *)
ReadFails ==
  /\ Callback("head") \/ Callback("content")
  /\ Return
  /\ UNCHANGED <<stream, answered, lost>>

(* The request is over.  The next is read, unless the connection is not to  *)
(* be kept: Connection: close, HTTP/1.0, or a version that is no number.    *)
Finish == Read(closing) \/ Return

(* The resource has returned, with or without a reply, or thrown. *)
ResourceReturns ==
  /\ at = "resource"
  /\ \/ request.kind = "throws" /\ Return
     \/ request.kind = "empty" /\ Finish
     \/ /\ request.kind = "reply"
        /\ at' = "write"
        /\ UNCHANGED <<request, timers, closing>>
  /\ UNCHANGED <<socket, blocked, clientVars, answered, lost>>

(* Wrong on purpose: the same reply is written again. *)
WrittenAgain ==
  /\ Succeeds("write")
  /\ answered' = answered + 1
  /\ UNCHANGED <<at, request, timers, closing, stream, lost>>

Written ==
  /\ Succeeds("write")
  /\ answered' = answered + 1
  /\ Finish
  /\ UNCHANGED <<stream, lost>>

(* flush() throws. *)
WriteFails ==
  /\ Callback("write")
  /\ Return
  /\ UNCHANGED <<stream, answered, lost>>

-----------------------------------------------------------------------------
(* The timers *)

Expire(t) ==
  /\ t \in timers
  /\ timers' = timers \ {t}
  /\ closing' = closing \cup {IF t = "response" THEN "strand" ELSE "loose"}
  /\ UNCHANGED <<at, request, socket, blocked, clientVars, answered, lost>>

(* What is pending may have succeeded by now. *)
Closed ==
  IF socket = "open" /\ at \in {"head", "content", "write"} THEN {"late", "closed"}
  ELSE IF socket = "late" THEN {"late"}
  ELSE {"closed"}

(* Wrong on purpose: the socket is closed only when nothing is pending. *)
CloseUnused(x) ==
  /\ x \in closing /\ at = "nothing"
  /\ ~blocked
  /\ socket' \in Closed
  /\ closing' = closing \ {x}
  /\ UNCHANGED <<at, request, timers, blocked, clientVars, answered, lost>>

(* The handler of a response's timer waits until its strand is free. *)
Close(x) ==
  /\ x \in closing
  /\ ~blocked
  /\ x = "strand" => at # "resource"
  /\ socket' \in Closed
  /\ closing' = closing \ {x}
  /\ UNCHANGED <<at, request, timers, blocked, clientVars, answered, lost>>

server ==
  \/ Accept
  \/ HeadRead \/ ContentRead \/ ReadFails
  \/ ResourceReturns \/ Written \/ WriteFails

Next ==
  \/ ClientSends \/ OthersBlock
  \/ server
  \/ \E t \in {"head", "content", "response"} : Expire(t)
  \/ \E x \in {"strand", "loose"} : Close(x)

Spec == Init /\ [][Next]_vars

(* Handlers return, their own and those that occupy the other threads; the  *)
(* io_service runs a callback that is ready in its turn, that of a head     *)
(* when one has come; timers run out.                                       *)
(* Nothing obliges the client to send, to read or to go away.               *)
FairSpec ==
  /\ Spec
  /\ WF_vars(blocked /\ OthersBlock)
  /\ WF_vars(ResourceReturns)
  /\ SF_vars(HeadRead /\ \E i \in DOMAIN stream : stream[i] # Content)
  /\ SF_vars(ContentRead)
  /\ SF_vars(socket # "open" /\ (ReadFails \/ WriteFails))
  /\ WF_vars(\E t \in timers : Expire(t))
  /\ \A x \in {"strand", "loose"} : SF_vars(Close(x))

-----------------------------------------------------------------------------
(* Whatever the server waits for on an open connection, a timer is running  *)
(* or has just run out: on no path through the callbacks, exceptions        *)
(* included, can a silent client keep a socket for good.                    *)
GuardedByTimer ==
  Open /\ at # "resource" => timers # {} \/ closing # {}

(* A timer is cancelled when what it waits for has come: once a resource is *)
(* called, only the timer of its response can cut the reply, but for a      *)
(* timer that had run out by then.                                          *)
TimersFollowStage ==
  /\ at = "head" => timers \subseteq {"head"}
  /\ at = "content" => timers \subseteq {"content"}
  /\ at \in {"resource", "write"} => timers \subseteq {"response"}

(* A client that waits for each reply before it sends the next request has  *)
(* every request read whole and answered once at the most: the server       *)
(* neither drops part of it, nor waits for what has already come, nor takes *)
(* anything else for a request.                                             *)
ReadInTurn ==
  ~ahead =>
    /\ ~lost /\ answered <= sent
    /\ at = "content" => stream = <<Content>>
    /\ at \in {"resource", "write"} => stream = <<>>

(* A connection ends when its client falls silent, answered or not. *)
ConnectionEnds == Open ~> ~Open

=============================================================================
