------------------------------ MODULE WsClient ------------------------------
(***************************************************************************)
(* The Effect-RPC client (talaria/t3_ws.py, T3WsClient) on its asyncio     *)
(* loop: unary requests and subscriptions that share one socket, dialled   *)
(* lazily under a lock with retries, one reader task per socket, close().  *)
(* A step is what runs between two awaits.                                 *)
(*                                                                         *)
(* The server and the network are external: a socket opens, carries frames *)
(* in order and may break; the server answers a request with Chunks, each  *)
(* held back until the one before is acknowledged, and an Exit, or fails   *)
(* all with a Defect.                                                      *)
(***************************************************************************)
EXTENDS Naturals, Sequences, FiniteSets

CONSTANTS
  Callers,    \* tasks that call request() and subscribe(), one call at a time
  Conns,      \* sockets: a bound on the connections ever opened
  MaxIds,     \* a bound on the request ids handed out
  MaxChunks,  \* a bound on the chunks of one stream
  None

ASSUME WsAssumption ==
  /\ MaxIds \in Nat /\ MaxChunks \in Nat
  /\ None \notin Conns /\ None \notin Callers

VARIABLES
  ws,        \* _ws: the socket in use
  conn,      \* each socket: unused, open, broken (by the peer) or closed (by us)
  reader,    \* each socket's _read_loop task: none, reading, ended, or failed on a frame
  wire,      \* the frames each socket has received and not yet read
  lock,      \* _lock: the caller that holds it
  call,      \* each caller's call: the await it is at, its future (a subscription:
             \* the last entry of its queue), the chunks queued, the last one taken
  pending,   \* _pending: the ids of unary calls to be answered
  streams,   \* _streams: the ids of subscriptions
  seq,       \* _seq
  closing,   \* _closing
  closer,    \* the close() at work: the await it is at and the socket it took
  srv        \* the server's side of each id

vars == <<ws, conn, reader, wire, lock, call, pending, streams, seq, closing, closer, srv>>

----------------------------------------------------------------------------
Ids == 1 .. MaxIds

IdleCall == [pc |-> "idle", kind |-> "request", id |-> 0, tries |-> 0,
             fut |-> "none", queue |-> <<>>, got |-> 0]
NoRequest == [conn |-> None, open |-> FALSE, latched |-> FALSE, sent |-> 0]
NotClosing == [pc |-> "idle", conn |-> None]

Init ==
  /\ ws = None
  /\ conn = [k \in Conns |-> "unused"]
  /\ reader = [k \in Conns |-> "none"]
  /\ wire = [k \in Conns |-> <<>>]
  /\ lock = None
  /\ call = [c \in Callers |-> IdleCall]
  /\ pending = {} /\ streams = {} /\ seq = 0
  /\ closing = FALSE /\ closer = NotClosing
  /\ srv = [i \in Ids |-> NoRequest]

\* What a call waits for before it has an id.
Connecting == {"locking", "dialing", "pinging", "backoff"}

\* The sends below succeed on a socket that is open and raise on any other.
Open(k) == k # None /\ conn[k] = "open"

Frame(tag, i, n) == [tag |-> tag, id |-> i, n |-> n]

\* The server interrupts the requests S it has open on the socket k.
Interrupts(k, S) ==
  LET hit == {i \in S : srv[i].conn = k /\ srv[i].open}
  IN  IF Open(k) THEN [i \in Ids |-> IF i \in hit THEN [srv[i] EXCEPT !.open = FALSE] ELSE srv[i]]
      ELSE srv

\* What _fail_waiters does to the calls: an open future gets the exception, a
\* registered queue its last entry.
Failed(calls) ==
  [c \in Callers |->
     IF calls[c].id \in pending \cup streams /\ calls[c].fut = "open"
     THEN [calls[c] EXCEPT !.fut = "failed"] ELSE calls[c]]

\* The chunk n of the request i joins the queue of its subscription.
Queue(i, n) ==
  [c \in Callers |->
     IF call[c].id = i /\ i \in streams
     THEN [call[c] EXCEPT !.queue = Append(@, n)] ELSE call[c]]

----------------------------------------------------------------------------
(* request() and subscribe() once connected *)

\* Register under the next id and send the Request.  If the send raises, the
\* request is unregistered but the subscription, not yet in its try, is not.
StartCall(c, kind) ==
  LET i == seq + 1 IN
  /\ i \in Ids
  /\ seq' = i
  /\ IF Open(ws)
     THEN /\ call' = [call EXCEPT ![c] = [IdleCall EXCEPT !.kind = kind, !.id = i,
                        !.pc = IF kind = "stream" THEN "sending" ELSE "waiting",
                        !.fut = "open"]]
          /\ srv' = [srv EXCEPT ![i] = [NoRequest EXCEPT !.conn = ws, !.open = TRUE]]
     ELSE /\ call' = [call EXCEPT ![c] = IdleCall]
          /\ UNCHANGED srv
  /\ pending' = IF kind = "request" /\ Open(ws) THEN pending \cup {i} ELSE pending
  /\ streams' = IF kind = "stream" THEN streams \cup {i} ELSE streams

\* The calls begun so far will find an id within the bound.
WithinBound ==
  seq + Cardinality({c \in Callers : call[c].pc \in Connecting}) < MaxIds

\* _ensure_connected, with nobody else dialling.
Call(c, kind) ==
  /\ call[c].pc = "idle" /\ WithinBound
  /\ \/ /\ ws # None
        /\ StartCall(c, kind)
        /\ UNCHANGED lock
     \/ /\ ws = None /\ ~ closing /\ lock = None
        /\ lock' = c
        /\ call' = [call EXCEPT ![c] = [IdleCall EXCEPT !.pc = "dialing", !.kind = kind]]
        /\ UNCHANGED <<pending, streams, seq, srv>>
     \/ /\ ws = None /\ ~ closing /\ lock # None
        /\ call' = [call EXCEPT ![c] = [IdleCall EXCEPT !.pc = "locking", !.kind = kind]]
        /\ UNCHANGED <<lock, pending, streams, seq, srv>>
  /\ UNCHANGED <<ws, conn, reader, wire, closing, closer>>

\* Mutant: the connection is not looked at again under the lock.
MutantLocked(c) ==
  /\ call[c].pc = "locking" /\ lock = None
  /\ IF closing THEN call' = [call EXCEPT ![c] = IdleCall] /\ UNCHANGED lock
     ELSE call' = [call EXCEPT ![c].pc = "dialing"] /\ lock' = c
  /\ UNCHANGED <<ws, conn, reader, wire, pending, streams, seq, closing, closer, srv>>

\* The lock is granted: the connection is looked at again.
Locked(c) ==
  /\ call[c].pc = "locking" /\ lock = None
  /\ \/ /\ ws # None
        /\ StartCall(c, call[c].kind)
        /\ UNCHANGED lock
     \/ /\ ws = None /\ closing
        /\ call' = [call EXCEPT ![c] = IdleCall]
        /\ UNCHANGED <<lock, pending, streams, seq, srv>>
     \/ /\ ws = None /\ ~ closing
        /\ call' = [call EXCEPT ![c].pc = "dialing"]
        /\ lock' = c
        /\ UNCHANGED <<pending, streams, seq, srv>>
  /\ UNCHANGED <<ws, conn, reader, wire, closing, closer>>

----------------------------------------------------------------------------
(* _connect_with_retry and _dial, by the holder of the lock *)

\* The socket is up: it is the client's, close() or not; the Ping is being sent.
\* A handshake takes longer than the loop needs to let the reader of a broken
\* socket see that it broke.
DialSucceeds(c, k) ==
  /\ call[c].pc = "dialing" /\ conn[k] = "unused"
  /\ \A j \in Conns : conn[j] = "broken" => reader[j] # "reading"
  /\ ws' = k
  /\ conn' = [conn EXCEPT ![k] = "open"]
  /\ reader' = [reader EXCEPT ![k] = "reading"]
  /\ call' = [call EXCEPT ![c].pc = "pinging"]
  /\ UNCHANGED <<wire, lock, pending, streams, seq, closing, closer, srv>>

\* The Ping is out: the lock is released and the call goes on; if the socket was
\* lost meanwhile, its own send raises.
Connected(c) ==
  /\ call[c].pc = "pinging"
  /\ lock' = None
  /\ StartCall(c, call[c].kind)
  /\ UNCHANGED <<ws, conn, reader, wire, closing, closer>>

\* An attempt raised: the ticket was refused, or anything else went wrong.
GiveUp(c) ==
  /\ call' = [call EXCEPT ![c] = IdleCall]
  /\ lock' = None

\* Mutant: a refused ticket is retried like any failure.
MutantRefused(c) ==
  IF closing THEN GiveUp(c)
  ELSE call' = [call EXCEPT ![c].pc = "dialing", ![c].tries = @ + 1] /\ UNCHANGED lock

Refused(c) ==
  IF closing \/ call[c].tries = 1 THEN GiveUp(c)
  ELSE call' = [call EXCEPT ![c].pc = "dialing", ![c].tries = @ + 1] /\ UNCHANGED lock

DialRefused(c) ==
  /\ call[c].pc = "dialing"
  /\ Refused(c)
  /\ UNCHANGED <<ws, conn, reader, wire, pending, streams, seq, closing, closer, srv>>

Retry(c) ==
  IF closing THEN GiveUp(c)
  ELSE call' = [call EXCEPT ![c].pc = "backoff"] /\ UNCHANGED lock

DialFails(c) ==
  /\ call[c].pc = "dialing"
  /\ Retry(c)
  /\ UNCHANGED <<ws, conn, reader, wire, pending, streams, seq, closing, closer, srv>>

\* The Ping's send raises: as a failure, or as a refusal by its close code.  The
\* socket stays in _ws until its reader ends.
PingFails(c) ==
  /\ call[c].pc = "pinging" /\ ~ Open(ws)
  /\ Retry(c) \/ Refused(c)
  /\ UNCHANGED <<ws, conn, reader, wire, pending, streams, seq, closing, closer, srv>>

BackoffEnds(c) ==
  /\ call[c].pc = "backoff"
  /\ IF closing THEN GiveUp(c)
     ELSE call' = [call EXCEPT ![c].pc = "dialing"] /\ UNCHANGED lock
  /\ UNCHANGED <<ws, conn, reader, wire, pending, streams, seq, closing, closer, srv>>

----------------------------------------------------------------------------
(* The calls, waiting *)

\* The future is done.
Answered(c) ==
  /\ call[c].pc = "waiting" /\ call[c].kind = "request" /\ call[c].fut # "open"
  /\ call' = [call EXCEPT ![c] = IdleCall]
  /\ pending' = pending \ {call[c].id}
  /\ UNCHANGED <<ws, conn, reader, wire, lock, streams, seq, closing, closer, srv>>

Sent(c) ==
  /\ call[c].pc = "sending"
  /\ call' = [call EXCEPT ![c].pc = "waiting"]
  /\ UNCHANGED <<ws, conn, reader, wire, lock, pending, streams, seq, closing, closer, srv>>

\* The next entry of the queue is a chunk, whose items are yielded.
Yielded(c) ==
  /\ call[c].pc = "waiting" /\ call[c].queue # <<>>
  /\ call' = [call EXCEPT ![c].queue = Tail(@), ![c].got = Head(call[c].queue)]
  /\ UNCHANGED <<ws, conn, reader, wire, lock, pending, streams, seq, closing, closer, srv>>

\* The finally of subscribe(): unregister, and interrupt unless the stream ended
\* or the client is closing.
Unsubscribe(c, ended) ==
  /\ call' = [call EXCEPT ![c] = IdleCall]
  /\ streams' = streams \ {call[c].id}
  /\ srv' = IF ended \/ closing THEN srv ELSE Interrupts(ws, {call[c].id})
  /\ UNCHANGED <<ws, conn, reader, wire, lock, pending, seq, closing, closer>>

StreamOver(c) ==
  /\ call[c].pc = "waiting" /\ call[c].kind = "stream"
  /\ call[c].queue = <<>> /\ call[c].fut # "open"
  /\ Unsubscribe(c, call[c].fut = "exit")

\* The consumer leaves the loop, or its task is cancelled at the queue.
StreamLeft(c) ==
  /\ call[c].pc = "waiting" /\ call[c].kind = "stream"
  /\ Unsubscribe(c, FALSE)

\* The task is cancelled anywhere else; a subscription that was being sent stays
\* registered.
Cancelled(c) ==
  /\ call[c].pc # "idle" /\ ~ (call[c].pc = "waiting" /\ call[c].kind = "stream")
  /\ call' = [call EXCEPT ![c] = IdleCall]
  /\ pending' = pending \ {call[c].id}
  /\ lock' = IF lock = c THEN None ELSE lock
  /\ UNCHANGED <<ws, conn, reader, wire, streams, seq, closing, closer, srv>>

----------------------------------------------------------------------------
(* _read_loop and _dispatch *)

\* The reader of k ends, the calls being as given, and what k received unread is
\* dropped; if k is still the client's socket it is forgotten and every waiter fails.
ReaderStops(k, calls, end) ==
  /\ reader' = [reader EXCEPT ![k] = end]
  /\ wire' = [wire EXCEPT ![k] = <<>>]
  /\ IF ws = k
     THEN /\ ws' = None
          /\ call' = Failed(calls)
          /\ pending' = {} /\ streams' = {}
     ELSE call' = calls /\ UNCHANGED <<ws, pending, streams>>

\* Mutant: only a chunk of a unary call is acknowledged.
MutantAcked(i) == i \in pending

Acked(i) == i \in streams \cup pending

\* Queue a chunk and acknowledge it; an Ack that cannot be sent ends the reader.
ReadChunk(k) ==
  LET i == Head(wire[k]).id IN
  /\ reader[k] = "reading" /\ wire[k] # <<>> /\ Head(wire[k]).tag = "Chunk"
  /\ IF Acked(i) /\ ~ Open(ws)
     THEN ReaderStops(k, Queue(i, Head(wire[k]).n), "ended") /\ UNCHANGED srv
     ELSE /\ call' = Queue(i, Head(wire[k]).n)
          /\ wire' = [wire EXCEPT ![k] = Tail(@)]
          /\ srv' = [srv EXCEPT ![i].latched = @ /\ ~ (Acked(i) /\ srv[i].conn = ws)]
          /\ UNCHANGED <<ws, reader, pending, streams>>
  /\ UNCHANGED <<conn, lock, seq, closing, closer>>

\* Mutant: the Exit is given to every unary call that waits, whatever its id.
MutantReadExit(k) ==
  /\ reader[k] = "reading" /\ wire[k] # <<>> /\ Head(wire[k]).tag = "Exit"
  /\ wire' = [wire EXCEPT ![k] = Tail(@)]
  /\ call' = [c \in Callers |->
                IF call[c].id \in pending THEN [call[c] EXCEPT !.fut = "exit"] ELSE call[c]]
  /\ pending' = {}
  /\ UNCHANGED <<ws, conn, reader, lock, streams, seq, closing, closer, srv>>

ReadExit(k) ==
  LET i == Head(wire[k]).id IN
  /\ reader[k] = "reading" /\ wire[k] # <<>> /\ Head(wire[k]).tag = "Exit"
  /\ wire' = [wire EXCEPT ![k] = Tail(@)]
  /\ call' = [c \in Callers |->
                IF call[c].id = i /\ i \in pending \cup streams
                THEN [call[c] EXCEPT !.fut = "exit"] ELSE call[c]]
  /\ pending' = pending \ {i}
  /\ streams' = streams \ {i}
  /\ UNCHANGED <<ws, conn, reader, lock, seq, closing, closer, srv>>

\* Defect or ClientProtocolError: every waiter fails, the socket stays.
ReadDefect(k) ==
  /\ reader[k] = "reading" /\ wire[k] # <<>> /\ Head(wire[k]).tag = "Defect"
  /\ wire' = [wire EXCEPT ![k] = Tail(@)]
  /\ call' = Failed(call)
  /\ pending' = {} /\ streams' = {}
  /\ UNCHANGED <<ws, conn, reader, lock, seq, closing, closer, srv>>

\* Mutant: a lost socket is forgotten, its waiters are not told.
MutantReadLost(k) ==
  /\ reader[k] = "reading" /\ conn[k] = "broken" /\ wire[k] = <<>>
  /\ reader' = [reader EXCEPT ![k] = "ended"]
  /\ ws' = IF ws = k THEN None ELSE ws
  /\ UNCHANGED <<conn, wire, lock, call, pending, streams, seq, closing, closer, srv>>

\* recv() raises once everything received was read.
ReadLost(k) ==
  /\ reader[k] = "reading" /\ conn[k] = "broken" /\ wire[k] = <<>>
  /\ ReaderStops(k, call, "ended")
  /\ UNCHANGED <<conn, lock, seq, closing, closer, srv>>

\* The next frame is not one that _read_loop can decode: it ends the reader, and a
\* socket that is open stays so, read and closed by nobody.
ReadUndecodable(k) ==
  /\ reader[k] = "reading"
  /\ ReaderStops(k, call, "failed")
  /\ UNCHANGED <<conn, lock, seq, closing, closer, srv>>

----------------------------------------------------------------------------
(* close() *)

\* Take the socket and cancel its reader, if there is one; then fail the waiters.
Detach ==
  /\ ws' = None
  /\ IF ws = None
     THEN /\ closer' = NotClosing
          /\ call' = Failed(call)
          /\ pending' = {} /\ streams' = {}
          /\ UNCHANGED <<reader, wire>>
     ELSE /\ closer' = [pc |-> "socket", conn |-> ws]
          /\ reader' = [reader EXCEPT ![ws] = "ended"]
          /\ wire' = [wire EXCEPT ![ws] = <<>>]
          /\ UNCHANGED <<call, pending, streams>>

\* Interrupt what is subscribed; sending suspends.
CloseBegins ==
  /\ closer.pc = "idle"
  /\ closing' = TRUE
  /\ IF Open(ws) /\ streams # {}
     THEN /\ closer' = [NotClosing EXCEPT !.pc = "interrupts"]
          /\ srv' = Interrupts(ws, streams)
          /\ UNCHANGED <<ws, reader, wire, call, pending, streams>>
     ELSE Detach /\ UNCHANGED srv
  /\ UNCHANGED <<conn, lock, seq>>

CloseDetaches ==
  /\ closer.pc = "interrupts"
  /\ Detach
  /\ UNCHANGED <<conn, lock, seq, closing, srv>>

\* Mutant: close() leaves the waiters to the reader.
MutantCloseEnds ==
  /\ closer.pc = "socket"
  /\ closer' = NotClosing
  /\ conn' = [conn EXCEPT ![closer.conn] = "closed"]
  /\ UNCHANGED <<ws, reader, wire, lock, call, pending, streams, seq, closing, srv>>

\* The reader is gone and the socket closed.
CloseEnds ==
  /\ closer.pc = "socket"
  /\ closer' = NotClosing
  /\ conn' = [conn EXCEPT ![closer.conn] = "closed"]
  /\ call' = Failed(call)
  /\ pending' = {} /\ streams' = {}
  /\ UNCHANGED <<ws, reader, wire, lock, seq, closing, srv>>

----------------------------------------------------------------------------
(* The server and the network *)

Deliver(i, frame) == wire' = [wire EXCEPT ![srv[i].conn] = Append(@, frame)]

Answering(i) == srv[i].open /\ Open(srv[i].conn) /\ reader[srv[i].conn] = "reading"

IsStream(i) == \E c \in Callers : call[c].id = i /\ call[c].kind = "stream"

\* The next chunk, once the one before was acknowledged.
ServerChunk(i) ==
  /\ Answering(i) /\ ~ srv[i].latched /\ srv[i].sent < MaxChunks
  /\ IsStream(i)
  /\ srv' = [srv EXCEPT ![i].latched = TRUE, ![i].sent = @ + 1]
  /\ Deliver(i, Frame("Chunk", i, srv[i].sent + 1))
  /\ UNCHANGED <<ws, conn, reader, lock, call, pending, streams, seq, closing, closer>>

ServerExit(i) ==
  /\ Answering(i) /\ ~ srv[i].latched
  /\ srv' = [srv EXCEPT ![i].open = FALSE]
  /\ Deliver(i, Frame("Exit", i, 0))
  /\ UNCHANGED <<ws, conn, reader, lock, call, pending, streams, seq, closing, closer>>

ServerDefect(i) ==
  /\ Answering(i)
  /\ srv' = [srv EXCEPT ![i].open = FALSE]
  /\ Deliver(i, Frame("Defect", 0, 0))
  /\ UNCHANGED <<ws, conn, reader, lock, call, pending, streams, seq, closing, closer>>

Break(k) ==
  /\ conn[k] = "open"
  /\ conn' = [conn EXCEPT ![k] = "broken"]
  /\ UNCHANGED <<ws, reader, wire, lock, call, pending, streams, seq, closing, closer, srv>>

----------------------------------------------------------------------------
Resume(c) ==
  \/ Locked(c) \/ Connected(c) \/ BackoffEnds(c) \/ Answered(c) \/ Sent(c)
  \/ Yielded(c) \/ StreamOver(c)

Read(k) == ReadChunk(k) \/ ReadExit(k) \/ ReadDefect(k) \/ ReadLost(k)

Closing == CloseDetaches \/ CloseEnds

Server(i) == ServerChunk(i) \/ ServerExit(i) \/ ServerDefect(i)

Next ==
  \/ \E c \in Callers :
       \/ \E kind \in {"request", "stream"} : Call(c, kind)
       \/ \E k \in Conns : DialSucceeds(c, k)
       \/ DialRefused(c) \/ DialFails(c) \/ PingFails(c) \/ StreamLeft(c) \/ Cancelled(c)
       \/ Resume(c)
  \/ \E k \in Conns : Read(k) \/ ReadUndecodable(k) \/ Break(k)
  \/ \E i \in Ids : Server(i)
  \/ CloseBegins
  \/ Closing

Spec == Init /\ [][Next]_vars

\* The loop serves every task that is ready; the server and the network owe nothing.
FairSpec ==
  /\ Spec
  /\ \A c \in Callers : WF_vars(Resume(c))
  /\ \A k \in Conns : WF_vars(Read(k))
  /\ WF_vars(Closing)

----------------------------------------------------------------------------
Frames == [tag : {"Chunk", "Exit", "Defect"}, id : 0 .. MaxIds, n : 0 .. MaxChunks]

Calls ==
  [pc : Connecting \cup {"idle", "sending", "waiting"}, kind : {"request", "stream"},
   id : 0 .. MaxIds, tries : 0 .. 1, fut : {"none", "open", "exit", "failed"},
   queue : Seq(1 .. MaxChunks), got : 0 .. MaxChunks]

\* Types; no call is refused twice and tries again, and the lock is held by the
\* caller that dials.
TypeOK ==
  /\ ws \in Conns \cup {None}
  /\ conn \in [Conns -> {"unused", "open", "broken", "closed"}]
  /\ reader \in [Conns -> {"none", "reading", "ended", "failed"}]
  /\ wire \in [Conns -> Seq(Frames)]
  /\ lock \in Callers \cup {None}
  /\ call \in [Callers -> Calls]
  /\ pending \subseteq Ids /\ streams \subseteq Ids
  /\ seq \in 0 .. MaxIds
  /\ closing \in BOOLEAN
  /\ closer \in [pc : {"idle", "interrupts", "socket"}, conn : Conns \cup {None}]
  /\ srv \in [Ids -> [conn : Conns \cup {None}, open : BOOLEAN, latched : BOOLEAN,
                     sent : 0 .. MaxChunks]]
  /\ \A c \in Callers : call[c].pc \in {"dialing", "pinging", "backoff"} <=> lock = c

\* No call waits for an answer nobody will read: its id is registered, and it went
\* out on the socket whose reader is at work, or close() is about to fail it.
NoStrandedCall ==
  \A c \in Callers :
    (call[c].pc = "waiting" /\ call[c].fut = "open") =>
      /\ call[c].id \in pending \cup streams
      /\ \/ closer.pc # "idle"
         \/ ws # None /\ ws = srv[call[c].id].conn /\ reader[ws] = "reading"

\* A call ends by its own Exit, and a subscription yields its chunks in order,
\* none missing.
Correlated ==
  \A c \in Callers :
    /\ call[c].fut = "exit" => ~ srv[call[c].id].open
    /\ \A n \in DOMAIN call[c].queue : call[c].queue[n] = call[c].got + n

\* The server never waits for the Ack of a chunk the client already took from the
\* socket: a subscription does not come to a halt while both ends are alive.
NeverHeldBack ==
  \A i \in streams :
    (srv[i].latched /\ srv[i].conn = ws /\ Open(ws)) =>
      \E n \in DOMAIN wire[ws] : wire[ws][n].tag = "Chunk" /\ wire[ws][n].id = i

\* There is one socket: any other that is open is the one close() is closing, or one
\* whose reader choked on a frame.
OneSocket ==
  \A k \in Conns : conn[k] = "open" => k \in {ws, closer.conn} \/ reader[k] = "failed"

\* A call whose socket was lost or closed ends.
LostCallsEnd ==
  \A c \in Callers : \A i \in Ids :
    (call[c].pc = "waiting" /\ call[c].id = i /\ ~ Open(srv[i].conn)) ~> call[c].id # i
=============================================================================
