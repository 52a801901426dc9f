--------------------------- MODULE WsClientProofs ---------------------------
(***************************************************************************)
(* Theorems about WsClient, for any callers, sockets and bounds.  All rest *)
(* on one inductive invariant, WsInv: who dials has no open socket         *)
(* (Sockets), an id is given once and registered as what its call is       *)
(* (Numbered), a call with an open future has a reader (Waiters), of a     *)
(* request at most one chunk is on its way and an Exit is the last word    *)
(* (Wired), and what was sent is queued unless it is on its way (Queued).  *)
(***************************************************************************)
EXTENDS WsClient, TLAPS

\* The socket in use is read and was dialled; close() has another one. Who dials has
\* none that is open: the next one will be the only one.
Sockets ==
  /\ ws # None => reader[ws] = "reading" /\ conn[ws] \in {"open", "broken"}
  /\ closer.pc = "socket" <=> closer.conn # None
  /\ closer.conn # None => closer.conn # ws /\ conn[closer.conn] # "unused"
  /\ \A c \in Callers : call[c].pc \in {"dialing", "backoff"} => ~Open(ws)
  /\ \A i \in Ids : srv[i].conn # None => i <= seq /\ conn[srv[i].conn] # "unused"
  /\ OneSocket

\* A call has an id, and a future, from when its Request is sent; its chunks are
\* queued in order.
Sane(x) ==
  /\ x.id # 0 <=> x.pc \in {"sending", "waiting"}
  /\ x.fut = "none" <=> x.id = 0
  /\ x.id = 0 => x.queue = <<>>
  /\ \A n \in DOMAIN x.queue : x.queue[n] = x.got + n

\* An id is given once, and registered as what its call is.
Numbered ==
  /\ \A c \in Callers : Sane(call[c]) /\ call[c].id <= seq
  /\ \A c, d \in Callers : call[c].id = call[d].id /\ call[c].id # 0 => c = d
  /\ \A i \in pending \cup streams : i <= seq
  /\ \A c \in Callers : IF call[c].kind = "stream" THEN call[c].id \notin pending
                                                   ELSE call[c].id \notin streams

\* NoStrandedCall, also of a subscription that is still being sent.
Waiters ==
  \A c \in Callers : call[c].fut = "open" =>
    /\ call[c].id \in pending \cup streams
    /\ \/ closer.pc # "idle"
       \/ ws # None /\ ws = srv[call[c].id].conn /\ reader[ws] = "reading"

\* What a chunk on its way says of the request it is for.
OnItsWay(k, n) ==
  LET f == wire[k][n]
  IN  /\ srv[f.id].latched /\ f.n = srv[f.id].sent /\ f.n # 0
      /\ \A m \in DOMAIN wire[k] : wire[k][m].tag = "Chunk" /\ wire[k][m].id = f.id => m = n
      /\ \A c \in Callers : call[c].id = f.id =>
           call[c].kind = "stream" /\ call[c].got + Len(call[c].queue) + 1 = f.n

\* Frames travel on the socket of their request; an Exit is the server's last word;
\* of a request one chunk at most is on its way, the next that its call will queue.
Wired ==
  \A k \in Conns : \A n \in DOMAIN wire[k] :
    LET f == wire[k][n]
    IN  /\ f.tag # "Defect" => f.id \in 1 .. seq /\ srv[f.id].conn = k
        /\ f.tag = "Exit" => ~srv[f.id].open
        /\ f.tag = "Chunk" => OnItsWay(k, n)

\* What the server sent was queued, unless it is on its way or was lost, and then no
\* other follows.
Queued ==
  \A c \in Callers : call[c].id # 0 =>
    /\ call[c].fut = "exit" => ~srv[call[c].id].open
    /\ call[c].kind = "stream" /\ ~srv[call[c].id].latched =>
         call[c].got + Len(call[c].queue) = srv[call[c].id].sent

WsInv == TypeOK /\ Sockets /\ Numbered /\ Waiters /\ Wired /\ Queued /\ NeverHeldBack
-----------------------------------------------------------------------------
LEMMA Numbers == MaxIds \in Nat /\ MaxChunks \in Nat /\ None \notin Conns /\ None \notin Callers
  BY WsAssumption

Requests == [conn : Conns \cup {None}, open : BOOLEAN, latched : BOOLEAN, sent : 0 .. MaxChunks]

LEMMA IdleFacts ==
  /\ IdleCall \in Calls /\ IdleCall.pc = "idle" /\ IdleCall.id = 0 /\ IdleCall.fut = "none"
  /\ IdleCall.queue = <<>> /\ IdleCall.got = 0 /\ IdleCall.tries = 0
  /\ NoRequest \in Requests
<1>1. 0 \in 0 .. MaxIds /\ 0 \in 0 .. MaxChunks /\ 0 \in 0 .. 1
  BY Numbers
<1>2. <<>> \in Seq(1 .. MaxChunks)
  OBVIOUS
<1>. QED BY <1>1, <1>2 DEF IdleCall, Calls, NoRequest, Requests

LEMMA InitWsInv == Init => WsInv
<1> SUFFICES ASSUME Init PROVE WsInv
  OBVIOUS
<1>1. /\ \A c \in Callers : call[c] = IdleCall
      /\ \A k \in Conns : wire[k] = <<>> /\ conn[k] = "unused"
      /\ \A i \in Ids : srv[i] = NoRequest
      /\ call \in [Callers -> Calls]
  BY IdleFacts DEF Init
<1>2. TypeOK
  <2>1. srv \in [Ids -> Requests] /\ <<>> \in Seq(Frames) /\ 0 \in 0 .. MaxIds
    BY IdleFacts, Numbers DEF Init
  <2>. QED BY <1>1, <2>1, IdleFacts, Numbers DEF Init, TypeOK, NotClosing, Requests
<1>3. Sockets
  BY <1>1, IdleFacts DEF Init, Sockets, OneSocket, NotClosing, NoRequest
<1>4. Numbered
  BY <1>1, IdleFacts DEF Init, Numbered, Sane
<1>5. Waiters /\ Queued
  BY <1>1, IdleFacts DEF Waiters, Queued
<1>6. Wired /\ NeverHeldBack
  BY <1>1 DEF Init, Wired, NeverHeldBack
<1>. QED BY <1>2, <1>3, <1>4, <1>5, <1>6 DEF WsInv
-----------------------------------------------------------------------------
(* Steps of calls *)

LEMMA CallFacts ==
  ASSUME WsInv, NEW c \in Callers
  PROVE  /\ call \in [Callers -> Calls] /\ call[c] \in Calls /\ Sane(call[c])
         /\ call[c].id \in 0 .. MaxIds /\ call[c].id <= seq
         /\ seq \in 0 .. MaxIds /\ seq \in Nat
         /\ call[c].kind \in {"request", "stream"} /\ call[c].queue \in Seq(1 .. MaxChunks)
         /\ call[c].got \in Nat
<1>1. call \in [Callers -> Calls] /\ seq \in 0 .. MaxIds
  BY DEF WsInv, TypeOK
<1>. QED BY <1>1, Numbers DEF WsInv, Numbered, Calls

\* A call that has no id yet, dialling or waiting for its turn to.
LEMMA Quiet ==
  ASSUME WsInv, NEW c \in Callers, NEW x \in Calls, call[c].id = 0,
         x.id = 0, x.fut = "none", x.pc \notin {"sending", "waiting"}, x.queue = <<>>,
         call' = [call EXCEPT ![c] = x],
         lock' = c <=> x.pc \in {"dialing", "pinging", "backoff"},
         lock' \in {lock, c, None}, lock # lock' => lock \in {c, None},
         x.pc \in {"dialing", "backoff"} => ~Open(ws),
         UNCHANGED <<ws, conn, reader, wire, pending, streams, seq, closing, closer, srv>>
  PROVE  WsInv'
<1>1. /\ call' \in [Callers -> Calls] /\ call'[c] = x
      /\ \A d \in Callers \ {c} : call'[d] = call[d]
  BY CallFacts
<1>2. \A d \in Callers : d # c => (lock' = d <=> lock = d)
  BY Numbers
<1>3. TypeOK'
  <2>1. \A d \in Callers : call'[d].pc \in {"dialing", "pinging", "backoff"} <=> lock' = d
    BY <1>1, <1>2 DEF WsInv, TypeOK
  <2>2. lock' \in Callers \cup {None}
    BY DEF WsInv, TypeOK
  <2>. QED BY <1>1, <2>1, <2>2 DEF WsInv, TypeOK
<1>4. Sockets'
  BY <1>1 DEF WsInv, Sockets, OneSocket, Open
<1>5. Numbered'
  <2>1. Sane(x) /\ x.id <= seq
    BY CallFacts DEF Sane
  <2>2. \A d \in Callers : Sane(call'[d]) /\ call'[d].id <= seq
    BY <1>1, <2>1, CallFacts
  <2>3. \A d \in Callers : Sane(call[d])' /\ call[d].id' <= seq'
    BY <2>2 DEF Sane
  <2>4. 0 \notin pending \cup streams
    BY DEF WsInv, TypeOK, Ids
  <2>. QED BY <1>1, <2>3, <2>4 DEF WsInv, Numbered
<1>6. Waiters' /\ Queued'
  BY <1>1 DEF WsInv, Waiters, Queued
<1>7. Wired'
  <2>1. \A d \in Callers : call'[d].id # 0 => call'[d] = call[d]
    BY <1>1
  <2>2. ASSUME NEW k \in Conns, NEW n \in DOMAIN wire[k], wire[k][n].tag # "Defect"
        PROVE  wire[k][n].id # 0
    BY <2>2, CallFacts DEF WsInv, Wired
  <2>. QED BY <2>1, <2>2 DEF WsInv, Wired, OnItsWay
<1>8. NeverHeldBack'
  BY DEF WsInv, NeverHeldBack, Open
<1>. QED BY <1>3, <1>4, <1>5, <1>6, <1>7, <1>8 DEF WsInv

LEMMA InterruptsFacts ==
  ASSUME WsInv, NEW k, NEW S
  PROVE  LET s == Interrupts(k, S)
         IN  /\ s \in [Ids -> Requests]
             /\ \A i \in Ids : /\ s[i].conn = srv[i].conn /\ s[i].latched = srv[i].latched
                               /\ s[i].sent = srv[i].sent /\ (s[i].open => srv[i].open)
<1>1. srv \in [Ids -> Requests]
  BY DEF WsInv, TypeOK, Requests
<1>. QED BY <1>1 DEF Interrupts, Requests

\* A call ends, its id is unregistered and perhaps its stream interrupted.
LEMMA Leaves ==
  ASSUME WsInv, NEW c \in Callers, call' = [call EXCEPT ![c] = IdleCall],
         pending' \in {pending, pending \ {call[c].id}},
         streams' \in {streams, streams \ {call[c].id}},
         srv' \in {srv, Interrupts(ws, {call[c].id})},
         lock' = IF lock = c THEN None ELSE lock,
         UNCHANGED <<ws, conn, reader, wire, seq, closing, closer>>
  PROVE  WsInv'
<1>1. /\ call' \in [Callers -> Calls] /\ call'[c] = IdleCall
      /\ \A d \in Callers \ {c} : call'[d] = call[d]
  BY CallFacts, IdleFacts
<1>2. /\ srv' \in [Ids -> Requests]
      /\ \A i \in Ids : /\ srv'[i].conn = srv[i].conn /\ srv'[i].latched = srv[i].latched
                        /\ srv'[i].sent = srv[i].sent /\ (srv'[i].open => srv[i].open)
  <2>1. srv \in [Ids -> Requests]
    BY DEF WsInv, TypeOK, Requests
  <2>. QED BY <2>1, InterruptsFacts
<1>3. TypeOK'
  <2>1. \A d \in Callers : call'[d].pc \in {"dialing", "pinging", "backoff"} <=> lock' = d
    BY <1>1, IdleFacts, Numbers DEF WsInv, TypeOK
  <2>2. lock' \in Callers \cup {None} /\ pending' \subseteq Ids /\ streams' \subseteq Ids
    BY DEF WsInv, TypeOK
  <2>. QED BY <1>1, <1>2, <2>1, <2>2 DEF WsInv, TypeOK, Requests
<1>4. Sockets'
  BY <1>1, <1>2, IdleFacts DEF WsInv, Sockets, OneSocket, Open
<1>5. \A d \in Callers : call'[d].id # 0 =>
        d # c /\ call'[d] = call[d] /\ call[d].id # call[c].id /\ call[d].id \in Ids
  <2>1. \A d \in Callers : d # c /\ call[d].id # 0 => call[d].id # call[c].id
    BY DEF WsInv, Numbered
  <2>2. \A d \in Callers : call[d].id # 0 => call[d].id \in Ids
    BY CallFacts, Numbers DEF Ids
  <2>. QED BY <2>1, <2>2, <1>1, IdleFacts
<1>6. Numbered'
  <2>1. Sane(IdleCall) /\ IdleCall.id <= seq
    BY IdleFacts, CallFacts DEF Sane
  <2>2. \A d \in Callers : Sane(call'[d]) /\ call'[d].id <= seq
    BY <1>1, <2>1, CallFacts
  <2>3. \A d \in Callers : Sane(call[d])' /\ call[d].id' <= seq'
    BY <2>2 DEF Sane
  <2>4. 0 \notin pending \cup streams
    BY DEF WsInv, TypeOK, Ids
  <2>5. pending' \subseteq pending /\ streams' \subseteq streams
    OBVIOUS
  <2>. QED BY <1>1, <2>3, <2>4, <2>5, IdleFacts DEF WsInv, Numbered
<1>7. Waiters'
  <2>1. \A d \in Callers : call'[d].fut = "open" => call'[d].id # 0
    BY <1>1, IdleFacts, CallFacts DEF Sane
  <2>. QED BY <1>2, <1>5, <2>1 DEF WsInv, Waiters
<1>8. Queued'
  BY <1>2, <1>5 DEF WsInv, Queued
<1>9. Wired'
  <2>1. \A d \in Callers : call'[d].id # 0 => call'[d] = call[d]
    BY <1>5
  <2>2. ASSUME NEW k \in Conns, NEW n \in DOMAIN wire[k], wire[k][n].tag # "Defect"
        PROVE  wire[k][n].id # 0 /\ wire[k][n].id \in Ids
    BY <2>2, CallFacts, Numbers DEF WsInv, Wired, Ids
  <2>. QED BY <1>2, <2>1, <2>2 DEF WsInv, Wired, OnItsWay
<1>10. NeverHeldBack'
  BY <1>2 DEF WsInv, TypeOK, NeverHeldBack, Open
<1>. QED BY <1>3, <1>4, <1>6, <1>7, <1>8, <1>9, <1>10 DEF WsInv

\* The Request is sent under an id nobody has, on the socket in use; or its send
\* raises, and a subscription stays registered without a call.
LEMMA Starts ==
  ASSUME WsInv, NEW c \in Callers, NEW kind \in {"request", "stream"}, call[c].id = 0,
         StartCall(c, kind), lock' = IF lock = c THEN None ELSE lock,
         UNCHANGED <<ws, conn, reader, wire, closing, closer>>
  PROVE  WsInv'
<1> DEFINE i == seq + 1
           x == IF Open(ws)
                THEN [IdleCall EXCEPT !.kind = kind, !.id = i,
                        !.pc = IF kind = "stream" THEN "sending" ELSE "waiting",
                        !.fut = "open"]
                ELSE IdleCall
<1>1. /\ i \in Ids /\ seq' = i /\ call' = [call EXCEPT ![c] = x]
      /\ srv' = IF Open(ws)
                THEN [srv EXCEPT ![i] = [NoRequest EXCEPT !.conn = ws, !.open = TRUE]] ELSE srv
      /\ pending' = IF kind = "request" /\ Open(ws) THEN pending \cup {i} ELSE pending
      /\ streams' = IF kind = "stream" THEN streams \cup {i} ELSE streams
  BY DEF StartCall
<1>2. seq \in Nat /\ i \in Nat /\ i # 0 /\ i \in 0 .. MaxIds
  BY <1>1, CallFacts, Numbers DEF Ids
<1>3. /\ x \in Calls /\ x.queue = <<>> /\ x.got = 0
      /\ Open(ws) => /\ x.id = i /\ x.fut = "open" /\ x.kind = kind
                     /\ x.pc \in {"sending", "waiting"}
      /\ ~Open(ws) => x = IdleCall
  <2>1. CASE Open(ws)
    <3>1. \A j \in 0 .. MaxIds, p \in {"sending", "waiting"} :
            [IdleCall EXCEPT !.kind = kind, !.id = j, !.pc = p, !.fut = "open"] \in Calls
      BY IdleFacts DEF Calls
    <3>2. (IF kind = "stream" THEN "sending" ELSE "waiting") \in {"sending", "waiting"}
      OBVIOUS
    <3>3. x \in Calls
      BY <2>1, <3>1, <3>2, <1>2
    <3>. QED BY <2>1, <3>2, <3>3 DEF IdleCall
  <2>2. CASE ~Open(ws)
    BY <2>2, IdleFacts
  <2>. QED BY <2>1, <2>2
<1> HIDE DEF x
<1>4. /\ call' \in [Callers -> Calls] /\ call'[c] = x
      /\ \A d \in Callers \ {c} : call'[d] = call[d]
  BY <1>1, <1>3, CallFacts
<1>5. /\ srv' \in [Ids -> Requests]
      /\ \A j \in Ids \ {i} : srv'[j] = srv[j]
      /\ ~Open(ws) => srv' = srv
      /\ Open(ws) => /\ ws \in Conns /\ srv'[i].conn = ws /\ srv'[i].open /\ ~srv'[i].latched
                     /\ srv'[i].sent = 0
  <2>1. srv \in [Ids -> Requests]
    BY DEF WsInv, TypeOK, Requests
  <2>2. CASE Open(ws)
    <3>1. ws \in Conns
      BY <2>2 DEF WsInv, TypeOK, Open
    <3> DEFINE y == [NoRequest EXCEPT !.conn = ws, !.open = TRUE]
    <3>2. y \in Requests /\ y.conn = ws /\ y.open /\ ~y.latched /\ y.sent = 0
      BY <3>1, IdleFacts DEF Requests, NoRequest
    <3>3. srv' = [srv EXCEPT ![i] = y]
      BY <1>1, <2>2
    <3> HIDE DEF y
    <3>. QED BY <2>1, <2>2, <3>1, <3>2, <3>3, <1>1
  <2>3. CASE ~Open(ws)
    BY <1>1, <2>1, <2>3
  <2>. QED BY <2>2, <2>3
<1>6. TypeOK'
  <2>1. \A d \in Callers : call'[d].pc \in {"dialing", "pinging", "backoff"} <=> lock' = d
    BY <1>3, <1>4, IdleFacts, Numbers DEF WsInv, TypeOK
  <2>2. /\ lock' \in Callers \cup {None} /\ pending' \subseteq Ids /\ streams' \subseteq Ids
        /\ seq' \in 0 .. MaxIds
    BY <1>1, <1>2 DEF WsInv, TypeOK
  <2>. QED BY <1>4, <1>5, <2>1, <2>2 DEF WsInv, TypeOK, Requests
<1>7. Sockets'
  <2>1. \A j \in Ids : srv'[j].conn # None => srv'[j].conn = ws \/ srv'[j].conn = srv[j].conn
    BY <1>5
  <2>2. \A j \in Ids : srv'[j].conn # None => conn[srv'[j].conn] # "unused"
    <3>1. CASE Open(ws)
      BY <3>1, <1>5 DEF WsInv, Sockets, Open
    <3>2. CASE ~Open(ws)
      BY <3>2, <1>5 DEF WsInv, Sockets
    <3>. QED BY <3>1, <3>2
  <2>4. \A j \in Ids : srv'[j].conn # None => j <= seq'
    <3>1. \A j \in Ids : j \in Nat
      BY DEF Ids
    <3>2. \A j \in Ids : j = i \/ (srv[j].conn # None => j <= seq)
      BY DEF WsInv, Sockets
    <3>. QED BY <3>1, <3>2, <1>1, <1>2, <1>5
  <2>3. \A d \in Callers : call'[d].pc \in {"dialing", "backoff"} => ~Open(ws)
    BY <1>3, <1>4, IdleFacts DEF WsInv, Sockets
  <2>. QED BY <2>2, <2>3, <2>4 DEF WsInv, Sockets, OneSocket, Open
<1>8. \A d \in Callers : d # c => call'[d] = call[d] /\ call[d].id <= seq /\ call[d].id # i
  BY <1>2, <1>4, CallFacts
<1>9. \A j \in pending \cup streams : j <= seq /\ j # i
  BY <1>2 DEF WsInv, Numbered
<1>10. Numbered'
  <2>1. Sane(x) /\ x.id <= i
    BY <1>2, <1>3, IdleFacts DEF Sane
  <2>2. \A d \in Callers : Sane(call'[d]) /\ call'[d].id <= seq'
    <3>1. \A d \in Callers : Sane(call[d]) /\ call[d].id <= seq /\ call[d].id \in Nat
      BY CallFacts
    <3>. QED BY <1>1, <1>2, <1>4, <2>1, <3>1
  <2>3. \A d \in Callers : Sane(call[d])' /\ call[d].id' <= seq'
    BY <2>2 DEF Sane
  <2>4. \A d, e \in Callers : call'[d].id = call'[e].id /\ call'[d].id # 0 => d = e
    BY <1>3, <1>4, <1>8, IdleFacts DEF WsInv, Numbered
  <2>5. \A j \in pending' \cup streams' : j <= seq'
    <3>1. \A j \in pending \cup streams : j \in Nat
      BY DEF WsInv, TypeOK, Ids
    <3>. QED BY <1>1, <1>2, <1>9, <3>1
  <2>6. \A d \in Callers : IF call'[d].kind = "stream" THEN call'[d].id \notin pending'
                                                       ELSE call'[d].id \notin streams'
    <3>1. 0 \notin pending \cup streams
      BY DEF WsInv, TypeOK, Ids
    <3>2. \A d \in Callers : d # c =>
            IF call'[d].kind = "stream" THEN call'[d].id \notin pending'
                                        ELSE call'[d].id \notin streams'
      BY <1>1, <1>8 DEF WsInv, Numbered
    <3>3. IF x.kind = "stream" THEN x.id \notin pending' ELSE x.id \notin streams'
      BY <1>1, <1>2, <1>3, <1>9, <3>1, IdleFacts
    <3>. QED BY <1>4, <3>2, <3>3
  <2>. QED BY <2>3, <2>4, <2>5, <2>6 DEF Numbered
<1>11. \A d \in Callers : d # c /\ call[d].id # 0 => srv'[call[d].id] = srv[call[d].id]
  <2>1. \A d \in Callers : call[d].id # 0 => call[d].id \in Ids
    BY CallFacts, Numbers DEF Ids
  <2>. QED BY <2>1, <1>5, <1>8
<1>12. Waiters'
  <2>1. ASSUME NEW d \in Callers, d # c, call'[d].fut = "open"
        PROVE  /\ call'[d].id \in pending' \cup streams'
               /\ closer.pc # "idle" \/
                    (ws # None /\ ws = srv'[call'[d].id].conn /\ reader[ws] = "reading")
    <3>1. call[d].id # 0
      BY <2>1, <1>8, CallFacts DEF Sane
    <3>. QED BY <2>1, <3>1, <1>1, <1>8, <1>11 DEF WsInv, Waiters
  <2>2. x.fut = "open" =>
          /\ x.id \in pending' \cup streams'
          /\ ws # None /\ ws = srv'[x.id].conn /\ reader[ws] = "reading"
    BY <1>1, <1>3, <1>5, IdleFacts DEF WsInv, Sockets, Open
  <2>. QED BY <1>4, <2>1, <2>2 DEF Waiters
<1>13. Queued'
  <2>1. x.id # 0 => /\ x.fut = "exit" => ~srv'[x.id].open
                    /\ x.got + Len(x.queue) = srv'[x.id].sent
    BY <1>3, <1>5, IdleFacts
  <2>. QED BY <2>1, <1>4, <1>8, <1>11 DEF WsInv, Queued
<1>14. Wired'
  <2>1. \A k \in Conns : \A n \in DOMAIN wire[k] : wire[k][n].tag # "Defect" =>
          /\ wire[k][n].id \in 1 .. seq /\ wire[k][n].id \in 1 .. seq'
          /\ wire[k][n].id # i /\ srv'[wire[k][n].id] = srv[wire[k][n].id]
    <3>1. \A j \in 1 .. seq : j \in Ids /\ j # i /\ j \in 1 .. i
      BY <1>1, <1>2, Numbers DEF Ids
    <3>. QED BY <3>1, <1>1, <1>5 DEF WsInv, Wired
  <2>2. \A d \in Callers : call'[d].id # i /\ call'[d].id # 0 => call'[d] = call[d]
    BY <1>3, <1>4, IdleFacts
  <2>3. ASSUME NEW k \in Conns, NEW n \in DOMAIN wire[k], wire[k][n].tag = "Chunk"
        PROVE  OnItsWay(k, n)'
    <3>1. OnItsWay(k, n) /\ wire[k][n].id # i /\ wire[k][n].id # 0
          /\ srv'[wire[k][n].id] = srv[wire[k][n].id]
      BY <2>1, <2>3, <1>2 DEF WsInv, Wired
    <3>. QED BY <3>1, <2>2 DEF OnItsWay
  <2>. QED BY <2>1, <2>3 DEF WsInv, Wired
<1>15. NeverHeldBack'
  <2>1. \A j \in Ids : j # i => srv'[j] = srv[j]
    BY <1>5
  <2>2. \A j \in streams' : j \in streams \/ j = i
    BY <1>1
  <2>3. streams \subseteq Ids
    BY DEF WsInv, TypeOK
  <2>. QED BY <2>1, <2>2, <2>3, <1>5, <1>9 DEF WsInv, NeverHeldBack, Open
<1>. QED BY <1>6, <1>7, <1>10, <1>12, <1>13, <1>14, <1>15 DEF WsInv
-----------------------------------------------------------------------------
(* Steps of readers and of close() *)

\* Frames are read from the front, or dropped with their socket.
Shrinks(k) == wire'[k] \in {wire[k], <<>>} \/ (wire[k] # <<>> /\ wire'[k] = Tail(wire[k]))

LEMMA TailFacts ==
  ASSUME NEW S, NEW q \in Seq(S), q # <<>>
  PROVE  /\ Tail(q) \in Seq(S) /\ Len(q) \in Nat /\ Len(q) # 0 /\ Len(Tail(q)) = Len(q) - 1
         /\ DOMAIN Tail(q) = 1 .. Len(q) - 1 /\ DOMAIN q = 1 .. Len(q)
         /\ \A n \in DOMAIN Tail(q) : Tail(q)[n] = q[n + 1] /\ n + 1 \in DOMAIN q /\ n + 1 # 1
         /\ \A n \in DOMAIN q : n # 1 => n - 1 \in DOMAIN Tail(q) /\ Tail(q)[n - 1] = q[n]
         /\ Head(q) = q[1] /\ Head(q) \in S /\ 1 \in DOMAIN q
  OBVIOUS

\* What is left on the wire was there before.
LEMMA ShrinksFacts ==
  ASSUME WsInv, NEW k \in Conns, Shrinks(k)
  PROVE  /\ wire'[k] \in Seq(Frames)
         /\ \A n \in DOMAIN wire'[k] : \E m \in DOMAIN wire[k] :
              /\ wire'[k][n] = wire[k][m]
              /\ wire[k] # <<>> /\ wire'[k] = Tail(wire[k]) => m # 1
              /\ \A j \in DOMAIN wire'[k] : j # n =>
                   \E l \in DOMAIN wire[k] : l # m /\ wire'[k][j] = wire[k][l]
<1>1. wire[k] \in Seq(Frames)
  BY DEF WsInv, TypeOK
<1>2. CASE wire'[k] = wire[k] /\ ~(wire[k] # <<>> /\ wire'[k] = Tail(wire[k]))
  BY <1>1, <1>2
<1>3. CASE wire'[k] = <<>>
  BY <1>3
<1>4. CASE wire[k] # <<>> /\ wire'[k] = Tail(wire[k])
  <2> DEFINE q == wire[k]
  <2>1. /\ Tail(q) \in Seq(Frames) /\ DOMAIN Tail(q) \subseteq Nat
        /\ \A n \in DOMAIN Tail(q) : Tail(q)[n] = q[n + 1] /\ n + 1 \in DOMAIN q /\ n + 1 # 1
    <3>1. q \in Seq(Frames) /\ q # <<>>
      BY <1>1, <1>4
    <3> HIDE DEF q
    <3>2. Len(q) \in Nat /\ DOMAIN Tail(q) = 1 .. Len(q) - 1
      BY <3>1, TailFacts
    <3>. QED BY <3>1, <3>2, TailFacts
  <2> HIDE DEF q
  <2>2. ASSUME NEW n \in DOMAIN Tail(q)
        PROVE  \E m \in DOMAIN q :
                 /\ Tail(q)[n] = q[m] /\ m # 1
                 /\ \A j \in DOMAIN Tail(q) : j # n =>
                      \E l \in DOMAIN q : l # m /\ Tail(q)[j] = q[l]
    <3>1. \A j \in DOMAIN Tail(q) : j \in Nat /\ n \in Nat /\ (j # n => j + 1 # n + 1)
      BY <2>1
    <3>2. \A j \in DOMAIN Tail(q) : j # n =>
            \E l \in DOMAIN q : l # n + 1 /\ Tail(q)[j] = q[l]
      BY <2>1, <3>1
    <3>. QED BY <2>1, <3>2
  <2>. QED BY <1>4, <2>1, <2>2 DEF q
<1>. QED BY <1>2, <1>3, <1>4 DEF Shrinks

\* The socket that a request went out on has nothing more to be read.
Cleared(i) == \A k \in Conns : srv[i].conn = k => wire'[k] = <<>>

LEMMA WireShrinks ==
  ASSUME WsInv, \A k \in Conns : Shrinks(k), srv' = srv, seq' = seq,
         \A c \in Callers : /\ call'[c].id = call[c].id /\ call'[c].kind = call[c].kind
                            /\ call'[c].got = call[c].got
                            /\ call'[c].queue = call[c].queue \/ Cleared(call[c].id)
  PROVE  Wired'
<1> SUFFICES ASSUME NEW k \in Conns, NEW n \in DOMAIN wire'[k]
             PROVE  LET f == wire'[k][n]
                    IN  /\ f.tag # "Defect" => f.id \in 1 .. seq /\ srv[f.id].conn = k
                        /\ f.tag = "Exit" => ~srv[f.id].open
                        /\ f.tag = "Chunk" => OnItsWay(k, n)'
  BY DEF Wired
<1>1. PICK m \in DOMAIN wire[k] :
        /\ wire'[k][n] = wire[k][m]
        /\ \A j \in DOMAIN wire'[k] : j # n =>
             \E l \in DOMAIN wire[k] : l # m /\ wire'[k][j] = wire[k][l]
  BY ShrinksFacts
<1>2. LET f == wire[k][m]
      IN  /\ f.tag # "Defect" => f.id \in 1 .. seq /\ srv[f.id].conn = k
          /\ f.tag = "Exit" => ~srv[f.id].open
          /\ f.tag = "Chunk" => OnItsWay(k, m)
  BY DEF WsInv, Wired
<1>3. ASSUME wire'[k][n].tag = "Chunk" PROVE OnItsWay(k, n)'
  <2>1. OnItsWay(k, m)
    BY <1>1, <1>2, <1>3
  <2>2. \A j \in DOMAIN wire'[k] :
          wire'[k][j].tag = "Chunk" /\ wire'[k][j].id = wire'[k][n].id => j = n
    BY <1>1, <2>1 DEF OnItsWay
  <2>3. \A c \in Callers : call[c].id = wire[k][m].id => call'[c].queue = call[c].queue
    BY <1>1, <1>2, <1>3 DEF Cleared
  <2>. QED BY <1>1, <2>1, <2>2, <2>3 DEF OnItsWay
<1>. QED BY <1>1, <1>2, <1>3

\* The calls, but for a chunk that joined the queue of one: the last of its socket.
Grown(calls) ==
  /\ calls \in [Callers -> Calls]
  /\ \A c \in Callers :
       /\ calls[c].id = call[c].id /\ calls[c].kind = call[c].kind
       /\ calls[c].pc = call[c].pc /\ calls[c].got = call[c].got
       /\ calls[c].fut = call[c].fut /\ Sane(calls[c])
       /\ calls[c].queue # call[c].queue =>
            Cleared(call[c].id) /\ srv[call[c].id].latched

LEMMA CallGrown == ASSUME WsInv PROVE Grown(call)
  BY CallFacts DEF Grown, WsInv, TypeOK

LEMMA FailedFacts ==
  ASSUME WsInv, NEW calls, Grown(calls)
  PROVE  /\ Failed(calls) \in [Callers -> Calls]
         /\ \A c \in Callers :
              LET x == Failed(calls)[c]
              IN  /\ x.id = call[c].id /\ x.kind = call[c].kind /\ x.pc = call[c].pc
                  /\ x.got = call[c].got /\ x.queue = calls[c].queue
                  /\ x.fut # "open" /\ (x.fut = "exit" => call[c].fut = "exit") /\ Sane(x)
<1>1. ASSUME NEW c \in Callers
      PROVE  LET x == Failed(calls)[c]
             IN  /\ x \in Calls
                 /\ x.id = call[c].id /\ x.kind = call[c].kind /\ x.pc = call[c].pc
                 /\ x.got = call[c].got /\ x.queue = calls[c].queue
                 /\ x.fut # "open" /\ (x.fut = "exit" => call[c].fut = "exit") /\ Sane(x)
  <2>1. calls[c] \in Calls /\ Sane(calls[c])
    BY DEF Grown
  <2>0. /\ calls[c].id = call[c].id /\ calls[c].kind = call[c].kind
        /\ calls[c].pc = call[c].pc /\ calls[c].got = call[c].got
        /\ calls[c].fut = call[c].fut
    BY DEF Grown
  <2>2. CASE calls[c].id \in pending \cup streams /\ calls[c].fut = "open"
    <3> DEFINE x == [calls[c] EXCEPT !.fut = "failed"]
    <3>1. /\ x \in Calls /\ x.id = calls[c].id /\ x.kind = calls[c].kind
          /\ x.pc = calls[c].pc /\ x.got = calls[c].got /\ x.queue = calls[c].queue
          /\ x.fut = "failed"
      BY <2>1 DEF Calls
    <3>2. Failed(calls)[c] = x
      BY <2>2 DEF Failed
    <3> HIDE DEF x
    <3>3. calls[c].id # 0
      BY <2>1, <2>2 DEF Sane
    <3>. QED BY <2>0, <2>1, <3>1, <3>2, <3>3 DEF Sane
  <2>3. CASE ~(calls[c].id \in pending \cup streams /\ calls[c].fut = "open")
    <3>1. Failed(calls)[c] = calls[c]
      BY <2>3 DEF Failed
    <3>2. calls[c].fut # "open"
      BY <2>0, <2>3 DEF WsInv, Waiters
    <3>. QED BY <2>0, <2>1, <3>1, <3>2
  <2>. QED BY <2>2, <2>3
<1>2. Failed(calls) = [c \in Callers |-> Failed(calls)[c]]
  BY DEF Failed
<1>3. Failed(calls) \in [Callers -> Calls]
  BY <1>1, <1>2
<1>. QED BY <1>1, <1>3

\* _fail_waiters: nobody waits any more.
LEMMA Fails ==
  ASSUME WsInv, NEW calls, Grown(calls), call' = Failed(calls), pending' = {}, streams' = {}, UNCHANGED <<lock, seq, srv>>,
         \A k \in Conns : Shrinks(k), wire' \in [Conns -> Seq(Frames)],
         ws' \in Conns \cup {None}, closing' \in BOOLEAN,
         conn' \in [Conns -> {"unused", "open", "broken", "closed"}],
         reader' \in [Conns -> {"none", "reading", "ended", "failed"}],
         closer' \in [pc : {"idle", "interrupts", "socket"}, conn : Conns \cup {None}],
         Sockets'
  PROVE  WsInv'
<1>1. /\ call' \in [Callers -> Calls]
      /\ \A c \in Callers :
           /\ call'[c].id = call[c].id /\ call'[c].kind = call[c].kind
           /\ call'[c].pc = call[c].pc /\ call'[c].got = call[c].got
           /\ call'[c].queue = calls[c].queue /\ call'[c].fut # "open"
           /\ (call'[c].fut = "exit" => call[c].fut = "exit") /\ Sane(call'[c])
           /\ calls[c].queue # call[c].queue =>
                Cleared(call[c].id) /\ srv[call[c].id].latched
  BY FailedFacts DEF Grown
<1>2. TypeOK'
  BY <1>1 DEF WsInv, TypeOK
<1>3. Numbered'
  <2>1. \A c \in Callers : Sane(call[c])'
    BY <1>1 DEF Sane
  <2>2. \A c \in Callers : call'[c].id <= seq'
    BY <1>1, CallFacts
  <2>3. \A c, d \in Callers : call'[c].id = call'[d].id /\ call'[c].id # 0 => c = d
    <3>1. \A c \in Callers : call'[c].id = call[c].id
      BY <1>1
    <3>2. \A c, d \in Callers : call[c].id = call[d].id /\ call[c].id # 0 => c = d
      BY DEF WsInv, Numbered
    <3>. QED BY <3>1, <3>2
  <2>4. \A c \in Callers : call'[c].id \notin pending' /\ call'[c].id \notin streams'
    OBVIOUS
  <2>5. \A i \in pending' \cup streams' : i <= seq'
    OBVIOUS
  <2>. QED BY <2>1, <2>2, <2>3, <2>4, <2>5 DEF Numbered
<1>4. Waiters' /\ Queued'
  <2>1. Waiters'
    BY <1>1 DEF Waiters
  <2>2. ASSUME NEW c \in Callers, call'[c].id # 0
        PROVE  /\ call'[c].fut = "exit" => ~srv[call'[c].id].open
               /\ call'[c].kind = "stream" /\ ~srv[call'[c].id].latched =>
                    call'[c].got + Len(call'[c].queue) = srv[call'[c].id].sent
    <3>1. call'[c].id = call[c].id /\ call[c].id # 0
      BY <1>1, <2>2
    <3>2. /\ call[c].fut = "exit" => ~srv[call[c].id].open
          /\ call[c].kind = "stream" /\ ~srv[call[c].id].latched =>
               call[c].got + Len(call[c].queue) = srv[call[c].id].sent
      BY <3>1 DEF WsInv, Queued
    <3>. QED BY <1>1, <3>1, <3>2
  <2>. QED BY <2>1, <2>2 DEF Queued
<1>5. Wired'
  BY <1>1, WireShrinks
<1>6. NeverHeldBack'
  BY DEF NeverHeldBack
<1>. QED BY <1>2, <1>3, <1>4, <1>5, <1>6 DEF WsInv

LEMMA ReaderStopsKeeps ==
  ASSUME WsInv, NEW k \in Conns, NEW calls, NEW end \in {"ended", "failed"},
         ReaderStops(k, calls, end), wire' = [wire EXCEPT ![k] = <<>>] => Grown(calls),
         reader[k] = "reading", ws = k => end = "failed" \/ ~Open(k),
         UNCHANGED <<conn, lock, seq, closing, closer, srv>>
  PROVE  WsInv'
<1>1. /\ reader' = [reader EXCEPT ![k] = end] /\ wire' = [wire EXCEPT ![k] = <<>>]
      /\ reader'[k] = end /\ Grown(calls)
      /\ reader' \in [Conns -> {"none", "reading", "ended", "failed"}]
      /\ wire' \in [Conns -> Seq(Frames)]
      /\ \A j \in Conns \ {k} : reader'[j] = reader[j] /\ wire'[j] = wire[j]
      /\ wire'[k] = <<>>
  <2>1. <<>> \in Seq(Frames)
    OBVIOUS
  <2>. QED BY <2>1 DEF ReaderStops, WsInv, TypeOK
<1>2. \A j \in Conns : Shrinks(j)
  BY <1>1 DEF Shrinks
<1>3. CASE ws = k
  <2>1. ws' = None /\ call' = Failed(calls) /\ pending' = {} /\ streams' = {}
    BY <1>3 DEF ReaderStops
  <2>2. Sockets'
    BY <1>1, <1>3, <2>1, FailedFacts, Numbers DEF WsInv, Sockets, OneSocket, Open
  <2>. QED BY <1>1, <1>2, <2>1, <2>2, Fails DEF WsInv, TypeOK
<1>4. CASE ws # k
  <2>1. call' = calls /\ UNCHANGED <<ws, pending, streams>>
    BY <1>4 DEF ReaderStops
  <2>0. \A c \in Callers :
          /\ call'[c].id = call[c].id /\ call'[c].kind = call[c].kind
          /\ call'[c].pc = call[c].pc /\ call'[c].got = call[c].got
          /\ call'[c].fut = call[c].fut /\ Sane(call'[c])
          /\ call'[c].queue # call[c].queue =>
               Cleared(call[c].id) /\ srv[call[c].id].latched
    BY <1>1, <2>1 DEF Grown
  <2>2. TypeOK'
    BY <1>1, <2>0, <2>1 DEF WsInv, TypeOK, Grown
  <2>3. Sockets'
    BY <1>1, <1>4, <2>0, <2>1 DEF WsInv, TypeOK, Sockets, OneSocket, Open
  <2>4. Numbered' /\ Queued'
    <3>1. \A c \in Callers : Sane(call[c])'
      BY <2>0 DEF Sane
    <3>2. Numbered'
      BY <2>0, <2>1, <3>1 DEF WsInv, Numbered
    <3>3. Queued'
      BY <2>0, <2>1 DEF WsInv, Queued
    <3>. QED BY <3>2, <3>3
  <2>5. Waiters'
    <3>1. ASSUME NEW c \in Callers, call'[c].fut = "open"
          PROVE  /\ call'[c].id \in pending' \cup streams'
                 /\ \/ closer'.pc # "idle"
                    \/ ws' # None /\ ws' = srv'[call'[c].id].conn /\ reader'[ws'] = "reading"
      <4>1. call[c].fut = "open" /\ call'[c].id = call[c].id
        BY <2>0, <3>1
      <4>2. ws # None => reader'[ws] = reader[ws]
        BY <1>1, <1>4 DEF WsInv, TypeOK
      <4>. QED BY <2>1, <4>1, <4>2 DEF WsInv, Waiters
    <3>. QED BY <3>1 DEF Waiters
  <2>6. Wired'
    BY <1>2, <2>0, <2>1, WireShrinks
  <2>7. NeverHeldBack'
    BY <1>1, <1>4, <2>1 DEF WsInv, TypeOK, NeverHeldBack, Open
  <2>. QED BY <2>2, <2>3, <2>4, <2>5, <2>6, <2>7 DEF WsInv
<1>. QED BY <1>3, <1>4
-----------------------------------------------------------------------------
(* One lemma for each action *)

LEMMA Connects ==
  ASSUME WsInv, NEW c \in Callers, call[c].pc \in Connecting \cup {"idle"}
  PROVE  /\ call[c].id = 0 /\ call[c].fut = "none" /\ call[c].queue = <<>>
         /\ call[c].pc \in {"dialing", "pinging", "backoff"} <=> lock = c
         /\ lock \in Callers \cup {None} /\ None \notin Callers
<1>1. call[c].id = 0 /\ call[c].fut = "none" /\ call[c].queue = <<>>
  BY CallFacts DEF Sane, Connecting
<1>. QED BY <1>1, Numbers DEF WsInv, TypeOK

LEMMA CallKeeps ==
  ASSUME WsInv, NEW c \in Callers, NEW kind \in {"request", "stream"}, Call(c, kind)
  PROVE  WsInv'
<1>1. /\ call[c].id = 0 /\ lock # c /\ lock \in Callers \cup {None}
      /\ UNCHANGED <<ws, conn, reader, wire, closing, closer>>
  BY Connects DEF Call
<1>2. CASE StartCall(c, kind) /\ UNCHANGED lock
  BY <1>1, <1>2, Starts
<1>3. ASSUME NEW p \in {"dialing", "locking"},
             call' = [call EXCEPT ![c] = [IdleCall EXCEPT !.pc = p, !.kind = kind]],
             IF p = "dialing" THEN lock = None /\ lock' = c ELSE lock' = lock,
             ws = None, UNCHANGED <<pending, streams, seq, srv>>
      PROVE  WsInv'
  <2> DEFINE x == [IdleCall EXCEPT !.pc = p, !.kind = kind]
  <2>1. x \in Calls /\ x.id = 0 /\ x.fut = "none" /\ x.pc = p /\ x.queue = <<>>
    BY IdleFacts DEF Calls, IdleCall, Connecting
  <2>2. call' = [call EXCEPT ![c] = x] /\ (p = "dialing" => ~Open(ws))
    BY <1>3 DEF Open
  <2> HIDE DEF x
  <2>3. lock' = c <=> x.pc \in {"dialing", "pinging", "backoff"}
    BY <1>1, <1>3, <2>1
  <2>4. lock' \in {lock, c, None} /\ (lock # lock' => lock \in {c, None})
    BY <1>3
  <2>. QED BY <1>1, <1>3, <2>1, <2>2, <2>3, <2>4, Quiet
<1>. QED BY <1>2, <1>3 DEF Call

LEMMA PcKeeps ==
  ASSUME WsInv, NEW c \in Callers, call[c].pc \in Connecting,
         NEW p \in {"dialing", "backoff"}, NEW n \in 0 .. 1,
         call' = [call EXCEPT ![c] = [call[c] EXCEPT !.pc = p, !.tries = n]],
         lock' = c, lock \in {c, None}, ~Open(ws),
         UNCHANGED <<ws, conn, reader, wire, pending, streams, seq, closing, closer, srv>>
  PROVE  WsInv'
<1> DEFINE x == [call[c] EXCEPT !.pc = p, !.tries = n]
<1>1. /\ x \in Calls /\ x.id = call[c].id /\ x.fut = call[c].fut /\ x.pc = p
      /\ x.queue = call[c].queue
  <2>1. call[c] \in Calls /\ p \in Connecting
    BY CallFacts DEF Connecting
  <2>. QED BY <2>1 DEF Calls
<1>2. call' = [call EXCEPT ![c] = x]
  OBVIOUS
<1> HIDE DEF x
<1>. QED BY <1>1, <1>2, Connects, Quiet

\* The same, the count of refusals being as it was.
LEMMA PcOnlyKeeps ==
  ASSUME WsInv, NEW c \in Callers, call[c].pc \in Connecting,
         NEW p \in {"dialing", "backoff"}, call' = [call EXCEPT ![c].pc = p],
         lock' = c, lock \in {c, None}, ~Open(ws),
         UNCHANGED <<ws, conn, reader, wire, pending, streams, seq, closing, closer, srv>>
  PROVE  WsInv'
<1>1. call \in [Callers -> Calls] /\ call[c] \in Calls
  BY CallFacts
<1>2. call[c].tries \in 0 .. 1
  BY <1>1 DEF Calls
<1>3. call' = [call EXCEPT ![c] = [call[c] EXCEPT !.pc = p, !.tries = call[c].tries]]
  <2>1. [call[c] EXCEPT !.pc = p, !.tries = call[c].tries] = [call[c] EXCEPT !.pc = p]
    BY <1>1 DEF Calls
  <2>2. call' = [call EXCEPT ![c] = [call[c] EXCEPT !.pc = p]]
    BY <1>1
  <2>. QED BY <2>1, <2>2
<1>. QED BY <1>2, <1>3, PcKeeps

LEMMA GiveUpKeeps ==
  ASSUME WsInv, NEW c \in Callers, lock = c, GiveUp(c),
         UNCHANGED <<ws, conn, reader, wire, pending, streams, seq, closing, closer, srv>>
  PROVE  WsInv'
  BY Leaves DEF GiveUp

LEMMA LockedKeeps == ASSUME WsInv, NEW c \in Callers, Locked(c) PROVE WsInv'
<1>1. /\ call[c].pc = "locking" /\ call[c].pc \in Connecting /\ lock = None /\ lock # c
      /\ call[c].id = 0 /\ call[c].kind \in {"request", "stream"}
      /\ UNCHANGED <<ws, conn, reader, wire, closing, closer>>
  BY Connects, CallFacts DEF Locked, Connecting
<1>2. CASE StartCall(c, call[c].kind) /\ UNCHANGED lock
  BY <1>1, <1>2, Starts
<1>3. CASE /\ call' = [call EXCEPT ![c] = IdleCall]
           /\ UNCHANGED <<lock, pending, streams, seq, srv>>
  BY <1>1, <1>3, Leaves
<1>4. CASE /\ ws = None /\ call' = [call EXCEPT ![c].pc = "dialing"] /\ lock' = c
           /\ UNCHANGED <<pending, streams, seq, srv>>
  <2>1. ~Open(ws)
    BY <1>4 DEF Open
  <2>. QED BY <1>1, <1>4, <2>1, PcOnlyKeeps
<1>. QED BY <1>2, <1>3, <1>4 DEF Locked

LEMMA RetryKeeps ==
  ASSUME WsInv, NEW c \in Callers, call[c].pc \in {"dialing", "pinging", "backoff"}, ~Open(ws),
         Retry(c) \/ Refused(c) \/ GiveUp(c)
           \/ (call' = [call EXCEPT ![c].pc = "dialing"] /\ UNCHANGED lock),
         UNCHANGED <<ws, conn, reader, wire, pending, streams, seq, closing, closer, srv>>
  PROVE  WsInv'
<1>1. call[c].pc \in Connecting /\ lock = c
  BY Connects DEF Connecting
<1>2. CASE GiveUp(c)
  BY <1>1, <1>2, GiveUpKeeps
<1>3. ASSUME NEW p \in {"dialing", "backoff"}, call' = [call EXCEPT ![c].pc = p], UNCHANGED lock
      PROVE  WsInv'
  BY <1>1, <1>3, PcOnlyKeeps
<1>4. CASE /\ call[c].tries # 1 /\ UNCHANGED lock
           /\ call' = [call EXCEPT ![c].pc = "dialing", ![c].tries = @ + 1]
  <2>1. call \in [Callers -> Calls] /\ call[c] \in Calls
    BY CallFacts
  <2>2. call[c].tries = 0
    BY <1>4, <2>1 DEF Calls
  <2>3. call' = [call EXCEPT ![c] = [call[c] EXCEPT !.pc = "dialing", !.tries = 1]]
    <3> DEFINE y == [call[c] EXCEPT !.pc = "dialing", !.tries = call[c].tries + 1]
    <3>1. call' = [call EXCEPT ![c] = y]
      BY <1>4, <2>1
    <3>2. y = [call[c] EXCEPT !.pc = "dialing", !.tries = 1]
      BY <2>2
    <3>. QED BY <3>1, <3>2
  <2>4. 1 \in 0 .. 1
    OBVIOUS
  <2>. QED BY <1>1, <1>4, <2>3, <2>4, PcKeeps
<1>. QED BY <1>2, <1>3, <1>4 DEF Retry, Refused

LEMMA DialEndsKeeps ==
  ASSUME WsInv, NEW c \in Callers,
         DialRefused(c) \/ DialFails(c) \/ PingFails(c) \/ BackoffEnds(c)
  PROVE  WsInv'
<1>1. call[c].pc \in {"dialing", "pinging", "backoff"}
  BY DEF DialRefused, DialFails, PingFails, BackoffEnds
<1>2. ~Open(ws)
  BY DEF DialRefused, DialFails, PingFails, BackoffEnds, WsInv, Sockets
<1>. QED BY <1>1, <1>2, RetryKeeps DEF DialRefused, DialFails, PingFails, BackoffEnds

LEMMA ConnectedKeeps == ASSUME WsInv, NEW c \in Callers, Connected(c) PROVE WsInv'
<1>1. /\ call[c].pc \in Connecting /\ lock = c /\ call[c].id = 0
      /\ call[c].kind \in {"request", "stream"}
  BY Connects, CallFacts DEF Connected, Connecting
<1>. QED BY <1>1, Starts DEF Connected

LEMMA EndsKeeps ==
  ASSUME WsInv, NEW c \in Callers,
         Answered(c) \/ StreamOver(c) \/ StreamLeft(c) \/ Cancelled(c)
  PROVE  WsInv'
<1>1. CASE Answered(c) \/ StreamOver(c) \/ StreamLeft(c)
  <2>1. call[c].pc = "waiting" /\ lock # c
    BY <1>1, Numbers DEF Answered, StreamOver, StreamLeft, WsInv, TypeOK
  <2>. QED BY <1>1, <2>1, Leaves DEF Answered, StreamOver, StreamLeft, Unsubscribe
<1>2. CASE Cancelled(c)
  BY <1>2, Leaves DEF Cancelled
<1>. QED BY <1>1, <1>2

\* No socket was in use, and no request went out on the new one.
LEMMA DialSucceedsKeeps ==
  ASSUME WsInv, NEW c \in Callers, NEW k \in Conns, DialSucceeds(c, k) PROVE WsInv'
<1>1. /\ call[c].pc = "dialing" /\ conn[k] = "unused" /\ ws' = k
      /\ \A j \in Conns : conn[j] = "broken" => reader[j] # "reading"
      /\ conn' = [conn EXCEPT ![k] = "open"] /\ reader' = [reader EXCEPT ![k] = "reading"]
      /\ call' = [call EXCEPT ![c].pc = "pinging"]
      /\ UNCHANGED <<wire, lock, pending, streams, seq, closing, closer, srv>>
  BY DEF DialSucceeds
<1>2. ws = None
  BY <1>1 DEF WsInv, TypeOK, Sockets, Open
<1>3. /\ call \in [Callers -> Calls] /\ call[c] \in Calls /\ Sane(call[c]) /\ lock = c
      /\ call[c].id = 0 /\ call[c].fut = "none" /\ call[c].queue = <<>>
  BY <1>1, CallFacts, Connects DEF Connecting
<1> DEFINE x == [call[c] EXCEPT !.pc = "pinging"]
<1>4. /\ x \in Calls /\ x.pc = "pinging" /\ x.id = 0 /\ x.fut = "none" /\ x.queue = <<>>
      /\ x.kind = call[c].kind /\ x.got = call[c].got
  BY <1>3 DEF Calls, Connecting
<1>5. call' = [call EXCEPT ![c] = x]
  BY <1>1, <1>3
<1> HIDE DEF x
<1>6. /\ call' \in [Callers -> Calls] /\ call'[c] = x
      /\ \A d \in Callers \ {c} : call'[d] = call[d]
  BY <1>3, <1>4, <1>5
<1>7. /\ conn' \in [Conns -> {"unused", "open", "broken", "closed"}]
      /\ reader' \in [Conns -> {"none", "reading", "ended", "failed"}]
      /\ conn'[k] = "open" /\ reader'[k] = "reading" /\ k # None
      /\ \A j \in Conns \ {k} : conn'[j] = conn[j] /\ reader'[j] = reader[j]
  BY <1>1, Numbers DEF WsInv, TypeOK
<1>8. TypeOK'
  <2>1. \A d \in Callers : call'[d].pc \in {"dialing", "pinging", "backoff"} <=> lock' = d
    BY <1>1, <1>3, <1>4, <1>6 DEF WsInv, TypeOK
  <2>. QED BY <1>1, <1>6, <1>7, <2>1 DEF WsInv, TypeOK
<1>9. Sockets'
  <2>1. \A d \in Callers : call'[d].pc \notin {"dialing", "backoff"}
    BY <1>3, <1>4, <1>6 DEF WsInv, TypeOK
  <2>2. closer.conn # k
    BY <1>1, <1>7 DEF WsInv, Sockets
  <2>3. closer.conn \in Conns \cup {None}
    BY DEF WsInv, TypeOK
  <2>4. \A j \in Conns :
          conn'[j] = "open" => j = k \/ j = closer.conn \/ reader'[j] = "failed"
    BY <1>2, <1>7, Numbers DEF WsInv, Sockets, OneSocket, Open
  <2>5. \A j \in Conns : conn[j] # "unused" => conn'[j] # "unused"
    BY <1>7
  <2>6. \A i \in Ids : srv[i].conn \in Conns \cup {None}
    BY DEF WsInv, TypeOK
  <2>. QED BY <1>1, <1>7, <2>1, <2>2, <2>3, <2>4, <2>5, <2>6 DEF WsInv, Sockets, OneSocket
<1>10. Numbered'
  <2>1. Sane(x)
    BY <1>4 DEF Sane
  <2>2. \A d \in Callers : Sane(call'[d])
    BY <1>6, <2>1, CallFacts
  <2>3. \A d \in Callers : Sane(call[d])'
    BY <2>2 DEF Sane
  <2>4. \A d \in Callers : call'[d].id = call[d].id /\ call'[d].kind = call[d].kind
    BY <1>3, <1>4, <1>6
  <2>. QED BY <1>1, <2>3, <2>4 DEF WsInv, Numbered
<1>11. \A d \in Callers : call'[d].id # 0 => call'[d] = call[d]
  BY <1>4, <1>6
<1>12. Waiters'
  <2>1. ASSUME NEW d \in Callers, call'[d].fut = "open"
        PROVE  call'[d] = call[d] /\ closer.pc # "idle"
    BY <1>2, <1>4, <1>6, <2>1 DEF WsInv, Waiters
  <2>. QED BY <1>1, <2>1 DEF WsInv, Waiters
<1>13. Queued'
  BY <1>1, <1>11 DEF WsInv, Queued
<1>14. Wired'
  BY <1>1, <1>3, <1>4, <1>6, WireShrinks DEF Shrinks
<1>15. NeverHeldBack'
  <2>1. \A i \in Ids : srv[i].conn # k
    BY <1>1, <1>7 DEF WsInv, Sockets
  <2>. QED BY <1>1, <2>1 DEF WsInv, TypeOK, NeverHeldBack
<1>. QED BY <1>8, <1>9, <1>10, <1>12, <1>13, <1>14, <1>15 DEF WsInv

\* A consumer that takes a chunk, or whose Request is out, stays registered.
LEMMA GoesOn ==
  ASSUME WsInv, NEW c \in Callers, NEW x \in Calls, call' = [call EXCEPT ![c] = x],
         call[c].pc \in {"sending", "waiting"}, x.pc = "waiting", Sane(x),
         x.id = call[c].id, x.kind = call[c].kind, x.fut = call[c].fut,
         x.got + Len(x.queue) = call[c].got + Len(call[c].queue),
         UNCHANGED <<ws, conn, reader, wire, lock, pending, streams, seq, closing, closer, srv>>
  PROVE  WsInv'
<1>1. /\ call' \in [Callers -> Calls] /\ call'[c] = x
      /\ \A d \in Callers \ {c} : call'[d] = call[d]
  BY CallFacts
<1>2. \A d \in Callers :
        /\ call'[d].id = call[d].id /\ call'[d].kind = call[d].kind /\ call'[d].fut = call[d].fut
        /\ call'[d].got + Len(call'[d].queue) = call[d].got + Len(call[d].queue)
  BY <1>1
<1>3. TypeOK' /\ Sockets'
  <2>1. \A d \in Callers : call'[d].pc = call[d].pc \/ (d = c /\ call'[d].pc = "waiting")
    BY <1>1
  <2>2. TypeOK'
    BY <1>1, <2>1 DEF WsInv, TypeOK
  <2>3. Sockets'
    BY <2>1 DEF WsInv, Sockets, OneSocket, Open
  <2>. QED BY <2>2, <2>3
<1>4. Numbered'
  <2>1. \A d \in Callers : Sane(call'[d])
    BY <1>1, CallFacts
  <2>2. \A d \in Callers : Sane(call[d])'
    BY <2>1 DEF Sane
  <2>. QED BY <1>2, <2>2 DEF WsInv, Numbered
<1>5. Waiters' /\ Queued'
  BY <1>2 DEF WsInv, Waiters, Queued
<1>6. Wired' /\ NeverHeldBack'
  BY <1>2 DEF WsInv, Wired, OnItsWay, NeverHeldBack, Open
<1>. QED BY <1>3, <1>4, <1>5, <1>6 DEF WsInv

LEMMA YieldedKeeps == ASSUME WsInv, NEW c \in Callers, Yielded(c) \/ Sent(c) PROVE WsInv'
<1>1. CASE Sent(c)
  <2> DEFINE x == [call[c] EXCEPT !.pc = "waiting"]
  <2>1. /\ x \in Calls /\ x.pc = "waiting" /\ x.id = call[c].id /\ x.kind = call[c].kind
        /\ x.fut = call[c].fut /\ x.got = call[c].got /\ x.queue = call[c].queue
    BY CallFacts DEF Calls
  <2>2. call' = [call EXCEPT ![c] = x] /\ call[c].pc \in {"sending", "waiting"}
    BY <1>1, CallFacts DEF Sent
  <2> HIDE DEF x
  <2>3. Sane(x)
    BY <2>1, <2>2, CallFacts DEF Sane
  <2>. QED BY <1>1, <2>1, <2>2, <2>3, GoesOn DEF Sent
<1>2. CASE Yielded(c)
  <2> DEFINE q == call[c].queue
             x == [call[c] EXCEPT !.queue = Tail(q), !.got = Head(q)]
  <2>1. call[c].pc = "waiting" /\ q # <<>> /\ q \in Seq(1 .. MaxChunks) /\ call[c] \in Calls
    BY <1>2, CallFacts DEF Yielded
  <2>2. /\ Tail(q) \in Seq(1 .. MaxChunks) /\ Len(q) \in Nat /\ Len(Tail(q)) = Len(q) - 1
        /\ Head(q) = q[1] /\ Head(q) \in 1 .. MaxChunks /\ 1 \in DOMAIN q
        /\ \A n \in DOMAIN Tail(q) : Tail(q)[n] = q[n + 1] /\ n + 1 \in DOMAIN q /\ n \in Nat
    <3> HIDE DEF q
    <3>1. /\ Tail(q) \in Seq(1 .. MaxChunks) /\ Len(q) \in Nat /\ Len(Tail(q)) = Len(q) - 1
          /\ DOMAIN Tail(q) = 1 .. Len(q) - 1 /\ Head(q) = q[1] /\ Head(q) \in 1 .. MaxChunks
          /\ 1 \in DOMAIN q
      BY <2>1, TailFacts
    <3>2. \A n \in DOMAIN Tail(q) : Tail(q)[n] = q[n + 1] /\ n + 1 \in DOMAIN q
      BY <2>1, TailFacts
    <3>3. \A n \in DOMAIN Tail(q) : n \in Nat
      BY <3>1
    <3>. QED BY <3>1, <3>2, <3>3
  <2>3. Head(q) = call[c].got + 1 /\ call[c].got \in Nat
        /\ \A n \in DOMAIN q : q[n] = call[c].got + n
    BY <2>2, CallFacts DEF Sane
  <2>4. call' = [call EXCEPT ![c] = x]
    BY <1>2, CallFacts DEF Yielded
  <2>5. /\ x \in Calls /\ x.pc = call[c].pc /\ x.id = call[c].id /\ x.kind = call[c].kind
        /\ x.fut = call[c].fut /\ x.got = Head(q) /\ x.queue = Tail(q)
    <3>1. \A t \in Seq(1 .. MaxChunks), g \in 0 .. MaxChunks :
            [call[c] EXCEPT !.queue = t, !.got = g] \in Calls
      BY <2>1 DEF Calls
    <3>2. Head(q) \in 0 .. MaxChunks
      BY <2>2, Numbers
    <3>3. x \in Calls
      BY <2>2, <3>1, <3>2
    <3>. QED BY <2>1, <3>3 DEF Calls
  <2> HIDE DEF x
  <2>6. Sane(x)
    <3>1. ASSUME NEW n \in DOMAIN Tail(q) PROVE Tail(q)[n] = Head(q) + n
      <4>1. Tail(q)[n] = q[n + 1] /\ n + 1 \in DOMAIN q /\ n \in Nat
        BY <2>2
      <4>2. q[n + 1] = call[c].got + (n + 1)
        BY <2>3, <4>1
      <4> HIDE DEF q
      <4>3. call[c].got \in Nat /\ n \in Nat /\ Head(q) = call[c].got + 1
        BY <2>3, <4>1
      <4>4. \A a, b \in Nat : a + (b + 1) = (a + 1) + b
        OBVIOUS
      <4>5. call[c].got + (n + 1) = (call[c].got + 1) + n
        BY <4>3, <4>4, Zenon
      <4>. QED BY <4>1, <4>2, <4>3, <4>5, Zenon
    <3>2. x.id # 0
      BY <2>1, <2>5, CallFacts DEF Sane
    <3>. QED BY <2>1, <2>5, <3>1, <3>2, CallFacts DEF Sane
  <2>7. x.got + Len(x.queue) = call[c].got + Len(q)
    <3> HIDE DEF q
    <3>. QED BY <2>2, <2>3, <2>5
  <2>. QED BY <1>2, <2>1, <2>4, <2>5, <2>6, <2>7, GoesOn DEF Yielded
<1>. QED BY <1>1, <1>2

LEMMA ReadLostKeeps == ASSUME WsInv, NEW k \in Conns, ReadLost(k) PROVE WsInv'
<1>1. ReaderStops(k, call, "ended") /\ reader[k] = "reading" /\ (ws = k => ~Open(k))
  BY DEF ReadLost, Open
<1>2. UNCHANGED <<conn, lock, seq, closing, closer, srv>>
  BY DEF ReadLost
<1>. QED BY <1>1, <1>2, CallGrown, ReaderStopsKeeps

LEMMA ReadUndecodableKeeps == ASSUME WsInv, NEW k \in Conns, ReadUndecodable(k) PROVE WsInv'
<1>1. /\ ReaderStops(k, call, "failed") /\ reader[k] = "reading"
      /\ UNCHANGED <<conn, lock, seq, closing, closer, srv>>
  BY DEF ReadUndecodable
<1>. QED BY <1>1, CallGrown, ReaderStopsKeeps

LEMMA ReadDefectKeeps == ASSUME WsInv, NEW k \in Conns, ReadDefect(k) PROVE WsInv'
<1>1. /\ wire[k] \in Seq(Frames) /\ wire[k] # <<>> /\ wire' = [wire EXCEPT ![k] = Tail(wire[k])]
      /\ call' = Failed(call) /\ pending' = {} /\ streams' = {}
      /\ UNCHANGED <<ws, conn, reader, lock, seq, closing, closer, srv>>
  BY DEF ReadDefect, WsInv, TypeOK
<1>2. wire' \in [Conns -> Seq(Frames)] /\ \A j \in Conns : Shrinks(j)
  <2>1. Tail(wire[k]) \in Seq(Frames)
    BY <1>1
  <2>. QED BY <1>1, <2>1 DEF WsInv, TypeOK, Shrinks
<1>3. Sockets'
  BY <1>1, CallGrown, FailedFacts DEF WsInv, Sockets, OneSocket, Open
<1>. QED BY <1>1, <1>2, <1>3, CallGrown, Fails DEF WsInv, TypeOK

\* The call that the Exit is for is done; its id is registered no more.
LEMMA ReadExitKeeps == ASSUME WsInv, NEW k \in Conns, ReadExit(k) PROVE WsInv'
<1> DEFINE i == Head(wire[k]).id
<1>1. /\ wire[k] \in Seq(Frames) /\ wire[k] # <<>> /\ Head(wire[k]).tag = "Exit"
      /\ wire' = [wire EXCEPT ![k] = Tail(wire[k])]
      /\ call' = [c \in Callers |-> IF call[c].id = i /\ i \in pending \cup streams
                                    THEN [call[c] EXCEPT !.fut = "exit"] ELSE call[c]]
      /\ pending' = pending \ {i} /\ streams' = streams \ {i}
      /\ UNCHANGED <<ws, conn, reader, lock, seq, closing, closer, srv>>
  BY DEF ReadExit, WsInv, TypeOK
<1>2. /\ Tail(wire[k]) \in Seq(Frames) /\ Head(wire[k]) = wire[k][1] /\ 1 \in DOMAIN wire[k]
      /\ \A n \in DOMAIN wire[k] : n # 1 =>
           n - 1 \in DOMAIN Tail(wire[k]) /\ Tail(wire[k])[n - 1] = wire[k][n]
  BY <1>1, TailFacts
<1>3. wire' \in [Conns -> Seq(Frames)] /\ \A j \in Conns : Shrinks(j)
  BY <1>1, <1>2 DEF WsInv, TypeOK, Shrinks
<1>4. i \in 1 .. seq /\ ~srv[i].open
  BY <1>1, <1>2 DEF WsInv, Wired
<1>5. ASSUME NEW c \in Callers
      PROVE  /\ call'[c] \in Calls /\ call'[c].id = call[c].id /\ call'[c].kind = call[c].kind
             /\ call'[c].pc = call[c].pc /\ call'[c].got = call[c].got
             /\ call'[c].queue = call[c].queue /\ Sane(call'[c])
             /\ call'[c].fut = "open" => call[c].fut = "open" /\ call[c].id # i
             /\ call'[c].fut = "exit" => call[c].fut = "exit" \/ call[c].id = i
  <2>1. call[c] \in Calls /\ Sane(call[c])
    BY CallFacts
  <2>2. CASE call[c].id = i /\ i \in pending \cup streams
    <3> DEFINE x == [call[c] EXCEPT !.fut = "exit"]
    <3>1. /\ x \in Calls /\ x.id = call[c].id /\ x.kind = call[c].kind /\ x.pc = call[c].pc
          /\ x.got = call[c].got /\ x.queue = call[c].queue /\ x.fut = "exit"
      BY <2>1 DEF Calls
    <3>2. call'[c] = x
      BY <1>1, <2>2
    <3> HIDE DEF x
    <3>3. call[c].id # 0
      BY <1>4, <2>2
    <3>. QED BY <2>1, <2>2, <3>1, <3>2, <3>3 DEF Sane
  <2>3. CASE ~(call[c].id = i /\ i \in pending \cup streams)
    <3>1. call'[c] = call[c]
      BY <1>1, <2>3
    <3>2. call[c].fut = "open" => call[c].id # i
      BY <2>3 DEF WsInv, Waiters
    <3>. QED BY <2>1, <3>1, <3>2
  <2>. QED BY <2>2, <2>3
<1>6. call' \in [Callers -> Calls]
  BY <1>1, <1>5
<1> HIDE DEF i
<1>7. TypeOK'
  BY <1>1, <1>3, <1>5, <1>6 DEF WsInv, TypeOK
<1>8. Sockets'
  BY <1>1, <1>5 DEF WsInv, Sockets, OneSocket, Open
<1>9. Numbered'
  <2>1. \A c \in Callers : Sane(call[c])'
    BY <1>5 DEF Sane
  <2>2. \A c \in Callers : call'[c].id = call[c].id /\ call'[c].kind = call[c].kind
    BY <1>5
  <2>3. pending' \subseteq pending /\ streams' \subseteq streams /\ seq' = seq
    BY <1>1
  <2>. QED BY <2>1, <2>2, <2>3 DEF WsInv, Numbered
<1>10. Waiters'
  <2>1. ASSUME NEW c \in Callers, call'[c].fut = "open"
        PROVE  call[c].fut = "open" /\ call'[c].id = call[c].id /\ call[c].id # i
    BY <2>1, <1>5
  <2>. QED BY <2>1, <1>1 DEF WsInv, Waiters
<1>11. Queued'
  <2>1. ASSUME NEW c \in Callers, call'[c].id # 0
        PROVE  /\ call'[c].fut = "exit" => ~srv[call'[c].id].open
               /\ call'[c].kind = "stream" /\ ~srv[call'[c].id].latched =>
                    call'[c].got + Len(call'[c].queue) = srv[call'[c].id].sent
    BY <2>1, <1>4, <1>5 DEF WsInv, Queued
  <2>. QED BY <2>1, <1>1 DEF Queued
<1>12. Wired'
  BY <1>1, <1>3, <1>5, WireShrinks
<1>13. NeverHeldBack'
  <2>1. ASSUME NEW j \in streams', srv[j].latched, srv[j].conn = ws, Open(ws)
        PROVE  \E n \in DOMAIN wire'[ws] :
                 wire'[ws][n].tag = "Chunk" /\ wire'[ws][n].id = j
    <3>1. PICK n \in DOMAIN wire[ws] : wire[ws][n].tag = "Chunk" /\ wire[ws][n].id = j
      BY <2>1, <1>1 DEF WsInv, NeverHeldBack
    <3>2. CASE ws = k
      <4>1. n # 1
        BY <1>1, <1>2, <3>1, <3>2
      <4>2. wire'[ws] = Tail(wire[k])
        BY <1>1, <3>2 DEF WsInv, TypeOK
      <4>. QED BY <1>2, <3>1, <3>2, <4>1, <4>2
    <3>3. CASE ws # k
      BY <1>1, <3>1, <3>3, <2>1 DEF WsInv, TypeOK, Open
    <3>. QED BY <3>2, <3>3
  <2>. QED BY <1>1, <2>1 DEF NeverHeldBack, Open
<1>. QED BY <1>7, <1>8, <1>9, <1>10, <1>11, <1>12, <1>13 DEF WsInv

\* The chunk at the head of a wire is the next of its call.
LEMMA ChunkFacts ==
  ASSUME WsInv, NEW k \in Conns, wire[k] # <<>>, Head(wire[k]).tag = "Chunk"
  PROVE  LET f == Head(wire[k])
             i == f.id
         IN  /\ i \in 1 .. seq /\ srv[i].conn = k /\ srv[i].latched
             /\ f.n = srv[i].sent /\ f.n # 0 /\ f.n \in 1 .. MaxChunks /\ i \in Ids
             /\ \A m \in DOMAIN wire[k] : wire[k][m].tag = "Chunk" /\ wire[k][m].id = i => m = 1
             /\ \A c \in Callers : call[c].id = i =>
                  call[c].kind = "stream" /\ call[c].got + Len(call[c].queue) + 1 = f.n
<1> DEFINE f == Head(wire[k])
           i == f.id
<1>1. wire[k] \in Seq(Frames) /\ f.tag = "Chunk"
  BY DEF WsInv, TypeOK
<1>2. f = wire[k][1] /\ 1 \in DOMAIN wire[k] /\ f \in Frames
  BY <1>1, TailFacts
<1>3. i \in 1 .. seq /\ srv[i].conn = k /\ OnItsWay(k, 1)
  BY <1>1, <1>2 DEF WsInv, Wired
<1>4. i \in Ids
  BY <1>3, Numbers DEF WsInv, TypeOK, Ids
<1>5. f.n \in 0 .. MaxChunks
  BY <1>2 DEF Frames
<1>6. f.n # 0
  BY <1>2, <1>3 DEF OnItsWay
<1>7. f.n \in 1 .. MaxChunks
  BY <1>5, <1>6, Numbers
<1>. QED BY <1>2, <1>3, <1>4, <1>6, <1>7 DEF OnItsWay

\* It joins the queue of its subscription in order.
LEMMA QueueFacts ==
  ASSUME WsInv, NEW k \in Conns, wire[k] # <<>>, Head(wire[k]).tag = "Chunk", NEW c \in Callers
  PROVE  LET f == Head(wire[k])
             i == f.id
             x == Queue(i, f.n)[c]
         IN  /\ x \in Calls /\ x.id = call[c].id
             /\ x.kind = call[c].kind /\ x.pc = call[c].pc /\ x.got = call[c].got
             /\ x.fut = call[c].fut /\ Sane(x)
             /\ call[c].id = i /\ i \in streams => x.got + Len(x.queue) = f.n
             /\ call[c].id # i => x = call[c]
<1> DEFINE f == Head(wire[k])
           i == f.id
           y == Queue(i, f.n)[c]
<1>1. /\ f.n \in 1 .. MaxChunks /\ i \in 1 .. seq
      /\ \A d \in Callers : call[d].id = i => call[d].got + Len(call[d].queue) + 1 = f.n
  BY ChunkFacts
<1>2. y = IF call[c].id = i /\ i \in streams
          THEN [call[c] EXCEPT !.queue = Append(@, f.n)] ELSE call[c]
  BY DEF Queue
<1> DEFINE Goal == /\ y \in Calls /\ y.id = call[c].id
                   /\ y.kind = call[c].kind /\ y.pc = call[c].pc /\ y.got = call[c].got
                   /\ y.fut = call[c].fut /\ Sane(y)
                   /\ call[c].id = i /\ i \in streams => y.got + Len(y.queue) = f.n
                   /\ call[c].id # i => y = call[c]
<1> HIDE DEF f, i, y
<1>3. /\ call[c] \in Calls /\ Sane(call[c]) /\ call[c].queue \in Seq(1 .. MaxChunks)
      /\ call[c].got \in Nat
  BY CallFacts
<1>4. ASSUME call[c].id = i /\ i \in streams PROVE Goal
  <2> DEFINE q == call[c].queue
             x == [call[c] EXCEPT !.queue = Append(q, f.n)]
  <2>1. /\ q \in Seq(1 .. MaxChunks) /\ Append(q, f.n) \in Seq(1 .. MaxChunks)
        /\ Len(q) \in Nat /\ DOMAIN Append(q, f.n) = 1 .. Len(q) + 1
        /\ Len(Append(q, f.n)) = Len(q) + 1
        /\ Append(q, f.n)[Len(q) + 1] = f.n
        /\ \A n \in 1 .. Len(q) : Append(q, f.n)[n] = q[n] /\ n \in DOMAIN q
    BY <1>1, <1>3
  <2>2. call[c].got + Len(q) + 1 = f.n
    BY <1>1, <1>4
  <2> HIDE DEF q
  <2>3. /\ x \in Calls /\ x.id = call[c].id /\ x.kind = call[c].kind /\ x.pc = call[c].pc
        /\ x.fut = call[c].fut /\ x.got = call[c].got /\ x.queue = Append(q, f.n)
    BY <1>3, <2>1 DEF Calls
  <2>4. y = x
    BY <1>2, <1>4 DEF q
  <2> HIDE DEF x
  <2>9. call[c].got + Len(q) + 1 = call[c].got + (Len(q) + 1)
    <3>1. \A a, b \in Nat : a + b + 1 = a + (b + 1)
      OBVIOUS
    <3>2. call[c].got \in Nat /\ Len(q) \in Nat
      BY <1>3, <2>1
    <3>. QED BY <3>1, <3>2, Zenon
  <2>5. \A n \in DOMAIN x.queue : x.queue[n] = x.got + n
    <3>1. \A n \in 1 .. Len(q) : q[n] = call[c].got + n
      BY <1>3, <2>1 DEF Sane, q
    <3>2. f.n = call[c].got + (Len(q) + 1)
      BY <2>2, <2>9, Zenon
    <3>3. \A n \in 1 .. Len(q) + 1 : n \in 1 .. Len(q) \/ n = Len(q) + 1
      BY <2>1
    <3>. QED BY <2>1, <2>3, <3>1, <3>2, <3>3
  <2>6. call[c].id # 0
    BY <1>1, <1>4
  <2>7. Sane(x)
    BY <1>3, <2>3, <2>5, <2>6 DEF Sane
  <2>8. x.got + Len(x.queue) = f.n
    BY <2>1, <2>2, <2>3, <2>9, Zenon
  <2>. QED BY <1>4, <2>3, <2>4, <2>7, <2>8
<1>5. ASSUME ~(call[c].id = i /\ i \in streams) PROVE Goal
  <2>1. y = call[c]
    BY <1>2, <1>5
  <2>. QED BY <1>3, <1>5, <2>1
<1>. QED BY <1>4, <1>5 DEF f, i, y

\* The chunk is queued and its Ack lets the server send another.
LEMMA ReadChunkKeeps == ASSUME WsInv, NEW k \in Conns, ReadChunk(k) PROVE WsInv'
<1> DEFINE f == Head(wire[k])
           i == f.id
<1>1. /\ wire[k] \in Seq(Frames) /\ wire[k] # <<>> /\ f.tag = "Chunk"
      /\ UNCHANGED <<conn, lock, seq, closing, closer>>
  BY DEF ReadChunk, WsInv, TypeOK
<1>2. CASE Acked(i) /\ ~Open(ws)
  <2> DEFINE calls == Queue(i, f.n)
  <2>1. ReaderStops(k, calls, "ended") /\ UNCHANGED srv
    BY <1>2 DEF ReadChunk
  <2>2. srv[i].conn = k /\ srv[i].latched
    BY <1>1, ChunkFacts
  <2>3. ASSUME wire' = [wire EXCEPT ![k] = <<>>] PROVE Grown(calls)
    <3>1. Cleared(i)
      BY <2>2, <2>3 DEF Cleared, WsInv, TypeOK
    <3>2. calls = [c \in Callers |-> calls[c]]
      BY DEF Queue
    <3>3. \A c \in Callers :
            /\ calls[c] \in Calls /\ calls[c].id = call[c].id
            /\ calls[c].kind = call[c].kind /\ calls[c].pc = call[c].pc
            /\ calls[c].got = call[c].got /\ calls[c].fut = call[c].fut /\ Sane(calls[c])
            /\ call[c].id # i => calls[c] = call[c]
      BY <1>1, QueueFacts
    <3> HIDE DEF calls, i
    <3>4. calls \in [Callers -> Calls]
      BY <3>2, <3>3
    <3>. QED BY <2>2, <3>1, <3>3, <3>4 DEF Grown
  <2> HIDE DEF calls
  <2>4. (ws = k => ~Open(k)) /\ reader[k] = "reading"
    BY <1>2 DEF ReadChunk
  <2>. QED BY <1>1, <2>1, <2>3, <2>4, ReaderStopsKeeps
<1>3. CASE ~(Acked(i) /\ ~Open(ws))
  <2>1. /\ call' = Queue(i, f.n)
        /\ wire' = [wire EXCEPT ![k] = Tail(wire[k])]
        /\ srv' = [srv EXCEPT ![i].latched = srv[i].latched /\ ~(Acked(i) /\ srv[i].conn = ws)]
        /\ UNCHANGED <<ws, reader, pending, streams>>
    BY <1>3 DEF ReadChunk
  <2>2. /\ Tail(wire[k]) \in Seq(Frames) /\ f = wire[k][1] /\ 1 \in DOMAIN wire[k]
        /\ f \in Frames
        /\ \A n \in DOMAIN wire[k] : n # 1 =>
             n - 1 \in DOMAIN Tail(wire[k]) /\ Tail(wire[k])[n - 1] = wire[k][n]
    BY <1>1, TailFacts
  <2>3. /\ i \in 1 .. seq /\ srv[i].conn = k /\ srv[i].latched
        /\ f.n = srv[i].sent /\ f.n # 0 /\ f.n \in 1 .. MaxChunks /\ i \in Ids
        /\ \A m \in DOMAIN wire[k] : wire[k][m].tag = "Chunk" /\ wire[k][m].id = i => m = 1
        /\ \A c \in Callers : call[c].id = i =>
             call[c].kind = "stream" /\ call[c].got + Len(call[c].queue) + 1 = f.n
    BY <1>1, ChunkFacts
  <2>4. wire' \in [Conns -> Seq(Frames)] /\ \A j \in Conns : Shrinks(j)
    <3>1. wire \in [Conns -> Seq(Frames)]
      BY DEF WsInv, TypeOK
    <3> DEFINE w == Tail(wire[k])
    <3>2. w \in Seq(Frames) /\ wire' = [wire EXCEPT ![k] = w]
      BY <2>1, <2>2
    <3>3. /\ wire' \in [Conns -> Seq(Frames)] /\ wire'[k] = w
          /\ \A j \in Conns : j # k => wire'[j] = wire[j]
      <4> HIDE DEF w
      <4>. QED BY <3>1, <3>2
    <3>. QED BY <2>2, <3>3 DEF Shrinks
  <2>5. ASSUME NEW c \in Callers
        PROVE  /\ call'[c] \in Calls /\ call'[c].id = call[c].id
               /\ call'[c].kind = call[c].kind /\ call'[c].pc = call[c].pc
               /\ call'[c].fut = call[c].fut /\ Sane(call'[c])
               /\ call[c].id = i /\ i \in streams =>
                    call'[c].got + Len(call'[c].queue) = f.n
               /\ call[c].id # i => call'[c] = call[c]
    BY <1>1, <2>1, QueueFacts
  <2> HIDE DEF f, i
  <2>6. /\ srv' \in [Ids -> Requests]
        /\ \A j \in Ids : /\ srv'[j].conn = srv[j].conn /\ srv'[j].sent = srv[j].sent
                          /\ srv'[j].open = srv[j].open
                          /\ j # i => srv'[j].latched = srv[j].latched
        /\ srv'[i].latched => ~(Acked(i) /\ srv[i].conn = ws)
        /\ ~srv'[i].latched => Acked(i) /\ srv[i].conn = ws
    <3> DEFINE b == srv[i].latched /\ ~(Acked(i) /\ srv[i].conn = ws)
    <3>1. srv \in [Ids -> Requests] /\ srv' = [srv EXCEPT ![i].latched = b] /\ b \in BOOLEAN
      BY <2>1 DEF WsInv, TypeOK, Requests
    <3>2. b <=> ~(Acked(i) /\ srv[i].conn = ws)
      BY <2>3
    <3> HIDE DEF b
    <3>3. /\ srv' \in [Ids -> Requests] /\ srv'[i].latched = b
          /\ \A j \in Ids : /\ srv'[j].conn = srv[j].conn /\ srv'[j].sent = srv[j].sent
                            /\ srv'[j].open = srv[j].open
                            /\ j # i => srv'[j].latched = srv[j].latched
      BY <2>3, <3>1 DEF Requests
    <3>. QED BY <3>2, <3>3
  <2>7. TypeOK'
    <3>1. call' \in [Callers -> Calls]
      BY <2>1, <2>5 DEF Queue
    <3>. QED BY <1>1, <2>1, <2>4, <2>5, <2>6, <3>1 DEF WsInv, TypeOK, Requests
  <2>8. Sockets'
    BY <1>1, <2>1, <2>5, <2>6 DEF WsInv, Sockets, OneSocket, Open
  <2>9. Numbered'
    <3>1. \A c \in Callers : Sane(call[c])'
      BY <2>5 DEF Sane
    <3>2. \A c \in Callers : call'[c].id = call[c].id /\ call'[c].kind = call[c].kind
      BY <2>5
    <3>3. \A c \in Callers : call[c].id <= seq
      BY CallFacts
    <3>4. \A c, d \in Callers : call'[c].id = call'[d].id /\ call'[c].id # 0 => c = d
      <4>1. \A c, d \in Callers : call[c].id = call[d].id /\ call[c].id # 0 => c = d
        BY DEF WsInv, Numbered
      <4>. QED BY <3>2, <4>1
    <3>5. \A c \in Callers : IF call[c].kind = "stream" THEN call[c].id \notin pending
                                                        ELSE call[c].id \notin streams
      BY DEF WsInv, Numbered
    <3>6. \A j \in pending \cup streams : j <= seq
      BY DEF WsInv, Numbered
    <3>7. UNCHANGED <<pending, streams, seq>>
      BY <1>1, <2>1
    <3>8. \A c \in Callers : call'[c].id <= seq'
      BY <3>2, <3>3, <3>7
    <3>9. \A c \in Callers : IF call'[c].kind = "stream" THEN call'[c].id \notin pending'
                                                         ELSE call'[c].id \notin streams'
      BY <3>2, <3>5, <3>7
    <3>10. \A j \in pending' \cup streams' : j <= seq'
      BY <3>6, <3>7
    <3>. QED BY <3>1, <3>4, <3>8, <3>9, <3>10 DEF Numbered
  <2>10. Waiters'
    <3>1. ASSUME NEW c \in Callers, call'[c].fut = "open"
          PROVE  /\ call[c].fut = "open" /\ call'[c].id = call[c].id
                 /\ srv'[call[c].id].conn = srv[call[c].id].conn
      <4>1. call[c].fut = "open" /\ call'[c].id = call[c].id
        BY <2>5, <3>1
      <4>2. call[c].id \in Ids
        BY <4>1 DEF WsInv, Waiters, TypeOK
      <4>. QED BY <4>1, <4>2, <2>6
    <3>. QED BY <1>1, <2>1, <3>1 DEF WsInv, Waiters
  <2>11. Queued'
    <3>1. ASSUME NEW c \in Callers, call'[c].id # 0
          PROVE  /\ call'[c].fut = "exit" => ~srv'[call'[c].id].open
                 /\ call'[c].kind = "stream" /\ ~srv'[call'[c].id].latched =>
                      call'[c].got + Len(call'[c].queue) = srv'[call'[c].id].sent
      <4>1. /\ call'[c].id = call[c].id /\ call[c].id # 0 /\ call'[c].fut = call[c].fut
            /\ call'[c].kind = call[c].kind
        BY <2>5, <3>1
      <4>2. call[c].id \in Ids
        BY <4>1, CallFacts, Numbers DEF Ids
      <4>3. CASE call[c].id # i
        BY <2>5, <2>6, <4>1, <4>2, <4>3 DEF WsInv, Queued
      <4>4. CASE call[c].id = i
        <5>1. call'[c].fut = "exit" => ~srv'[call'[c].id].open
          BY <2>6, <4>1, <4>2 DEF WsInv, Queued
        <5>2. ~srv'[i].latched => i \in streams
          <6>1. call[c].kind = "stream" /\ i \notin pending
            BY <2>3, <4>4 DEF WsInv, Numbered
          <6>. QED BY <2>6, <6>1 DEF Acked
        <5>. QED BY <2>3, <2>5, <2>6, <4>1, <4>4, <5>1, <5>2
      <4>. QED BY <4>3, <4>4
    <3>. QED BY <3>1 DEF Queued
  <2>12. Wired'
    <3> SUFFICES ASSUME NEW j \in Conns, NEW n \in DOMAIN wire'[j]
                 PROVE  LET g == wire'[j][n]
                        IN  /\ g.tag # "Defect" => g.id \in 1 .. seq' /\ srv'[g.id].conn = j
                            /\ g.tag = "Exit" => ~srv'[g.id].open
                            /\ g.tag = "Chunk" => OnItsWay(j, n)'
      BY DEF Wired
    <3>1. PICK m \in DOMAIN wire[j] :
            /\ wire'[j][n] = wire[j][m]
            /\ wire[j] # <<>> /\ wire'[j] = Tail(wire[j]) => m # 1
            /\ \A u \in DOMAIN wire'[j] : u # n =>
                 \E l \in DOMAIN wire[j] : l # m /\ wire'[j][u] = wire[j][l]
      BY <2>4, ShrinksFacts
    <3>2. LET g == wire[j][m]
          IN  /\ g.tag # "Defect" => g.id \in 1 .. seq /\ srv[g.id].conn = j
              /\ g.tag = "Exit" => ~srv[g.id].open
              /\ g.tag = "Chunk" => OnItsWay(j, m)
      BY DEF WsInv, Wired
    <3>3. \A u \in 1 .. seq : u \in Ids
      BY Numbers DEF WsInv, TypeOK, Ids
    <3>4. ASSUME wire'[j][n].tag = "Chunk" PROVE OnItsWay(j, n)'
      <4>1. OnItsWay(j, m) /\ wire[j][m].id \in Ids /\ srv[wire[j][m].id].conn = j
        BY <3>1, <3>2, <3>3, <3>4
      <4>2. wire[j][m].id # i
        <5>1. CASE j # k
          BY <2>3, <4>1, <5>1
        <5>2. CASE j = k
          <6>1. m # 1
            BY <1>1, <2>1, <3>1, <5>2 DEF WsInv, TypeOK
          <6>. QED BY <2>3, <3>1, <3>4, <5>2, <6>1
        <5>. QED BY <5>1, <5>2
      <4>3. \A u \in DOMAIN wire'[j] :
              wire'[j][u].tag = "Chunk" /\ wire'[j][u].id = wire'[j][n].id => u = n
        BY <3>1, <4>1 DEF OnItsWay
      <4>4. \A c \in Callers : call'[c].id = wire[j][m].id => call'[c] = call[c]
        BY <2>5, <4>2
      <4>. QED BY <2>6, <3>1, <4>1, <4>2, <4>3, <4>4 DEF OnItsWay
    <3>. QED BY <1>1, <2>6, <3>1, <3>2, <3>3, <3>4
  <2>13. NeverHeldBack'
    <3>1. ASSUME NEW j \in streams, srv'[j].latched, srv'[j].conn = ws, Open(ws)
          PROVE  \E n \in DOMAIN wire'[ws] :
                   wire'[ws][n].tag = "Chunk" /\ wire'[ws][n].id = j
      <4>1. j \in Ids
        BY DEF WsInv, TypeOK
      <4>2. j # i
        BY <2>3, <2>6, <3>1 DEF Acked
      <4>3. PICK n \in DOMAIN wire[ws] : wire[ws][n].tag = "Chunk" /\ wire[ws][n].id = j
        BY <2>6, <3>1, <4>1, <4>2 DEF WsInv, NeverHeldBack
      <4>4. CASE ws = k
        <5>1. n # 1
          BY <2>2, <4>2, <4>3, <4>4 DEF i
        <5>2. wire'[ws] = Tail(wire[k])
          BY <2>1, <4>4 DEF WsInv, TypeOK
        <5>. QED BY <2>2, <4>3, <4>4, <5>1, <5>2
      <4>5. CASE ws # k
        BY <2>1, <3>1, <4>3, <4>5 DEF WsInv, TypeOK, Open
      <4>. QED BY <4>4, <4>5
    <3>. QED BY <1>1, <2>1, <3>1 DEF NeverHeldBack, Open
  <2>. QED BY <2>7, <2>8, <2>9, <2>10, <2>11, <2>12, <2>13 DEF WsInv
<1>. QED BY <1>2, <1>3

\* close() takes the socket; its waiters are failed when it is closed, or now.
LEMMA DetachKeeps ==
  ASSUME WsInv, Detach, closer.pc # "socket", closing' \in BOOLEAN,
         UNCHANGED <<conn, lock, seq, srv>>
  PROVE  WsInv'
<1>1. closer.conn = None
  BY DEF WsInv, Sockets
<1>2. NotClosing \in [pc : {"idle", "interrupts", "socket"}, conn : Conns \cup {None}]
      /\ NotClosing.pc = "idle" /\ NotClosing.conn = None
  BY DEF NotClosing
<1>3. CASE ws = None
  <2>1. /\ ws' = None /\ closer' = NotClosing /\ call' = Failed(call) /\ pending' = {} /\ streams' = {}
        /\ UNCHANGED <<reader, wire>>
    BY <1>3 DEF Detach
  <2>2. Sockets'
    BY <1>1, <1>2, <1>3, <2>1, CallGrown, FailedFacts DEF WsInv, Sockets, OneSocket, Open
  <2>. QED BY <1>2, <2>1, <2>2, CallGrown, Fails DEF WsInv, TypeOK, Shrinks
<1>4. CASE ws # None
  <2>1. /\ ws' = None /\ closer' = [pc |-> "socket", conn |-> ws]
        /\ reader' = [reader EXCEPT ![ws] = "ended"] /\ wire' = [wire EXCEPT ![ws] = <<>>]
        /\ UNCHANGED <<call, pending, streams>>
    BY <1>4 DEF Detach
  <2>2. /\ ws \in Conns /\ reader' \in [Conns -> {"none", "reading", "ended", "failed"}]
        /\ wire' \in [Conns -> Seq(Frames)] /\ \A j \in Conns : Shrinks(j)
    <3>1. <<>> \in Seq(Frames)
      OBVIOUS
    <3>. QED BY <1>4, <2>1, <3>1 DEF WsInv, TypeOK, Shrinks
  <2>3. TypeOK'
    BY <2>1, <2>2 DEF WsInv, TypeOK
  <2>4. Sockets'
    BY <1>1, <1>4, <2>1, <2>2 DEF WsInv, Sockets, OneSocket, Open
  <2>5. Numbered' /\ Queued'
    BY <2>1 DEF WsInv, Numbered, Sane, Queued
  <2>6. Waiters' /\ NeverHeldBack'
    BY <2>1 DEF WsInv, Waiters, NeverHeldBack, Open
  <2>7. Wired'
    BY <2>1, <2>2, WireShrinks
  <2>. QED BY <2>3, <2>4, <2>5, <2>6, <2>7 DEF WsInv
<1>. QED BY <1>3, <1>4

LEMMA CloseBeginsKeeps == ASSUME WsInv, CloseBegins PROVE WsInv'
<1>1. CASE Detach /\ UNCHANGED srv
  BY <1>1, DetachKeeps DEF CloseBegins
<1>2. CASE /\ closer' = [NotClosing EXCEPT !.pc = "interrupts"]
           /\ srv' = Interrupts(ws, streams)
           /\ UNCHANGED <<ws, reader, wire, call, pending, streams>>
  <2>1. closer.conn = None /\ closing' = TRUE /\ UNCHANGED <<conn, lock, seq>>
    BY DEF CloseBegins, WsInv, Sockets
  <2>2. /\ closer' \in [pc : {"idle", "interrupts", "socket"}, conn : Conns \cup {None}]
        /\ closer'.pc = "interrupts" /\ closer'.conn = None
    BY <1>2 DEF NotClosing
  <2>3. /\ srv' \in [Ids -> Requests]
        /\ \A i \in Ids : /\ srv'[i].conn = srv[i].conn /\ srv'[i].latched = srv[i].latched
                          /\ srv'[i].sent = srv[i].sent /\ (srv'[i].open => srv[i].open)
    BY <1>2, InterruptsFacts
  <2>4. TypeOK'
    BY <1>2, <2>1, <2>2, <2>3 DEF WsInv, TypeOK, Requests
  <2>5. Sockets'
    BY <1>2, <2>1, <2>2, <2>3 DEF WsInv, Sockets, OneSocket, Open
  <2>6. Numbered'
    BY <1>2, <2>1 DEF WsInv, Numbered, Sane
  <2>7. Waiters'
    BY <1>2, <2>1, <2>2 DEF WsInv, Waiters
  <2>8. Queued'
    <3>1. \A c \in Callers : call[c].id # 0 => call[c].id \in Ids
      BY CallFacts, Numbers DEF Ids
    <3>. QED BY <1>2, <2>3, <3>1 DEF WsInv, Queued
  <2>9. Wired'
    <3>1. \A j \in 1 .. seq : j \in Ids
      BY Numbers DEF WsInv, TypeOK, Ids
    <3>2. ASSUME NEW k \in Conns, NEW n \in DOMAIN wire[k], wire[k][n].tag = "Chunk"
          PROVE  OnItsWay(k, n)'
      <4>1. OnItsWay(k, n) /\ wire[k][n].id \in Ids
        BY <3>1, <3>2 DEF WsInv, Wired
      <4>. QED BY <1>2, <2>3, <4>1 DEF OnItsWay
    <3>. QED BY <1>2, <2>1, <2>3, <3>1, <3>2 DEF WsInv, Wired
  <2>10. NeverHeldBack'
    BY <1>2, <2>1, <2>3 DEF WsInv, TypeOK, NeverHeldBack, Open
  <2>. QED BY <2>4, <2>5, <2>6, <2>7, <2>8, <2>9, <2>10 DEF WsInv
<1>. QED BY <1>1, <1>2 DEF CloseBegins

LEMMA CloseGoesOnKeeps == ASSUME WsInv, Closing PROVE WsInv'
<1>1. CASE CloseDetaches
  BY <1>1, DetachKeeps DEF CloseDetaches, WsInv, TypeOK
<1>2. CASE CloseEnds
  <2>1. /\ closer.pc = "socket" /\ closer' = NotClosing
        /\ conn' = [conn EXCEPT ![closer.conn] = "closed"]
        /\ call' = Failed(call) /\ pending' = {} /\ streams' = {}
        /\ UNCHANGED <<ws, reader, wire, lock, seq, closing, srv>>
    BY <1>2 DEF CloseEnds
  <2>2. /\ closer.conn \in Conns /\ closer.conn # ws
        /\ conn' \in [Conns -> {"unused", "open", "broken", "closed"}]
        /\ conn'[closer.conn] = "closed"
        /\ \A j \in Conns : j # closer.conn => conn'[j] = conn[j]
    BY <2>1, Numbers DEF WsInv, TypeOK, Sockets
  <2>3. closer' \in [pc : {"idle", "interrupts", "socket"}, conn : Conns \cup {None}]
        /\ closer'.pc = "idle" /\ closer'.conn = None
    BY <2>1 DEF NotClosing
  <2>4. Sockets'
    <3>1. ws \in Conns \cup {None} /\ \A i \in Ids : srv[i].conn \in Conns \cup {None}
      BY DEF WsInv, TypeOK
    <3>2. \A c \in Callers : call'[c].pc = call[c].pc
      BY <2>1, CallGrown, FailedFacts
    <3>3. Open(ws)' <=> Open(ws)
      BY <2>1, <2>2, <3>1 DEF Open
    <3>4. \A j \in Conns : conn'[j] = "open" => j = ws \/ reader[j] = "failed"
      BY <2>2 DEF WsInv, Sockets, OneSocket
    <3>5. \A i \in Ids : srv[i].conn # None => i <= seq /\ conn'[srv[i].conn] # "unused"
      BY <2>2, <3>1 DEF WsInv, Sockets
    <3>6. ws # None => reader[ws] = "reading" /\ conn'[ws] \in {"open", "broken"}
      BY <2>2, <3>1 DEF WsInv, Sockets
    <3>7. \A c \in Callers : call[c].pc \in {"dialing", "backoff"} => ~Open(ws)
      BY DEF WsInv, Sockets
    <3>8. UNCHANGED <<ws, reader, seq, srv>>
      BY <2>1
    <3>. QED BY <2>3, <3>2, <3>3, <3>4, <3>5, <3>6, <3>7, <3>8 DEF Sockets, OneSocket
  <2>5. \A k \in Conns : Shrinks(k)
    BY <2>1 DEF Shrinks
  <2>. QED BY <2>1, <2>2, <2>3, <2>4, <2>5, CallGrown, Fails DEF WsInv, TypeOK
<1>. QED BY <1>1, <1>2 DEF Closing

LEMMA BreakKeeps == ASSUME WsInv, NEW k \in Conns, Break(k) PROVE WsInv'
<1>1. /\ conn[k] = "open" /\ conn' = [conn EXCEPT ![k] = "broken"]
      /\ UNCHANGED <<ws, reader, wire, lock, call, pending, streams, seq, closing, closer, srv>>
  BY DEF Break
<1>2. /\ conn' \in [Conns -> {"unused", "open", "broken", "closed"}] /\ conn'[k] = "broken"
      /\ \A j \in Conns : j # k => conn'[j] = conn[j]
  BY <1>1 DEF WsInv, TypeOK
<1>3. TypeOK'
  BY <1>1, <1>2 DEF WsInv, TypeOK
<1>4. \A j \in Conns : conn'[j] = "open" => conn[j] = "open"
  BY <1>1, <1>2
<1>5. ws \in Conns \cup {None} /\ closer.conn \in Conns \cup {None}
      /\ \A i \in Ids : srv[i].conn \in Conns \cup {None}
  BY DEF WsInv, TypeOK
<1>6. Open(ws)' => Open(ws)
  BY <1>1, <1>4, <1>5 DEF Open
<1>7. Sockets'
  <2>1. \A j \in Conns : conn[j] # "unused" => conn'[j] # "unused"
    BY <1>2
  <2>2. \A j \in Conns : conn[j] \in {"open", "broken"} => conn'[j] \in {"open", "broken"}
    BY <1>2
  <2>. QED BY <1>1, <1>4, <1>5, <1>6, <2>1, <2>2 DEF WsInv, Sockets, OneSocket
<1>8. Numbered' /\ Waiters' /\ Queued'
  BY <1>1 DEF WsInv, Numbered, Sane, Waiters, Queued
<1>9. Wired'
  BY <1>1 DEF WsInv, Wired, OnItsWay
<1>10. NeverHeldBack'
  BY <1>1, <1>6 DEF WsInv, NeverHeldBack
<1>. QED BY <1>3, <1>7, <1>8, <1>9, <1>10 DEF WsInv

\* What y, the server's side of request i, becomes when it sends f: the next chunk, or
\* its last word.
NextChunk(i, f, y) ==
  /\ IsStream(i) /\ ~srv[i].latched /\ y.latched /\ y.open = srv[i].open
  /\ y.sent = srv[i].sent + 1
  /\ f.tag = "Chunk" /\ f.id = i /\ f.n = y.sent

LastWord(i, f, y) ==
  /\ ~y.open /\ y.latched = srv[i].latched /\ y.sent = srv[i].sent
  /\ f.tag = "Defect" \/ (f.tag = "Exit" /\ f.id = i)

LEMMA Delivers ==
  ASSUME WsInv, NEW i \in Ids, NEW k \in Conns, srv[i].conn = k, srv[i].open,
         NEW f \in Frames, NEW y \in Requests, y.conn = k,
         NextChunk(i, f, y) \/ LastWord(i, f, y),
         wire' = [wire EXCEPT ![k] = Append(wire[k], f)], srv' = [srv EXCEPT ![i] = y],
         UNCHANGED <<ws, conn, reader, lock, call, pending, streams, seq, closing, closer>>
  PROVE  WsInv'
<1> DEFINE q == wire[k]
           w == Append(q, f)
<1>1. /\ q \in Seq(Frames) /\ w \in Seq(Frames) /\ Len(q) \in Nat
      /\ DOMAIN q = 1 .. Len(q) /\ DOMAIN w = 1 .. Len(q) + 1 /\ w[Len(q) + 1] = f
      /\ \A n \in DOMAIN q : w[n] = q[n] /\ n \in DOMAIN w /\ n # Len(q) + 1
      /\ \A n \in DOMAIN w : n \in DOMAIN q \/ n = Len(q) + 1
      /\ Len(q) + 1 \in DOMAIN w
  <2>1. q \in Seq(Frames)
    BY DEF WsInv, TypeOK
  <2> HIDE DEF q
  <2>. QED BY <2>1
<1>2. /\ wire' \in [Conns -> Seq(Frames)] /\ wire'[k] = w
      /\ \A j \in Conns : j # k => wire'[j] = wire[j]
  BY <1>1 DEF WsInv, TypeOK
<1>3. /\ srv' \in [Ids -> Requests] /\ srv'[i] = y
      /\ \A j \in Ids : j # i => srv'[j] = srv[j]
  BY DEF WsInv, TypeOK, Requests
<1>4. \A j \in Ids : srv'[j].conn = srv[j].conn /\ (srv'[j].open => srv[j].open)
  BY <1>3
<1>5. i \in 1 .. seq /\ \A j \in 1 .. seq : j \in Ids
  <2>1. i <= seq /\ i \in Nat /\ i # 0
    BY Numbers DEF WsInv, Sockets, Ids
  <2>2. seq \in Nat /\ seq <= MaxIds
    BY Numbers DEF WsInv, TypeOK
  <2>. QED BY <2>1, <2>2, Numbers DEF Ids
<1>6. TypeOK'
  BY <1>2, <1>3 DEF WsInv, TypeOK, Requests
<1>7. Sockets'
  BY <1>4 DEF WsInv, Sockets, OneSocket, Open
<1>8. Numbered'
  BY DEF WsInv, Numbered, Sane
<1>9. Waiters'
  <2>1. \A c \in Callers : call[c].fut = "open" => call[c].id \in Ids
    BY DEF WsInv, Waiters, TypeOK
  <2>. QED BY <1>4, <2>1 DEF WsInv, Waiters
<1>10. Queued'
  <2>1. ASSUME NEW c \in Callers, call[c].id # 0
        PROVE  /\ call[c].fut = "exit" => ~srv'[call[c].id].open
               /\ call[c].kind = "stream" /\ ~srv'[call[c].id].latched =>
                    call[c].got + Len(call[c].queue) = srv'[call[c].id].sent
    <3>1. call[c].id \in Ids
      BY <2>1, CallFacts, Numbers DEF Ids
    <3>2. ~srv'[call[c].id].latched =>
            ~srv[call[c].id].latched /\ srv'[call[c].id].sent = srv[call[c].id].sent
      BY <1>3, <3>1 DEF NextChunk, LastWord
    <3>. QED BY <1>4, <2>1, <3>1, <3>2 DEF WsInv, Queued
  <2>. QED BY <2>1 DEF Queued
\* No chunk and no Exit of i is on its way when the next chunk is sent.
<1>11. ASSUME NEW j \in Conns, NEW n \in DOMAIN wire[j]
       PROVE  LET g == wire[j][n]
              IN  /\ g.tag # "Defect" => g.id \in 1 .. seq /\ srv'[g.id].conn = j
                  /\ g.tag = "Exit" => ~srv'[g.id].open
                  /\ g.tag = "Chunk" =>
                       /\ OnItsWay(j, n) /\ srv'[g.id].latched = srv[g.id].latched
                       /\ srv'[g.id].sent = srv[g.id].sent
                       /\ f.tag = "Chunk" => g.id # i
  <2> DEFINE g == wire[j][n]
  <2>1. /\ g.tag # "Defect" => g.id \in 1 .. seq /\ srv[g.id].conn = j
        /\ g.tag = "Exit" => ~srv[g.id].open
        /\ g.tag = "Chunk" => OnItsWay(j, n)
    BY DEF WsInv, Wired
  <2>2. g.tag = "Chunk" => srv[g.id].latched
    BY <2>1 DEF OnItsWay
  <2>3. wire[j] \in Seq(Frames)
    BY DEF WsInv, TypeOK
  <2>4. g \in Frames
    BY <2>3
  <2> HIDE DEF g
  <2>5. g.tag = "Chunk" => g.tag # "Defect"
    OBVIOUS
  <2>6. g.tag = "Exit" => g.tag # "Defect"
    OBVIOUS
  <2>7. g.tag = "Chunk" => /\ srv'[g.id].latched = srv[g.id].latched
                           /\ srv'[g.id].sent = srv[g.id].sent
                           /\ f.tag = "Chunk" => g.id # i
    BY <1>3, <1>5, <2>1, <2>2, <2>5 DEF NextChunk, LastWord
  <2>8. g.tag = "Exit" => ~srv'[g.id].open
    BY <1>4, <1>5, <2>1, <2>6
  <2>9. g.tag # "Defect" => g.id \in 1 .. seq /\ srv'[g.id].conn = j
    BY <1>4, <1>5, <2>1
  <2>. QED BY <2>1, <2>7, <2>8, <2>9 DEF g
<1>12. Wired'
  <2> SUFFICES ASSUME NEW j \in Conns, NEW n \in DOMAIN wire'[j]
               PROVE  LET g == wire'[j][n]
                      IN  /\ g.tag # "Defect" => g.id \in 1 .. seq' /\ srv'[g.id].conn = j
                          /\ g.tag = "Exit" => ~srv'[g.id].open
                          /\ g.tag = "Chunk" => OnItsWay(j, n)'
    BY DEF Wired
  <2>1. CASE j # k
    <3>1. wire'[j] = wire[j] /\ n \in DOMAIN wire[j]
      BY <1>2, <2>1
    <3>2. ASSUME wire[j][n].tag = "Chunk" PROVE OnItsWay(j, n)'
      <4>1. /\ OnItsWay(j, n) /\ srv'[wire[j][n].id].latched = srv[wire[j][n].id].latched
            /\ srv'[wire[j][n].id].sent = srv[wire[j][n].id].sent
        BY <1>11, <3>1, <3>2
      <4>. QED BY <3>1, <4>1 DEF OnItsWay
    <3>3. /\ wire[j][n].tag # "Defect" =>
               wire[j][n].id \in 1 .. seq /\ srv'[wire[j][n].id].conn = j
          /\ wire[j][n].tag = "Exit" => ~srv'[wire[j][n].id].open
      BY <1>11, <3>1
    <3>4. seq' = seq
      OBVIOUS
    <3> HIDE DEF q, w
    <3>. QED BY <3>1, <3>2, <3>3, <3>4
  <2>2. CASE j = k /\ n # Len(q) + 1
    <3>1. wire'[j] = w /\ n \in DOMAIN q /\ w[n] = q[n]
      BY <1>1, <1>2, <2>2
    <3>2. ASSUME q[n].tag = "Chunk" PROVE OnItsWay(j, n)'
      <4>1. /\ OnItsWay(k, n) /\ srv'[q[n].id].latched = srv[q[n].id].latched
            /\ srv'[q[n].id].sent = srv[q[n].id].sent
            /\ f.tag = "Chunk" => q[n].id # i
        BY <1>11, <3>1, <3>2
      <4>2. f.tag = "Chunk" => f.id = i
        BY DEF NextChunk, LastWord
      <4>3. \A m \in DOMAIN w : w[m].tag = "Chunk" /\ w[m].id = w[n].id => m = n
        BY <1>1, <3>1, <4>1, <4>2 DEF OnItsWay
      <4>. QED BY <2>2, <3>1, <4>1, <4>3 DEF OnItsWay
    <3>. QED BY <1>11, <2>2, <3>1, <3>2
  <2>3. CASE j = k /\ n = Len(q) + 1
    <3>1. wire'[j] = w /\ wire'[j][n] = f
      BY <1>1, <1>2, <2>3
    <3>2. CASE LastWord(i, f, y)
      BY <1>3, <1>5, <2>3, <3>1, <3>2 DEF LastWord
    <3>3. CASE NextChunk(i, f, y)
      <4>1. f.tag = "Chunk" /\ f.id = i /\ y.latched /\ f.n = y.sent
        BY <3>3 DEF NextChunk
      <4>2. f.n # 0 /\ f.n = srv[i].sent + 1 /\ srv[i].sent \in Nat
        BY <3>3, Numbers DEF NextChunk, WsInv, TypeOK
      <4>3. \A m \in DOMAIN w : w[m].tag = "Chunk" /\ w[m].id = i => m = n
        BY <1>1, <1>11, <2>3, <4>1
      <4>4. ASSUME NEW c \in Callers, call[c].id = i
            PROVE  call[c].kind = "stream" /\ call[c].got + Len(call[c].queue) + 1 = f.n
        <5>1. PICK d \in Callers : call[d].id = i /\ call[d].kind = "stream"
          BY <3>3 DEF NextChunk, IsStream
        <5>2. c = d /\ call[c].id # 0
          BY <1>5, <4>4, <5>1 DEF WsInv, Numbered
        <5>3. call[c].got + Len(call[c].queue) = srv[i].sent
          BY <3>3, <4>4, <5>1, <5>2 DEF WsInv, Queued, NextChunk
        <5>4. call[c].got + Len(call[c].queue) + 1 = f.n
          BY <4>2, <5>3, Zenon
        <5>. QED BY <5>1, <5>2, <5>4
      <4>5. OnItsWay(j, n)'
        <5>1. wire'[j] = w /\ wire'[j][n] = f /\ call' = call
          BY <3>1
        <5> HIDE DEF w
        <5>2. srv'[f.id].latched /\ f.n = srv'[f.id].sent /\ f.n # 0
          BY <1>3, <4>1, <4>2
        <5>3. \A m \in DOMAIN w : w[m].tag = "Chunk" /\ w[m].id = f.id => m = n
          BY <4>1, <4>3
        <5>4. \A c \in Callers : call'[c].id = f.id =>
                call'[c].kind = "stream" /\ call'[c].got + Len(call'[c].queue) + 1 = f.n
          BY <4>1, <4>4, <5>1, Zenon
        <5>. QED BY <5>1, <5>2, <5>3, <5>4 DEF OnItsWay
      <4>. QED BY <1>3, <1>5, <2>3, <3>1, <4>1, <4>5
    <3>. QED BY <3>2, <3>3
  <2>. QED BY <2>1, <2>2, <2>3
<1>13. NeverHeldBack'
  <2>1. ASSUME NEW j \in streams, srv'[j].latched, srv'[j].conn = ws, Open(ws)
        PROVE  \E n \in DOMAIN wire'[ws] :
                 wire'[ws][n].tag = "Chunk" /\ wire'[ws][n].id = j
    <3>1. j \in Ids /\ ws \in Conns
      BY <2>1 DEF WsInv, TypeOK, Open
    <3>2. CASE j = i /\ NextChunk(i, f, y)
      <4>1. ws = k /\ f.tag = "Chunk" /\ f.id = j
        BY <1>3, <2>1, <3>2 DEF NextChunk
      <4>. QED BY <1>1, <1>2, <4>1
    <3>3. CASE j # i \/ LastWord(i, f, y)
      <4>1. srv[j].latched /\ srv[j].conn = ws
        BY <1>3, <1>4, <2>1, <3>1, <3>3 DEF LastWord
      <4>2. PICK n \in DOMAIN wire[ws] : wire[ws][n].tag = "Chunk" /\ wire[ws][n].id = j
        BY <2>1, <4>1 DEF WsInv, NeverHeldBack
      <4>3. CASE ws = k
        BY <1>1, <1>2, <4>2, <4>3
      <4>4. CASE ws # k
        BY <1>2, <3>1, <4>2, <4>4
      <4>. QED BY <4>3, <4>4
    <3>. QED BY <3>2, <3>3
  <2>. QED BY <2>1 DEF NeverHeldBack, Open
<1>. QED BY <1>6, <1>7, <1>8, <1>9, <1>10, <1>12, <1>13 DEF WsInv

LEMMA ServerKeeps == ASSUME WsInv, NEW i \in Ids, Server(i) PROVE WsInv'
<1> DEFINE k == srv[i].conn
<1>1. /\ srv[i] \in Requests /\ srv \in [Ids -> Requests] /\ srv[i].open
      /\ k # None /\ k \in Conns
      /\ UNCHANGED <<ws, conn, reader, lock, call, pending, streams, seq, closing, closer>>
  BY DEF Server, ServerChunk, ServerExit, ServerDefect, Answering, Open, WsInv, TypeOK, Requests
<1>2. CASE ServerChunk(i)
  <2> DEFINE y == [srv[i] EXCEPT !.latched = TRUE, !.sent = srv[i].sent + 1]
             f == Frame("Chunk", i, srv[i].sent + 1)
  <2>1. srv[i].sent \in Nat /\ srv[i].sent < MaxChunks /\ IsStream(i) /\ ~srv[i].latched
    BY <1>1, <1>2, Numbers DEF ServerChunk, Requests
  <2>2. srv[i].sent + 1 \in 0 .. MaxChunks
    BY <2>1, Numbers
  <2>3. /\ y \in Requests /\ y.conn = k /\ y.latched /\ y.open = srv[i].open
        /\ y.sent = srv[i].sent + 1
    BY <1>1, <2>2 DEF Requests
  <2>4. f \in Frames /\ f.tag = "Chunk" /\ f.id = i /\ f.n = srv[i].sent + 1
    BY <2>2, Numbers DEF Frames, Frame, Ids
  <2>5. wire' = [wire EXCEPT ![k] = Append(wire[k], f)] /\ srv' = [srv EXCEPT ![i] = y]
    BY <1>1, <1>2 DEF ServerChunk, Deliver
  <2>6. NextChunk(i, f, y)
    BY <2>1, <2>3, <2>4 DEF NextChunk
  <2> HIDE DEF y, f
  <2>. QED BY <1>1, <2>3, <2>4, <2>5, <2>6, Delivers
<1>3. CASE ServerExit(i) \/ ServerDefect(i)
  <2> DEFINE y == [srv[i] EXCEPT !.open = FALSE]
  <2>1. y \in Requests /\ y.conn = k /\ ~y.open /\ y.latched = srv[i].latched
        /\ y.sent = srv[i].sent
    BY <1>1 DEF Requests
  <2>2. PICK f \in {Frame("Exit", i, 0), Frame("Defect", 0, 0)} :
          wire' = [wire EXCEPT ![k] = Append(wire[k], f)]
    BY <1>3 DEF ServerExit, ServerDefect, Deliver
  <2>3. f \in Frames /\ (f.tag = "Defect" \/ (f.tag = "Exit" /\ f.id = i))
    <3>1. 0 \in 0 .. MaxIds /\ 0 \in 0 .. MaxChunks /\ i \in 0 .. MaxIds
      BY Numbers DEF Ids
    <3>. QED BY <2>2, <3>1 DEF Frames, Frame
  <2>4. srv' = [srv EXCEPT ![i] = y]
    BY <1>1, <1>3 DEF ServerExit, ServerDefect
  <2>5. LastWord(i, f, y)
    BY <2>1, <2>3 DEF LastWord
  <2> HIDE DEF y
  <2>. QED BY <1>1, <2>1, <2>2, <2>3, <2>4, <2>5, Delivers
<1>. QED BY <1>2, <1>3 DEF Server
-----------------------------------------------------------------------------
(* The invariant *)

LEMMA NextWsInv == WsInv /\ [Next]_vars => WsInv'
<1> SUFFICES ASSUME WsInv, [Next]_vars PROVE WsInv'
  OBVIOUS
<1>1. ASSUME NEW c \in Callers, NEW kind \in {"request", "stream"}, Call(c, kind) PROVE WsInv'
  BY <1>1, CallKeeps
<1>2. ASSUME NEW c \in Callers, NEW k \in Conns, DialSucceeds(c, k) PROVE WsInv'
  BY <1>2, DialSucceedsKeeps
<1>3. ASSUME NEW c \in Callers,
             DialRefused(c) \/ DialFails(c) \/ PingFails(c) \/ BackoffEnds(c)
      PROVE  WsInv'
  BY <1>3, DialEndsKeeps
<1>4. ASSUME NEW c \in Callers, Locked(c) \/ Connected(c) PROVE WsInv'
  BY <1>4, LockedKeeps, ConnectedKeeps
<1>5. ASSUME NEW c \in Callers, Answered(c) \/ StreamOver(c) \/ StreamLeft(c) \/ Cancelled(c)
      PROVE  WsInv'
  BY <1>5, EndsKeeps
<1>6. ASSUME NEW c \in Callers, Yielded(c) \/ Sent(c) PROVE WsInv'
  BY <1>6, YieldedKeeps
<1>7. ASSUME NEW k \in Conns, Read(k) PROVE WsInv'
  BY <1>7, ReadChunkKeeps, ReadExitKeeps, ReadDefectKeeps, ReadLostKeeps DEF Read
<1>12. ASSUME NEW k \in Conns, ReadUndecodable(k) PROVE WsInv'
  BY <1>12, ReadUndecodableKeeps
<1>8. ASSUME NEW k \in Conns, Break(k) PROVE WsInv'
  BY <1>8, BreakKeeps
<1>9. ASSUME NEW i \in Ids, Server(i) PROVE WsInv'
  BY <1>9, ServerKeeps
<1>10. CASE CloseBegins \/ Closing
  BY <1>10, CloseBeginsKeeps, CloseGoesOnKeeps
<1>11. CASE UNCHANGED vars
  BY <1>11 DEF vars, WsInv, TypeOK, Sockets, OneSocket, Open, Numbered, Sane, Waiters, Wired,
               OnItsWay, Queued, NeverHeldBack
<1>. QED BY <1>1, <1>2, <1>3, <1>4, <1>5, <1>6, <1>7, <1>8, <1>9, <1>10, <1>11, <1>12
         DEF Next, Resume

LEMMA Invariant == Spec => []WsInv
  BY InitWsInv, NextWsInv, PTL DEF Spec

\* T3WsClient's fields have their types; no ticket is refused twice in one call, and
\* the lock is held by the caller that dials.
THEOREM TypeInvariant == Spec => []TypeOK
<1>1. WsInv => TypeOK
  BY DEF WsInv
<1>. QED BY <1>1, Invariant, PTL

\* No call waits for an answer that nobody will read: whatever dials, cancellations,
\* broken sockets and close() do, it is registered and its socket is being read, or
\* close() is about to fail it.
THEOREM NobodyStranded == Spec => []NoStrandedCall
<1>1. WsInv => NoStrandedCall
  BY DEF WsInv, Waiters, NoStrandedCall
<1>. QED BY <1>1, Invariant, PTL

\* Answers reach their own call (_dispatch): a call ends by its own Exit, and a
\* subscription yields its chunks in order, none missing.
THEOREM AnswersReachTheirCall == Spec => []Correlated
<1>1. WsInv => Correlated
  <2> SUFFICES ASSUME WsInv, NEW c \in Callers
               PROVE  /\ call[c].fut = "exit" => ~srv[call[c].id].open
                      /\ \A n \in DOMAIN call[c].queue : call[c].queue[n] = call[c].got + n
    BY DEF Correlated
  <2>1. Sane(call[c])
    BY CallFacts
  <2>. QED BY <2>1 DEF WsInv, Queued, Sane
<1>. QED BY <1>1, Invariant, PTL

\* The server never waits for the Ack of a chunk that the client took from the socket
\* (_dispatch acknowledges each, or the reader ends).
THEOREM StreamsGoOn == Spec => []NeverHeldBack
<1>1. WsInv => NeverHeldBack
  BY DEF WsInv
<1>. QED BY <1>1, Invariant, PTL

\* However many callers dial, break off and close, one socket at most is open besides
\* the one that close() is closing (_ensure_connected looks again under the lock).
THEOREM OneSocketOpen == Spec => []OneSocket
<1>1. WsInv => OneSocket
  BY DEF WsInv, Sockets
<1>. QED BY <1>1, Invariant, PTL
=============================================================================
