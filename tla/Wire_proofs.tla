---------------------------- MODULE Wire_proofs ----------------------------
(***************************************************************************)
(* Proofs about what crosses the network: that the frames of the two ends  *)
(* of SimpleWeb, and of a foreign end, arrive whole and as the messages    *)
(* that were sent (WsLink); and that the messages of the test client and   *)
(* of its server mean to their reader what they meant (TestClient).        *)
(***************************************************************************)
EXTENDS WsLink, TestClient, TLAPS

(***************************************************************************)
(* Types.                                                                  *)
(***************************************************************************)
AnyFrame ==
  [fin : BOOLEAN, opcode : {"text", "continuation", "close", "ping", "pong", "none"},
   masked : BOOLEAN, payload : Seq(Part)]

(* What SimpleWeb sends: nothing in fragments, and no ping.                *)
OwnFrame(mask) ==
  [fin : {TRUE}, opcode : {"text", "close", "pong"}, masked : {mask}, payload : Seq(Part)]
ServerFrame == OwnFrame(FALSE)
ClientFrame == OwnFrame(TRUE)

Piece ==
  [piece : {"header", "content"}, frame : AnyFrame]
    \cup [piece : {"request", "response"}, good : BOOLEAN]

TcpOK ==
  /\ link \in Link
  /\ socket \in [End -> {"none", "open", "closed", "broken"}]
  /\ wire \in [End -> Seq(Piece)]

(* What the connections of both ends have in common.                       *)
CommonFields ==
  {"service", "phase", "frame", "fragmented_message", "posted", "send_queue",
   "writing", "closed", "opened", "ended", "received", "sent"}
ServerFields == CommonFields \cup {"armed", "queued", "connection"}

ConnectionOK(c, frames) ==
  /\ c.frame \in AnyFrame
  /\ c.fragmented_message \in Seq(Part)
  /\ c.posted \in Seq(frames)
  /\ c.send_queue \in Seq(frames)
  /\ c.closed \in BOOLEAN
  /\ c.opened \in Nat
  /\ c.ended \in Nat
  /\ c.received \in Seq(Seq(Part))
  /\ c.sent \in Seq(Seq(Part))
  /\ c.writing = "none" <=> c.send_queue = <<>>

ServerOK ==
  /\ DOMAIN server = ServerFields
  /\ ConnectionOK(server, ServerFrame)
  /\ server.service \in {"new", "running", "stopping", "stopped"}
  /\ server.phase \in {"none", "readHandshake", "writeHandshake", "opening",
                       "header", "length", "content", "done"}
  /\ server.writing \in {"none", "posted", "header", "content"}
  /\ server.armed \in BOOLEAN
  /\ server.queued \in BOOLEAN
  /\ server.connection \in BOOLEAN

ClientOK ==
  /\ DOMAIN client = CommonFields
  /\ ConnectionOK(client, ClientFrame)
  /\ client.service \in {"new", "running", "stopped"}
  /\ client.phase \in {"none", "resolve", "connect", "writeHandshake", "readHandshake",
                       "header", "length", "content", "done"}
  /\ client.writing \in {"none", "posted", "frame"}

ForeignOK ==
  /\ DOMAIN foreign = {"may", "parts", "cut", "used", "controls", "over", "sent"}
  /\ foreign.may \in BOOLEAN
  /\ foreign.parts \in Seq(Part)
  /\ foreign.cut \in BOOLEAN
  /\ foreign.used \in Nat
  /\ foreign.controls \in Nat
  /\ foreign.over \in BOOLEAN
  /\ foreign.sent \in Seq(Seq(Part))

LinkTypeOK == TcpOK /\ ServerOK /\ ClientOK /\ ForeignOK

-----------------------------------------------------------------------------
(***************************************************************************)
(* What the handlers of the server's connection do, field by field.        *)
(***************************************************************************)
Kept(r, s, changed) ==
  DOMAIN s = DOMAIN r /\ \A field \in DOMAIN r \ changed : s[field] = r[field]

WireKept == wire' = wire
SocketKept == socket' = socket

(* One end's socket is closed, the other's stays as it is.                 *)
Closes(e) == socket' = [socket EXCEPT ![e] = "closed"]

(* End e reads the next piece, of this kind.                               *)
Reads(e, kind) ==
  /\ socket[e] = "open" /\ socket' = socket
  /\ wire[e] # <<>> /\ wire[e][1].piece = kind
  /\ wire' = [wire EXCEPT ![e] = Tail(@)]

(* End e writes pieces, which its peer gets if that is open.               *)
Writes(e, pieces) ==
  /\ socket[e] = "open" /\ socket' = socket
  /\ wire' = IF socket[Peer(e)] = "open" THEN [wire EXCEPT ![Peer(e)] = @ \o pieces] ELSE wire
LEMMA ServerStarts ==
  ASSUME ServerOK, S!Start
  PROVE  /\ Kept(server, server', {"service"})
         /\ server.service = "new" /\ server'.service = "running"
         /\ WireKept /\ SocketKept
  BY DEF ServerOK, ServerFields, CommonFields, Kept, WireKept, SocketKept, S!Start

LEMMA ServerStops ==
  ASSUME ServerOK, S!Stop
  PROVE  /\ Kept(server, server', {"service", "connection"})
         /\ server'.service = "stopping" /\ server'.connection = FALSE
         /\ WireKept /\ IF server.connection THEN Closes("server") ELSE SocketKept
  BY DEF ServerOK, ServerFields, CommonFields, Kept, WireKept, SocketKept, Closes,
         S!Stop, S!Stopped, S!Closed

LEMMA ServerStopsService ==
  ASSUME ServerOK, S!StopService
  PROVE  /\ Kept(server, server', {"service"})
         /\ server'.service = "stopped"
         /\ WireKept /\ SocketKept
  BY DEF ServerOK, ServerFields, CommonFields, Kept, WireKept, SocketKept, S!StopService, S!tcp

LEMMA ServerExits ==
  ASSUME S!Exit
  PROVE  server' = server /\ server.service = "stopped" /\ WireKept /\ Closes("server")
  BY DEF S!Exit, S!Closed, WireKept, Closes

LEMMA ServerReleases ==
  ASSUME S!Release
  PROVE  server' = server /\ server.phase = "done" /\ WireKept /\ Closes("server")
  BY DEF S!Release, S!In, S!Closed, WireKept, Closes

LEMMA ServerSends ==
  ASSUME ServerOK, S!AppSends
  PROVE  /\ Kept(server, server', {"posted", "sent"})
         /\ server.received # <<>>
         /\ \E m \in Seq(Part) :
              /\ server'.posted = Append(server.posted, Frame(TRUE, "text", FALSE, m))
              /\ server'.sent = Append(server.sent, m)
         /\ WireKept /\ SocketKept
<1>. DEFINE m == <<Pushes[Len(server.sent) + 1]>>
<1>1. m \in Seq(Part)
  <2>1. Len(server.sent) \in Nat
    BY DEF ServerOK, ConnectionOK
  <2>2. Len(server.sent) + 1 \in 1..Len(Pushes)
    BY <2>1, PartsAssumption DEF S!AppSends
  <2>. QED  BY <2>2, PartsAssumption
<1>2. server' = [server EXCEPT !.posted = Append(@, Frame(TRUE, "text", FALSE, m)),
                               !.sent = Append(@, m)]
  BY DEF S!AppSends, S!Send, S!Frame, Frame, ServerOK, ServerFields, CommonFields
<1>3. server.received # <<>> /\ WireKept /\ SocketKept
  BY DEF S!AppSends, S!tcp, WireKept, SocketKept
<1>. QED  BY <1>1, <1>2, <1>3 DEF ServerOK, ServerFields, CommonFields, Kept

LEMMA ServerAccepts ==
  ASSUME ServerOK, S!Accept
  PROVE  /\ Kept(server, server', {"phase", "armed"})
         /\ server.phase = "none" /\ server.service # "stopped"
         /\ server'.phase = "readHandshake" /\ server'.armed = TRUE
         /\ socket["client"] # "none"
         /\ socket' = [socket EXCEPT !["server"] = "open"]
         /\ WireKept
  BY DEF ServerOK, ServerFields, CommonFields, Kept, WireKept, S!Accept, S!In, S!Running

LEMMA ServerReadsHandshake ==
  ASSUME ServerOK, TcpOK, S!ReadHandshake
  PROVE  /\ Kept(server, server', {"phase", "armed"})
         /\ server.phase = "readHandshake" /\ server'.phase \in {"writeHandshake", "done"}
         /\ server'.armed \in BOOLEAN
         /\ Reads("server", "request")
<1>1. server.phase = "readHandshake" /\ Reads("server", "request")
  BY DEF Reads, TcpOK, End, S!ReadHandshake, S!In, S!Arrived, S!Taken
<1>2. \E phase \in {"writeHandshake", "done"}, armed \in BOOLEAN :
        server' = [server EXCEPT !.phase = phase, !.armed = armed]
  BY DEF S!ReadHandshake
<1>. QED  BY <1>1, <1>2 DEF ServerOK, ServerFields, CommonFields, Kept

LEMMA ServerReadHandshakeFails ==
  ASSUME ServerOK, S!ReadHandshakeFails
  PROVE  /\ Kept(server, server', {"phase", "armed"})
         /\ server.phase = "readHandshake" /\ server'.phase = "done" /\ server'.armed = FALSE
         /\ WireKept /\ SocketKept
  BY DEF ServerOK, ServerFields, CommonFields, Kept, WireKept, SocketKept,
         S!ReadHandshakeFails, S!In, S!tcp

LEMMA ServerWritesHandshake ==
  ASSUME ServerOK, S!WriteHandshake
  PROVE  /\ Kept(server, server', {"phase"})
         /\ server.phase = "writeHandshake" /\ server'.phase = "opening"
         /\ Writes("server", <<Response(TRUE)>>)
  BY DEF ServerOK, ServerFields, CommonFields, Kept, Writes, Peer, Response,
         S!WriteHandshake, S!In, S!Written, S!Peer, S!Response

LEMMA ServerErrs ==
  ASSUME ServerOK, S!WriteHandshakeFails \/ S!ReadFails
  PROVE  /\ Kept(server, server', {"service", "phase", "armed", "connection", "ended"})
         /\ server.phase \in {"writeHandshake", "header", "length", "content"}
         /\ server'.phase = "done" /\ server'.service = "stopping"
         /\ server'.ended = server.ended + 1
         /\ server'.armed = FALSE /\ server'.connection = FALSE
         /\ WireKept /\ SocketKept
<1>1. server' = S!Stopped(S!ConnectionClose(server)) /\ WireKept /\ SocketKept
  BY DEF S!WriteHandshakeFails, S!ReadFails, S!ConnectionError, WireKept, SocketKept
<1>2. server.phase \in {"writeHandshake", "header", "length", "content"}
  BY DEF S!WriteHandshakeFails, S!ReadFails, S!In
<1>. QED
  BY <1>1, <1>2 DEF ServerOK, ServerFields, CommonFields, Kept, S!Stopped, S!ConnectionClose

LEMMA ServerOpens ==
  ASSUME ServerOK, S!Open
  PROVE  /\ Kept(server, server', {"phase", "armed", "connection", "opened"})
         /\ server.phase = "opening" /\ server'.phase = "header"
         /\ server'.opened = server.opened + 1
         /\ server'.armed = FALSE /\ server'.connection = TRUE
         /\ WireKept /\ SocketKept
  BY DEF ServerOK, ServerFields, CommonFields, Kept, WireKept, SocketKept,
         S!Open, S!ConnectionOpen, S!In, S!tcp

LEMMA ServerTimerExpires ==
  ASSUME ServerOK, S!TimerExpires
  PROVE  /\ Kept(server, server', {"armed", "queued"})
         /\ server.armed /\ server'.armed = FALSE /\ server'.queued = TRUE
         /\ WireKept /\ SocketKept
  BY DEF ServerOK, ServerFields, CommonFields, Kept, WireKept, SocketKept, S!TimerExpires, S!tcp

LEMMA ServerTimerCloses ==
  ASSUME ServerOK, S!TimerCloses
  PROVE  /\ Kept(server, server', {"queued"})
         /\ server.queued /\ server'.queued = FALSE
         /\ WireKept /\ Closes("server")
  BY DEF ServerOK, ServerFields, CommonFields, Kept, WireKept, Closes, S!TimerCloses, S!Closed

(* A close frame is posted once, with the end of the connection or not.    *)
LEMMA ServerSendsClose ==
  ASSUME ServerOK
  PROVE  LET s == S!ConnectionClose(S!SendClose(server))
         IN  /\ Kept(server, s, {"phase", "posted", "closed", "armed", "connection", "ended"})
             /\ s.phase = "done" /\ s.ended = server.ended + 1
             /\ s.closed \in BOOLEAN /\ s.armed \in BOOLEAN /\ s.connection \in BOOLEAN
             /\ s.posted \in {server.posted,
                              Append(server.posted, Frame(TRUE, "close", FALSE, <<>>))}
<1>1. CASE server.closed
  BY <1>1 DEF ServerOK, ConnectionOK, ServerFields, CommonFields, Kept, S!ConnectionClose, S!SendClose
<1>2. CASE ~server.closed
  BY <1>2 DEF ServerOK, ConnectionOK, ServerFields, CommonFields, Kept, S!ConnectionClose, S!SendClose,
              S!Send, S!Frame, Frame
<1>. QED  BY <1>1, <1>2

LEMMA ServerReadsHeader ==
  ASSUME ServerOK, TcpOK, S!ReadHeader
  PROVE  /\ Reads("server", "header") /\ server.phase = "header"
         /\ \/ /\ server' = S!ConnectionClose(S!SendClose(server))
            \/ /\ Kept(server, server', {"phase", "frame"})
               /\ server'.frame = wire["server"][1].frame /\ server'.frame.masked
               /\ server'.phase \in {"length", "content"}
<1>1. Reads("server", "header") /\ server.phase = "header"
  BY DEF ServerOK, TcpOK, End, Reads, S!ReadHeader, S!In, S!Arrived, S!Taken
<1>. DEFINE f == wire["server"][1].frame
<1>2. server' = IF ~f.masked THEN S!ConnectionClose(S!SendClose(server))
                ELSE [server EXCEPT !.frame = f,
                        !.phase = IF S!HasLongLength(f) THEN "length" ELSE "content"]
  BY <1>1 DEF Reads, TcpOK, End, S!ReadHeader
<1>3. CASE f.masked
  BY <1>1, <1>2, <1>3 DEF ServerOK, ServerFields, CommonFields, Kept
<1>. QED  BY <1>1, <1>2, <1>3

LEMMA ServerReadsLength ==
  ASSUME ServerOK, S!ReadLength
  PROVE  /\ Kept(server, server', {"phase"})
         /\ server.phase = "length" /\ server'.phase = "content"
         /\ WireKept /\ SocketKept
  BY DEF ServerOK, ServerFields, CommonFields, Kept, WireKept, SocketKept,
         S!ReadLength, S!In, S!tcp

LEMMA ServerReadsContent ==
  ASSUME TcpOK, NEW opcodes, S!ReadContent(opcodes)
  PROVE  /\ Reads("server", "content")
         /\ server.phase = "content" /\ server.frame.opcode \in opcodes
  BY DEF Reads, TcpOK, End, S!ReadContent, S!In, S!Arrived, S!Taken

LEMMA ServerReadsClose ==
  ASSUME TcpOK, S!ReadClose
  PROVE  /\ Reads("server", "content")
         /\ server.phase = "content" /\ server.frame.opcode = "close"
         /\ server' = S!ConnectionClose(S!SendClose(server))
  BY ServerReadsContent DEF S!ReadClose

LEMMA ServerReadsPing ==
  ASSUME ServerOK, TcpOK, S!ReadPing
  PROVE  /\ Reads("server", "content")
         /\ server.phase = "content" /\ server.frame.opcode = "ping"
         /\ Kept(server, server', {"phase", "posted"})
         /\ server'.phase = "header"
         /\ server'.posted = Append(server.posted, Frame(TRUE, "pong", FALSE, <<>>))
<1>1. /\ Reads("server", "content")
      /\ server.phase = "content" /\ server.frame.opcode = "ping"
  BY ServerReadsContent DEF S!ReadPing
<1>. QED
  BY <1>1 DEF ServerOK, ServerFields, CommonFields, Kept, S!ReadPing, S!Send, S!Frame, Frame

LEMMA ServerReadsPong ==
  ASSUME ServerOK, TcpOK, S!ReadPong
  PROVE  /\ Reads("server", "content")
         /\ server.phase = "content" /\ server.frame.opcode = "pong"
         /\ Kept(server, server', {"phase"})
         /\ server'.phase = "header"
<1>1. /\ Reads("server", "content")
      /\ server.phase = "content" /\ server.frame.opcode = "pong"
  BY ServerReadsContent DEF S!ReadPong
<1>. QED
  BY <1>1 DEF ServerOK, ServerFields, CommonFields, Kept, S!ReadPong

LEMMA ServerReadsFragment ==
  ASSUME ServerOK, TcpOK, S!ReadFragment
  PROVE  /\ Reads("server", "content")
         /\ server.phase = "content" /\ server.frame.opcode \in {"text", "continuation"}
         /\ ~server.frame.fin
         /\ Kept(server, server', {"phase", "fragmented_message"})
         /\ server'.phase = "header"
         /\ server'.fragmented_message = server.fragmented_message \o server.frame.payload
<1>1. /\ Reads("server", "content")
      /\ server.phase = "content" /\ server.frame.opcode \in {"text", "continuation"}
  BY ServerReadsContent DEF S!ReadFragment
<1>. QED
  BY <1>1 DEF ServerOK, ServerFields, CommonFields, Kept, S!ReadFragment, S!Joined

LEMMA ServerReadsMessage ==
  ASSUME ServerOK, TcpOK, S!ReadMessage
  PROVE  /\ Reads("server", "content")
         /\ server.phase = "content" /\ server.frame.opcode \in {"text", "continuation"}
         /\ server.frame.fin
         /\ Kept(server, server', {"phase", "fragmented_message", "received"})
         /\ server'.phase = "header"
         /\ server'.fragmented_message = <<>>
         /\ server'.received =
              Append(server.received,
                     IF server.frame.opcode = "continuation"
                     THEN server.fragmented_message \o server.frame.payload
                     ELSE server.frame.payload)
<1>1. /\ Reads("server", "content")
      /\ server.phase = "content" /\ server.frame.opcode \in {"text", "continuation"}
  BY ServerReadsContent DEF S!ReadMessage
<1>. QED
  BY <1>1 DEF ServerOK, ServerFields, CommonFields, Kept, S!ReadMessage, S!Joined

LEMMA ServerRunsSend ==
  ASSUME ServerOK, S!RunSend
  PROVE  /\ Kept(server, server', {"posted", "send_queue", "writing"})
         /\ server.posted # <<>>
         /\ server'.posted = Tail(server.posted)
         /\ server'.send_queue = Append(server.send_queue, server.posted[1])
         /\ server'.writing = IF server.send_queue = <<>> THEN "posted" ELSE server.writing
         /\ WireKept /\ SocketKept
<1>1. server.posted # <<>> /\ Head(server.posted) = server.posted[1]
  BY DEF ServerOK, ConnectionOK, S!RunSend
<1>2. server' = [server EXCEPT !.posted = Tail(@),
                   !.send_queue = Append(@, server.posted[1]),
                   !.writing = IF server.send_queue = <<>> THEN "posted" ELSE @]
  BY <1>1 DEF S!RunSend
<1>3. WireKept /\ SocketKept
  BY DEF S!RunSend, S!tcp, WireKept, SocketKept
<1>. QED  BY <1>1, <1>2, <1>3 DEF ServerOK, ServerFields, CommonFields, Kept

LEMMA ServerWritesHeader ==
  ASSUME ServerOK, S!WriteHeader
  PROVE  /\ Kept(server, server', {"writing"})
         /\ server.writing = "posted" /\ server'.writing = "header"
         /\ Writes("server", <<Header(server.send_queue[1])>>)
  BY DEF ServerOK, ConnectionOK, ServerFields, CommonFields, Kept, Writes, Peer, Header,
         S!WriteHeader, S!Write, S!Written, S!Peer, S!Header

LEMMA ServerWritesContent ==
  ASSUME ServerOK, S!WriteContent
  PROVE  /\ Kept(server, server', {"writing"})
         /\ server.writing = "header" /\ server'.writing = "content"
         /\ Writes("server", <<Content(server.send_queue[1])>>)
  BY DEF ServerOK, ConnectionOK, ServerFields, CommonFields, Kept, Writes, Peer, Content,
         S!WriteContent, S!Write, S!Written, S!Peer, S!Content

LEMMA ServerFinishesWrite ==
  ASSUME ServerOK, S!FinishWrite
  PROVE  /\ Kept(server, server', {"send_queue", "writing"})
         /\ server.writing = "content"
         /\ server'.send_queue = Tail(server.send_queue)
         /\ server'.writing = IF Len(server.send_queue) > 1 THEN "posted" ELSE "none"
         /\ WireKept /\ SocketKept
  BY DEF ServerOK, ServerFields, CommonFields, Kept, WireKept, SocketKept, S!FinishWrite, S!tcp

LEMMA ServerWriteFails ==
  ASSUME ServerOK, S!WriteFails
  PROVE  /\ Kept(server, server', {"send_queue", "writing"})
         /\ server.writing # "none" /\ server'.writing = "none"
         /\ server'.send_queue = <<>>
         /\ socket["server"] # "open" \/ socket["client"] \in {"closed", "broken"}
         /\ WireKept /\ SocketKept
  BY DEF ServerOK, ServerFields, CommonFields, Kept, WireKept, SocketKept,
         S!WriteFails, S!CanFail, S!Peer, S!tcp

-----------------------------------------------------------------------------
(* The same for the client's connection.                                   *)
LEMMA ClientStarts ==
  ASSUME ClientOK, C!Start
  PROVE  /\ Kept(client, client', {"service", "phase"})
         /\ client.service = "new"
         /\ client'.service = "running" /\ client'.phase = "resolve"
         /\ WireKept /\ SocketKept
  BY DEF ClientOK, CommonFields, Kept, WireKept, SocketKept, C!Start, C!tcp

LEMMA ClientStops ==
  ASSUME ClientOK, C!Stop
  PROVE  /\ Kept(client, client', {"service"})
         /\ client'.service = "stopped"
         /\ WireKept /\ Closes("client")
  BY DEF ClientOK, CommonFields, Kept, WireKept, Closes, C!Stop, C!Stopped, C!Closed

LEMMA ClientSends ==
  ASSUME ClientOK, C!AppSends
  PROVE  /\ Kept(client, client', {"posted", "sent"})
         /\ client.opened # 0
         /\ \E m \in Seq(Part) :
              /\ client'.posted = Append(client.posted, Frame(TRUE, "text", TRUE, m))
              /\ client'.sent = Append(client.sent, m)
         /\ WireKept /\ SocketKept
<1>. DEFINE m == <<Requests[Len(client.sent) + 1]>>
<1>1. m \in Seq(Part)
  <2>1. Len(client.sent) \in Nat
    BY DEF ClientOK, ConnectionOK
  <2>2. Len(client.sent) + 1 \in 1..Len(Requests)
    BY <2>1, PartsAssumption DEF C!AppSends
  <2>. QED  BY <2>2, PartsAssumption
<1>2. client' = [client EXCEPT !.posted = Append(@, Frame(TRUE, "text", TRUE, m)),
                               !.sent = Append(@, m)]
  BY DEF C!AppSends, C!Send, C!Frame, Frame, ClientOK, CommonFields
<1>3. client.opened # 0 /\ WireKept /\ SocketKept
  BY DEF C!AppSends, C!tcp, WireKept, SocketKept, ClientOK, ConnectionOK
<1>. QED  BY <1>1, <1>2, <1>3 DEF ClientOK, CommonFields, Kept

LEMMA ClientResolves ==
  ASSUME ClientOK, C!Resolve
  PROVE  /\ Kept(client, client', {"phase"})
         /\ client.phase = "resolve" /\ client'.phase = "connect"
         /\ WireKept /\ SocketKept
  BY DEF ClientOK, CommonFields, Kept, WireKept, SocketKept, C!Resolve, C!In, C!tcp

LEMMA ClientConnects ==
  ASSUME ClientOK, C!Connect
  PROVE  /\ Kept(client, client', {"phase"})
         /\ client.phase = "connect" /\ client.service = "running"
         /\ client'.phase = "writeHandshake"
         /\ socket' = [socket EXCEPT !["client"] = "open"]
         /\ WireKept
  BY DEF ClientOK, CommonFields, Kept, WireKept, C!Connect, C!In, C!Running

(* The client is told of an end, and stopped.                              *)
LEMMA ClientEnds ==
  ASSUME ClientOK, NEW c, Kept(client, c, {"posted", "closed"}), C!ConnectionClose(c)
  PROVE  /\ Kept(client, client', {"service", "phase", "posted", "closed", "ended"})
         /\ client'.service = "stopped" /\ client'.phase = "done"
         /\ client'.ended = client.ended + 1
         /\ client'.posted = c.posted /\ client'.closed = c.closed
         /\ Closes("client")
<1>1. client' = [c EXCEPT !.ended = @ + 1, !.phase = "done", !.service = "stopped"]
  BY DEF C!ConnectionClose, C!Stopped, ClientOK, CommonFields, Kept
<1>. QED  BY <1>1 DEF ClientOK, CommonFields, Kept, Closes, C!ConnectionClose, C!Closed

LEMMA ClientErrs ==
  ASSUME ClientOK, C!ConnectFails \/ C!Fails
  PROVE  /\ Kept(client, client', {"service", "phase", "posted", "closed", "ended"})
         /\ client.phase \in {"resolve", "connect", "writeHandshake", "readHandshake",
                              "header", "length", "content"}
         /\ client'.service = "stopped" /\ client'.phase = "done"
         /\ client'.ended = client.ended + 1
         /\ client'.posted = client.posted /\ client'.closed = client.closed
         /\ WireKept /\ Closes("client")
<1>1. Kept(client, client, {"posted", "closed"})
  BY DEF Kept
<1>2. /\ C!ConnectionClose(client) /\ WireKept
      /\ client.phase \in {"resolve", "connect", "writeHandshake", "readHandshake",
                           "header", "length", "content"}
  BY DEF C!ConnectFails, C!Fails, C!ConnectionError, C!In, WireKept
<1>. QED  BY <1>1, <1>2, ClientEnds

LEMMA ClientWritesHandshake ==
  ASSUME ClientOK, C!WriteHandshake
  PROVE  /\ Kept(client, client', {"phase"})
         /\ client.phase = "writeHandshake" /\ client'.phase = "readHandshake"
         /\ wire' = [wire EXCEPT !["server"] = Append(@, Request(TRUE))]
         /\ SocketKept
  BY DEF ClientOK, CommonFields, Kept, SocketKept, Request, C!WriteHandshake, C!In, C!Request

(* With a wrong response the connection ends before it was opened.         *)
LEMMA ClientReadsHandshake ==
  ASSUME ClientOK, TcpOK, C!ReadHandshake
  PROVE  /\ client.phase = "readHandshake"
         /\ wire["client"] # <<>> /\ wire' = [wire EXCEPT !["client"] = Tail(@)]
         /\ socket["client"] = "open"
         /\ \/ /\ Kept(client, client', {"phase", "opened"}) /\ SocketKept
               /\ client'.phase = "header" /\ client'.opened = client.opened + 1
            \/ /\ Kept(client, client', {"service", "phase", "posted", "closed", "ended"})
               /\ client'.service = "stopped" /\ client'.phase = "done"
               /\ client'.ended = client.ended + 1
               /\ client'.posted = client.posted /\ client'.closed = client.closed
               /\ Closes("client")
<1>1. /\ client.phase = "readHandshake" /\ socket["client"] = "open"
      /\ wire["client"] # <<>> /\ wire' = [wire EXCEPT !["client"] = Tail(@)]
  BY DEF C!ReadHandshake, C!In, C!Arrived, C!Taken
<1>2. CASE Head(wire["client"]).good
  <2>1. client' = [client EXCEPT !.opened = @ + 1, !.phase = "header"] /\ SocketKept
    BY <1>2 DEF C!ReadHandshake, C!ConnectionOpen, ClientOK, CommonFields, SocketKept
  <2>. QED  BY <1>1, <2>1 DEF ClientOK, CommonFields, Kept
<1>3. CASE ~Head(wire["client"]).good
  <2>1. C!ConnectionClose(client) /\ Kept(client, client, {"posted", "closed"})
    BY <1>3 DEF C!ReadHandshake, C!ConnectionError, Kept
  <2>. QED  BY <1>1, <2>1, ClientEnds
<1>. QED  BY <1>2, <1>3

LEMMA ClientSendsClose ==
  ASSUME ClientOK
  PROVE  /\ Kept(client, C!SendClose(client), {"posted", "closed"})
         /\ C!SendClose(client).closed \in BOOLEAN
         /\ C!SendClose(client).posted \in
              {client.posted, Append(client.posted, Frame(TRUE, "close", TRUE, <<>>))}
<1>1. CASE client.closed
  BY <1>1 DEF ClientOK, ConnectionOK, CommonFields, Kept, C!SendClose
<1>2. CASE ~client.closed
  BY <1>2 DEF ClientOK, ConnectionOK, CommonFields, Kept, C!SendClose, C!Send, C!Frame, Frame
<1>. QED  BY <1>1, <1>2

(* The connection ends with a close frame that is posted, or was before.   *)
ClientCloses ==
  /\ Kept(client, client', {"service", "phase", "posted", "closed", "ended"})
  /\ client'.service = "stopped" /\ client'.phase = "done"
  /\ client'.ended = client.ended + 1 /\ client'.closed \in BOOLEAN
  /\ client'.posted \in {client.posted, Append(client.posted, Frame(TRUE, "close", TRUE, <<>>))}
  /\ Closes("client")

LEMMA ClientReadsHeader ==
  ASSUME ClientOK, TcpOK, C!ReadHeader
  PROVE  /\ client.phase = "header" /\ socket["client"] = "open"
         /\ wire["client"] # <<>> /\ wire["client"][1].piece = "header"
         /\ wire' = [wire EXCEPT !["client"] = Tail(@)]
         /\ \/ ClientCloses
            \/ /\ Kept(client, client', {"phase", "frame"})
               /\ client'.frame = wire["client"][1].frame /\ ~client'.frame.masked
               /\ client'.phase \in {"length", "content"}
               /\ SocketKept
<1>1. /\ client.phase = "header" /\ socket["client"] = "open"
      /\ wire["client"] # <<>> /\ wire["client"][1].piece = "header"
      /\ wire' = [wire EXCEPT !["client"] = Tail(@)]
      /\ Head(wire["client"]) = wire["client"][1]
  BY DEF TcpOK, End, C!ReadHeader, C!In, C!Arrived, C!Taken
<1>. DEFINE f == wire["client"][1].frame
<1>2. CASE f.masked
  <2>1. C!ConnectionClose(C!SendClose(client))
    BY <1>1, <1>2 DEF C!ReadHeader
  <2>2. ClientCloses
    BY <2>1, ClientSendsClose, ClientEnds DEF ClientCloses
  <2>. QED  BY <1>1, <2>2
<1>3. CASE ~f.masked
  <2>1. /\ client' = [client EXCEPT !.frame = f,
                        !.phase = IF C!HasLongLength(f) THEN "length" ELSE "content"]
        /\ SocketKept
    BY <1>1, <1>3 DEF C!ReadHeader, SocketKept
  <2>. QED  BY <1>1, <1>3, <2>1 DEF ClientOK, CommonFields, Kept
<1>. QED  BY <1>2, <1>3

LEMMA ClientReadsLength ==
  ASSUME ClientOK, C!ReadLength
  PROVE  /\ Kept(client, client', {"phase"})
         /\ client.phase = "length" /\ client'.phase = "content"
         /\ WireKept /\ SocketKept
  BY DEF ClientOK, CommonFields, Kept, WireKept, SocketKept, C!ReadLength, C!In, C!tcp

LEMMA ClientReadsContent ==
  ASSUME TcpOK, NEW opcodes, C!ReadContent(opcodes)
  PROVE  /\ client.phase = "content" /\ client.frame.opcode \in opcodes
         /\ wire["client"] # <<>> /\ wire["client"][1].piece = "content"
         /\ wire' = [wire EXCEPT !["client"] = Tail(@)]
         /\ socket["client"] = "open"
  BY DEF TcpOK, End, C!ReadContent, C!In, C!Arrived, C!Taken

LEMMA ClientReadsClose ==
  ASSUME ClientOK, TcpOK, C!ReadClose
  PROVE  /\ client.phase = "content" /\ client.frame.opcode = "close"
         /\ wire["client"] # <<>> /\ wire["client"][1].piece = "content"
         /\ wire' = [wire EXCEPT !["client"] = Tail(@)]
         /\ socket["client"] = "open"
         /\ ClientCloses
<1>1. C!ReadContent({"close"}) /\ C!ConnectionClose(C!SendClose(client))
  BY DEF C!ReadClose
<1>2. ClientCloses
  BY <1>1, ClientSendsClose, ClientEnds DEF ClientCloses
<1>. QED  BY <1>1, <1>2, ClientReadsContent

LEMMA ClientReadsPing ==
  ASSUME ClientOK, TcpOK, C!ReadPing
  PROVE  /\ Reads("client", "content")
         /\ client.phase = "content" /\ client.frame.opcode = "ping"
         /\ Kept(client, client', {"phase", "posted"})
         /\ client'.phase = "header"
         /\ client'.posted = Append(client.posted, Frame(TRUE, "pong", TRUE, <<>>))
<1>1. /\ Reads("client", "content")
      /\ client.phase = "content" /\ client.frame.opcode = "ping"
  BY ClientReadsContent DEF C!ReadPing, Reads
<1>. QED
  BY <1>1 DEF ClientOK, CommonFields, Kept, C!ReadPing, C!Send, C!Frame, Frame

LEMMA ClientReadsPong ==
  ASSUME ClientOK, TcpOK, C!ReadPong
  PROVE  /\ Reads("client", "content")
         /\ client.phase = "content" /\ client.frame.opcode = "pong"
         /\ Kept(client, client', {"phase"})
         /\ client'.phase = "header"
<1>1. /\ Reads("client", "content")
      /\ client.phase = "content" /\ client.frame.opcode = "pong"
  BY ClientReadsContent DEF C!ReadPong, Reads
<1>. QED
  BY <1>1 DEF ClientOK, CommonFields, Kept, C!ReadPong

LEMMA ClientReadsFragment ==
  ASSUME ClientOK, TcpOK, C!ReadFragment
  PROVE  /\ Reads("client", "content")
         /\ client.phase = "content" /\ client.frame.opcode \in {"text", "continuation"}
         /\ ~client.frame.fin
         /\ Kept(client, client', {"phase", "fragmented_message"})
         /\ client'.phase = "header"
         /\ client'.fragmented_message = client.fragmented_message \o client.frame.payload
<1>1. /\ Reads("client", "content")
      /\ client.phase = "content" /\ client.frame.opcode \in {"text", "continuation"}
  BY ClientReadsContent DEF C!ReadFragment, Reads
<1>. QED
  BY <1>1 DEF ClientOK, CommonFields, Kept, C!ReadFragment, C!Joined

LEMMA ClientReadsMessage ==
  ASSUME ClientOK, TcpOK, C!ReadMessage
  PROVE  /\ Reads("client", "content")
         /\ client.phase = "content" /\ client.frame.opcode \in {"text", "continuation"}
         /\ client.frame.fin
         /\ Kept(client, client', {"phase", "fragmented_message", "received"})
         /\ client'.phase = "header"
         /\ client'.fragmented_message = <<>>
         /\ client'.received =
              Append(client.received, client.fragmented_message \o client.frame.payload)
<1>1. /\ Reads("client", "content")
      /\ client.phase = "content" /\ client.frame.opcode \in {"text", "continuation"}
  BY ClientReadsContent DEF C!ReadMessage, Reads
<1>. QED
  BY <1>1 DEF ClientOK, CommonFields, Kept, C!ReadMessage, C!Joined

LEMMA ClientRunsSend ==
  ASSUME ClientOK, C!RunSend
  PROVE  /\ Kept(client, client', {"posted", "send_queue", "writing"})
         /\ client.posted # <<>>
         /\ client'.posted = Tail(client.posted)
         /\ client'.send_queue = Append(client.send_queue, client.posted[1])
         /\ client'.writing = IF client.send_queue = <<>> THEN "posted" ELSE client.writing
         /\ WireKept /\ SocketKept
<1>1. client.posted # <<>> /\ Head(client.posted) = client.posted[1]
  BY DEF ClientOK, ConnectionOK, C!RunSend
<1>2. client' = [client EXCEPT !.posted = Tail(@),
                   !.send_queue = Append(@, client.posted[1]),
                   !.writing = IF client.send_queue = <<>> THEN "posted" ELSE @]
  BY <1>1 DEF C!RunSend
<1>3. WireKept /\ SocketKept
  BY DEF C!RunSend, C!tcp, WireKept, SocketKept
<1>. QED  BY <1>1, <1>2, <1>3 DEF ClientOK, CommonFields, Kept

LEMMA ClientWritesFrame ==
  ASSUME ClientOK, C!WriteFrame
  PROVE  /\ Kept(client, client', {"writing"})
         /\ client.writing = "posted" /\ client'.writing = "frame"
         /\ Writes("client", <<Header(client.send_queue[1]), Content(client.send_queue[1])>>)
  BY DEF ClientOK, ConnectionOK, CommonFields, Kept, Writes, Peer, Header, Content,
         C!WriteFrame, C!Written, C!Peer, C!Header, C!Content

LEMMA ClientFinishesWrite ==
  ASSUME ClientOK, C!FinishWrite
  PROVE  /\ Kept(client, client', {"send_queue", "writing"})
         /\ client.writing = "frame"
         /\ client'.send_queue = Tail(client.send_queue)
         /\ client'.writing = IF Len(client.send_queue) > 1 THEN "posted" ELSE "none"
         /\ WireKept /\ SocketKept
  BY DEF ClientOK, CommonFields, Kept, WireKept, SocketKept, C!FinishWrite, C!tcp

LEMMA ClientWriteFails ==
  ASSUME ClientOK, C!WriteFails
  PROVE  /\ Kept(client, client', {"send_queue", "writing"})
         /\ client.writing # "none" /\ client'.writing = "none"
         /\ client'.send_queue = <<>>
         /\ socket["client"] # "open" \/ socket["server"] \in {"closed", "broken"}
         /\ WireKept /\ SocketKept
  BY DEF ClientOK, CommonFields, Kept, WireKept, SocketKept,
         C!WriteFails, C!CanFail, C!Peer, C!tcp

-----------------------------------------------------------------------------
(* The fields that a step keeps, one by one.                               *)
LEMMA ServerKeeps ==
  ASSUME ServerOK, NEW changed, Kept(server, server', changed)
  PROVE  /\ DOMAIN server' = ServerFields
         /\ "service" \in changed \/ server'.service = server.service
         /\ "phase" \in changed \/ server'.phase = server.phase
         /\ "frame" \in changed \/ server'.frame = server.frame
         /\ "fragmented_message" \in changed \/ server'.fragmented_message = server.fragmented_message
         /\ "posted" \in changed \/ server'.posted = server.posted
         /\ "send_queue" \in changed \/ server'.send_queue = server.send_queue
         /\ "writing" \in changed \/ server'.writing = server.writing
         /\ "closed" \in changed \/ server'.closed = server.closed
         /\ "opened" \in changed \/ server'.opened = server.opened
         /\ "ended" \in changed \/ server'.ended = server.ended
         /\ "received" \in changed \/ server'.received = server.received
         /\ "sent" \in changed \/ server'.sent = server.sent
         /\ "armed" \in changed \/ server'.armed = server.armed
         /\ "queued" \in changed \/ server'.queued = server.queued
         /\ "connection" \in changed \/ server'.connection = server.connection
  BY DEF ServerOK, ServerFields, CommonFields, Kept

LEMMA ClientKeeps ==
  ASSUME ClientOK, NEW changed, Kept(client, client', changed)
  PROVE  /\ DOMAIN client' = CommonFields
         /\ "service" \in changed \/ client'.service = client.service
         /\ "phase" \in changed \/ client'.phase = client.phase
         /\ "frame" \in changed \/ client'.frame = client.frame
         /\ "fragmented_message" \in changed \/ client'.fragmented_message = client.fragmented_message
         /\ "posted" \in changed \/ client'.posted = client.posted
         /\ "send_queue" \in changed \/ client'.send_queue = client.send_queue
         /\ "writing" \in changed \/ client'.writing = client.writing
         /\ "closed" \in changed \/ client'.closed = client.closed
         /\ "opened" \in changed \/ client'.opened = client.opened
         /\ "ended" \in changed \/ client'.ended = client.ended
         /\ "received" \in changed \/ client'.received = client.received
         /\ "sent" \in changed \/ client'.sent = client.sent
  BY DEF ClientOK, CommonFields, Kept

-----------------------------------------------------------------------------
(* Types are kept: first those of the TCP connection.                      *)
LEMMA OwnFrames ==
  /\ ServerFrame \subseteq AnyFrame /\ ClientFrame \subseteq AnyFrame
  /\ \A m \in Seq(Part) : /\ Frame(TRUE, "text", FALSE, m) \in ServerFrame
                          /\ Frame(TRUE, "text", TRUE, m) \in ClientFrame
  /\ \A opcode \in {"close", "pong"} : /\ Frame(TRUE, opcode, FALSE, <<>>) \in ServerFrame
                                       /\ Frame(TRUE, opcode, TRUE, <<>>) \in ClientFrame
<1>. USE DEF ServerFrame, ClientFrame, OwnFrame
<1>1. ServerFrame \subseteq AnyFrame /\ ClientFrame \subseteq AnyFrame
  BY DEF AnyFrame
<1>2. \A opcode \in {"text", "close", "pong"}, m \in Seq(Part) :
        /\ Frame(TRUE, opcode, FALSE, m) \in ServerFrame
        /\ Frame(TRUE, opcode, TRUE, m) \in ClientFrame
  BY DEF Frame
<1>3. <<>> \in Seq(Part)
  OBVIOUS
<1>. QED  BY <1>1, <1>2, <1>3

LEMMA OneElement ==
  ASSUME NEW T, NEW x \in T
  PROVE  <<x>> \in Seq(T)
  OBVIOUS

LEMMA Pieces ==
  /\ \A f \in AnyFrame : Header(f) \in Piece /\ Content(f) \in Piece
  /\ \A good \in BOOLEAN : Request(good) \in Piece /\ Response(good) \in Piece
  BY DEF Piece, Header, Content, Request, Response

SocketSteps ==
  \/ SocketKept
  \/ \E e \in End, state \in {"open", "closed"} : socket' = [socket EXCEPT ![e] = state]

LEMMA WireKeptTypes ==
  ASSUME TcpOK, link' = link, WireKept, SocketSteps
  PROVE  TcpOK'
  BY DEF TcpOK, WireKept, SocketSteps, SocketKept

LEMMA ReadingTypes ==
  ASSUME TcpOK, link' = link, NEW e \in End,
         wire[e] # <<>>, wire' = [wire EXCEPT ![e] = Tail(@)], SocketSteps
  PROVE  /\ TcpOK'
         /\ wire[e][1] \in Piece
         /\ wire[e][1].piece \in {"header", "content"} => wire[e][1].frame \in AnyFrame
<1>1. wire[e][1] \in Piece /\ Tail(wire[e]) \in Seq(Piece)
  BY DEF TcpOK
<1>2. wire[e][1].piece \in {"header", "content"} => wire[e][1].frame \in AnyFrame
  BY <1>1 DEF Piece
<1>. QED  BY <1>1, <1>2 DEF TcpOK, SocketSteps, SocketKept

LEMMA WritingTypes ==
  ASSUME TcpOK, link' = link, NEW e \in End, NEW pieces \in Seq(Piece), Writes(e, pieces)
  PROVE  TcpOK'
<1>1. Peer(e) \in End
  BY DEF Peer, End
<1>2. wire[Peer(e)] \o pieces \in Seq(Piece)
  BY <1>1 DEF TcpOK
<1>. QED  BY <1>1, <1>2 DEF TcpOK, Writes

LEMMA ServerTcpTypes ==
  ASSUME TcpOK, ServerOK, S!Next, link' = link
  PROVE  TcpOK'
<1>. USE DEF End
<1>1. CASE S!Start \/ S!Stop \/ S!AppSends \/ S!StopService \/ S!Exit \/ S!Release
  <2>1. WireKept /\ SocketSteps
    BY <1>1, ServerStarts, ServerStops, ServerSends, ServerStopsService, ServerExits, ServerReleases
       DEF SocketSteps, Closes
  <2>. QED  BY <2>1, WireKeptTypes
<1>2. CASE \/ S!Accept \/ S!ReadHandshakeFails \/ S!WriteHandshakeFails \/ S!ReadFails \/ S!Open
           \/ S!TimerExpires \/ S!TimerCloses \/ S!ReadLength
  <2>1. WireKept /\ SocketSteps
    BY <1>2, ServerAccepts, ServerReadHandshakeFails, ServerErrs, ServerOpens, ServerTimerExpires,
       ServerTimerCloses, ServerReadsLength DEF SocketSteps, Closes
  <2>. QED  BY <2>1, WireKeptTypes
<1>3. CASE S!RunSend \/ S!FinishWrite \/ S!WriteFails
  <2>1. WireKept /\ SocketSteps
    BY <1>3, ServerRunsSend, ServerFinishesWrite, ServerWriteFails DEF SocketSteps
  <2>. QED  BY <2>1, WireKeptTypes
<1>4. CASE \/ S!ReadHandshake \/ S!ReadHeader \/ S!ReadClose \/ S!ReadPing \/ S!ReadPong
           \/ S!ReadFragment \/ S!ReadMessage
  <2>1. \E kind : Reads("server", kind)
    BY <1>4, ServerReadsHandshake, ServerReadsHeader, ServerReadsClose, ServerReadsPing,
       ServerReadsPong, ServerReadsFragment, ServerReadsMessage
  <2>2. wire["server"] # <<>> /\ wire' = [wire EXCEPT !["server"] = Tail(@)] /\ SocketSteps
    BY <2>1 DEF Reads, SocketSteps, SocketKept
  <2>. QED  BY <2>2, ReadingTypes
<1>5. CASE S!WriteHandshake
  <2>1. Response(TRUE) \in Piece
    BY Pieces
  <2>2. <<Response(TRUE)>> \in Seq(Piece)
    BY <2>1, OneElement
  <2>. QED  BY <1>5, <2>2, ServerWritesHandshake, WritingTypes
<1>6. CASE S!WriteHeader \/ S!WriteContent
  <2>1. server.writing # "none"
    BY <1>6, ServerWritesHeader, ServerWritesContent
  <2>2. server.send_queue[1] \in AnyFrame
    <3>1. server.send_queue[1] \in ServerFrame
      BY <2>1 DEF ServerOK, ConnectionOK
    <3>. QED  BY <3>1, OwnFrames
  <2>3. /\ <<Header(server.send_queue[1])>> \in Seq(Piece)
        /\ <<Content(server.send_queue[1])>> \in Seq(Piece)
    BY <2>2, Pieces, OneElement
  <2>. QED  BY <1>6, <2>3, ServerWritesHeader, ServerWritesContent, WritingTypes
<1>. QED
  BY <1>1, <1>2, <1>3, <1>4, <1>5, <1>6
     DEF S!Next, S!Handlers, S!Handshake, S!Read, S!Writing

(* A field that a step changes has its type again, the others keep theirs. *)
LEMMA ServerFieldsTyped ==
  ASSUME ServerOK, NEW changed, Kept(server, server', changed),
         "service" \in changed => server'.service \in {"new", "running", "stopping", "stopped"},
         "phase" \in changed =>
           server'.phase \in {"none", "readHandshake", "writeHandshake", "opening",
                              "header", "length", "content", "done"},
         "frame" \in changed => server'.frame \in AnyFrame,
         "fragmented_message" \in changed => server'.fragmented_message \in Seq(Part),
         "posted" \in changed => server'.posted \in Seq(ServerFrame),
         "send_queue" \in changed => server'.send_queue \in Seq(ServerFrame),
         "writing" \in changed => server'.writing \in {"none", "posted", "header", "content"},
         {"send_queue", "writing"} \cap changed # {} =>
           (server'.writing = "none" <=> server'.send_queue = <<>>),
         "closed" \in changed => server'.closed \in BOOLEAN,
         "armed" \in changed => server'.armed \in BOOLEAN,
         "queued" \in changed => server'.queued \in BOOLEAN,
         "connection" \in changed => server'.connection \in BOOLEAN,
         "opened" \in changed => server'.opened \in Nat,
         "ended" \in changed => server'.ended \in Nat,
         "received" \in changed => server'.received \in Seq(Seq(Part)),
         "sent" \in changed => server'.sent \in Seq(Seq(Part))
  PROVE  ServerOK'
<1>1. /\ server'.frame \in AnyFrame /\ server'.fragmented_message \in Seq(Part)
      /\ server'.posted \in Seq(ServerFrame) /\ server'.send_queue \in Seq(ServerFrame)
  BY ServerKeeps DEF ServerOK, ConnectionOK
<1>2. /\ server'.closed \in BOOLEAN /\ server'.opened \in Nat /\ server'.ended \in Nat
      /\ server'.received \in Seq(Seq(Part)) /\ server'.sent \in Seq(Seq(Part))
  BY ServerKeeps DEF ServerOK, ConnectionOK
<1>3. server'.writing = "none" <=> server'.send_queue = <<>>
  BY ServerKeeps DEF ServerOK, ConnectionOK
<1>4. ConnectionOK(server', ServerFrame)
  BY <1>1, <1>2, <1>3 DEF ConnectionOK
<1>. QED  BY <1>4, ServerKeeps DEF ServerOK

LEMMA Appended ==
  ASSUME NEW T, NEW s \in Seq(T), NEW x \in T
  PROVE  Append(s, x) \in Seq(T) /\ Append(s, x) # <<>>
<1>1. Append(s, x) \in Seq(T)
  OBVIOUS
<1>2. Len(Append(s, x)) = Len(s) + 1 /\ Len(s) \in Nat
  OBVIOUS
<1>. QED  BY <1>1, <1>2

LEMMA JoinedSeq ==
  ASSUME NEW T, NEW s \in Seq(T), NEW t \in Seq(T)
  PROVE  /\ s \o t \in Seq(T)
         /\ <<>> \in Seq(T)
  OBVIOUS

LEMMA TwoElements ==
  ASSUME NEW T, NEW x \in T, NEW y \in T
  PROVE  <<x, y>> \in Seq(T)
  OBVIOUS

LEMMA FirstOf ==
  ASSUME NEW T, NEW s \in Seq(T), s # <<>>
  PROVE  /\ s[1] \in T /\ Tail(s) \in Seq(T)
         /\ Len(s) \in Nat \ {0} /\ Len(Tail(s)) = Len(s) - 1
         /\ Tail(s) = <<>> <=> ~(Len(s) > 1)
<1>1. s[1] \in T /\ Tail(s) \in Seq(T)
  OBVIOUS
<1>2. Len(s) \in Nat \ {0} /\ Len(Tail(s)) = Len(s) - 1
  OBVIOUS
<1>3. \A t \in Seq(T) : t = <<>> <=> Len(t) = 0
  OBVIOUS
<1>. QED  BY <1>1, <1>2, <1>3

LEMMA ServerTypes ==
  ASSUME TcpOK, ServerOK, S!Next, link' = link
  PROVE  ServerOK'
<1>1. CASE S!Start
  BY <1>1, ServerStarts, ServerFieldsTyped
<1>2. CASE S!Stop
  BY <1>2, ServerStops, ServerFieldsTyped
<1>18. CASE S!StopService
  BY <1>18, ServerStopsService, ServerFieldsTyped
<1>19. CASE S!Accept
  BY <1>19, ServerAccepts, ServerFieldsTyped
<1>20. CASE S!ReadHandshake
  BY <1>20, ServerReadsHandshake, ServerFieldsTyped
<1>21. CASE S!ReadHandshakeFails
  BY <1>21, ServerReadHandshakeFails, ServerFieldsTyped
<1>22. CASE S!WriteHandshake
  BY <1>22, ServerWritesHandshake, ServerFieldsTyped
<1>23. CASE S!ReadLength
  BY <1>23, ServerReadsLength, ServerFieldsTyped
<1>3. CASE S!AppSends
  <2>1. PICK m \in Seq(Part) :
          /\ server'.posted = Append(server.posted, Frame(TRUE, "text", FALSE, m))
          /\ server'.sent = Append(server.sent, m)
    BY <1>3, ServerSends
  <2>2. Frame(TRUE, "text", FALSE, m) \in ServerFrame
    BY OwnFrames
  <2>3. server'.posted \in Seq(ServerFrame) /\ server'.sent \in Seq(Seq(Part))
    BY <2>1, <2>2, Appended DEF ServerOK, ConnectionOK
  <2>. QED  BY <1>3, <2>3, ServerSends, ServerFieldsTyped
<1>4. CASE S!WriteHandshakeFails \/ S!ReadFails
  <2>1. server'.ended \in Nat
    <3>1. server.ended \in Nat
      BY DEF ServerOK, ConnectionOK
    <3>2. server'.ended = server.ended + 1
      BY <1>4, ServerErrs
    <3>. QED  BY <3>1, <3>2
  <2>. QED  BY <1>4, <2>1, ServerErrs, ServerFieldsTyped
<1>5. CASE S!Open
  <2>1. server'.opened \in Nat
    <3>1. server.opened \in Nat
      BY DEF ServerOK, ConnectionOK
    <3>. QED  BY <1>5, <3>1, ServerOpens
  <2>. QED  BY <1>5, <2>1, ServerOpens, ServerFieldsTyped
<1>6. CASE S!TimerExpires
  BY <1>6, ServerTimerExpires, ServerFieldsTyped
<1>24. CASE S!TimerCloses
  BY <1>24, ServerTimerCloses, ServerFieldsTyped
<1>7. ASSUME server' = S!ConnectionClose(S!SendClose(server))
      PROVE  ServerOK'
  <2>1. Frame(TRUE, "close", FALSE, <<>>) \in ServerFrame
    BY OwnFrames
  <2>2. server.posted \in Seq(ServerFrame) /\ server.ended \in Nat
    BY DEF ServerOK, ConnectionOK
  <2>3. server'.ended \in Nat
    BY <1>7, <2>2, ServerSendsClose
  <2>4. server'.posted \in Seq(ServerFrame)
    BY <1>7, <2>1, <2>2, ServerSendsClose, Appended
  <2>. QED  BY <1>7, <2>3, <2>4, ServerSendsClose, ServerFieldsTyped
<1>8. CASE S!ReadHeader
  <2>1. wire["server"] # <<>> /\ wire' = [wire EXCEPT !["server"] = Tail(@)] /\ SocketSteps
    BY <1>8, ServerReadsHeader DEF Reads, SocketSteps, SocketKept
  <2>2. wire["server"][1].frame \in AnyFrame
    BY <1>8, <2>1, ReadingTypes, ServerReadsHeader DEF Reads, End
  <2>. QED  BY <1>7, <1>8, <2>2, ServerReadsHeader, ServerFieldsTyped
<1>9. CASE S!ReadClose
  BY <1>7, <1>9, ServerReadsClose
<1>10. CASE S!ReadPing
  <2>1. Frame(TRUE, "pong", FALSE, <<>>) \in ServerFrame
    BY OwnFrames
  <2>2. server'.posted \in Seq(ServerFrame)
    BY <1>10, <2>1, ServerReadsPing, Appended DEF ServerOK, ConnectionOK
  <2>. QED  BY <1>10, <2>2, ServerReadsPing, ServerFieldsTyped
<1>11. CASE S!ReadPong
  BY <1>11, ServerReadsPong, ServerFieldsTyped
<1>12. CASE S!ReadFragment \/ S!ReadMessage
  <2>1. server.frame.payload \in Seq(Part) /\ server.fragmented_message \in Seq(Part)
    BY DEF AnyFrame, ServerOK, ConnectionOK
  <2>2. server.fragmented_message \o server.frame.payload \in Seq(Part) /\ <<>> \in Seq(Part)
    BY <2>1
  <2>3. server'.fragmented_message \in Seq(Part)
    BY <1>12, <2>2, ServerReadsFragment, ServerReadsMessage
  <2>4. CASE S!ReadFragment
    BY <2>3, <2>4, ServerReadsFragment, ServerFieldsTyped
  <2>5. CASE S!ReadMessage
    <3>1. server'.received \in Seq(Seq(Part))
      BY <2>1, <2>2, <2>5, ServerReadsMessage, Appended DEF ServerOK, ConnectionOK
    <3>. QED  BY <2>3, <2>5, <3>1, ServerReadsMessage, ServerFieldsTyped
  <2>. QED  BY <1>12, <2>4, <2>5
<1>13. CASE S!RunSend
  <2>1. server.posted \in Seq(ServerFrame) /\ server.send_queue \in Seq(ServerFrame)
    BY DEF ServerOK, ConnectionOK
  <2>2. server.posted # <<>>
    BY <1>13, ServerRunsSend
  <2>3. server.posted[1] \in ServerFrame /\ Tail(server.posted) \in Seq(ServerFrame)
    BY <2>1, <2>2, FirstOf
  <2>4. /\ server'.posted \in Seq(ServerFrame)
        /\ server'.send_queue \in Seq(ServerFrame) /\ server'.send_queue # <<>>
    BY <1>13, <2>1, <2>3, ServerRunsSend, Appended
  <2>5. server'.writing \in {"posted", "header", "content"}
    BY <1>13, ServerRunsSend DEF ServerOK, ConnectionOK
  <2>. QED  BY <1>13, <2>4, <2>5, ServerRunsSend, ServerFieldsTyped
<1>14. CASE S!WriteHeader \/ S!WriteContent
  <2>1. server'.send_queue # <<>>
    BY <1>14, ServerWritesHeader, ServerWritesContent, ServerKeeps DEF ServerOK, ConnectionOK
  <2>. QED  BY <1>14, <2>1, ServerWritesHeader, ServerWritesContent, ServerFieldsTyped
<1>15. CASE S!FinishWrite
  <2>1. server.send_queue # <<>>
    BY <1>15, ServerFinishesWrite DEF ServerOK, ConnectionOK
  <2>2. server.send_queue \in Seq(ServerFrame)
    BY DEF ServerOK, ConnectionOK
  <2>3. /\ Tail(server.send_queue) \in Seq(ServerFrame)
        /\ Tail(server.send_queue) = <<>> <=> ~(Len(server.send_queue) > 1)
    BY <2>1, <2>2, FirstOf
  <2>. QED  BY <1>15, <2>3, ServerFinishesWrite, ServerFieldsTyped
<1>16. CASE S!WriteFails
  <2>1. <<>> \in Seq(ServerFrame)
    OBVIOUS
  <2>. QED  BY <2>1, <1>16, ServerWriteFails, ServerFieldsTyped
<1>17. CASE S!Exit \/ S!Release
  BY <1>17, ServerExits, ServerReleases DEF ServerOK
<1>. QED
  BY <1>1, <1>2, <1>3, <1>4, <1>5, <1>6, <1>8, <1>9, <1>10, <1>11, <1>12, <1>13, <1>14,
     <1>15, <1>16, <1>17, <1>18, <1>19, <1>20, <1>21, <1>22, <1>23, <1>24
  DEF S!Next, S!Handlers, S!Handshake, S!Read, S!Writing

LEMMA ClientFieldsTyped ==
  ASSUME ClientOK, NEW changed, Kept(client, client', changed),
         "service" \in changed => client'.service \in {"new", "running", "stopped"},
         "phase" \in changed =>
           client'.phase \in {"none", "resolve", "connect", "writeHandshake", "readHandshake",
                              "header", "length", "content", "done"},
         "frame" \in changed => client'.frame \in AnyFrame,
         "fragmented_message" \in changed => client'.fragmented_message \in Seq(Part),
         "posted" \in changed => client'.posted \in Seq(ClientFrame),
         "send_queue" \in changed => client'.send_queue \in Seq(ClientFrame),
         "writing" \in changed => client'.writing \in {"none", "posted", "frame"},
         {"send_queue", "writing"} \cap changed # {} =>
           (client'.writing = "none" <=> client'.send_queue = <<>>),
         "closed" \in changed => client'.closed \in BOOLEAN,
         "opened" \in changed => client'.opened \in Nat,
         "ended" \in changed => client'.ended \in Nat,
         "received" \in changed => client'.received \in Seq(Seq(Part)),
         "sent" \in changed => client'.sent \in Seq(Seq(Part))
  PROVE  ClientOK'
<1>1. /\ client'.frame \in AnyFrame /\ client'.fragmented_message \in Seq(Part)
      /\ client'.posted \in Seq(ClientFrame) /\ client'.send_queue \in Seq(ClientFrame)
  BY ClientKeeps DEF ClientOK, ConnectionOK
<1>2. /\ client'.closed \in BOOLEAN /\ client'.opened \in Nat /\ client'.ended \in Nat
      /\ client'.received \in Seq(Seq(Part)) /\ client'.sent \in Seq(Seq(Part))
  BY ClientKeeps DEF ClientOK, ConnectionOK
<1>3. client'.writing = "none" <=> client'.send_queue = <<>>
  BY ClientKeeps DEF ClientOK, ConnectionOK
<1>4. ConnectionOK(client', ClientFrame)
  BY <1>1, <1>2, <1>3 DEF ConnectionOK
<1>. QED  BY <1>4, ClientKeeps DEF ClientOK

LEMMA ClientTcpTypes ==
  ASSUME TcpOK, ClientOK, C!Next, link' = link
  PROVE  TcpOK'
<1>. USE DEF End
<1>1. CASE C!Start \/ C!Stop \/ C!AppSends \/ C!Resolve \/ C!Connect
  <2>1. WireKept /\ SocketSteps
    BY <1>1, ClientStarts, ClientStops, ClientSends, ClientResolves, ClientConnects
       DEF SocketSteps, Closes
  <2>. QED  BY <2>1, WireKeptTypes
<1>2. CASE C!ConnectFails \/ C!Fails \/ C!ReadLength \/ C!RunSend \/ C!FinishWrite \/ C!WriteFails
  <2>1. WireKept /\ SocketSteps
    BY <1>2, ClientErrs, ClientReadsLength, ClientRunsSend, ClientFinishesWrite, ClientWriteFails
       DEF SocketSteps, Closes
  <2>. QED  BY <2>1, WireKeptTypes
<1>3. CASE C!WriteHandshake
  <2>1. Request(TRUE) \in Piece
    BY Pieces
  <2>2. Append(wire["server"], Request(TRUE)) \in Seq(Piece)
    BY <2>1, Appended DEF TcpOK
  <2>. QED  BY <1>3, <2>2, ClientWritesHandshake DEF TcpOK, SocketKept
<1>4. CASE \/ C!ReadHandshake \/ C!ReadHeader \/ C!ReadClose \/ C!ReadPing \/ C!ReadPong
           \/ C!ReadFragment \/ C!ReadMessage
  <2>1. wire["client"] # <<>> /\ wire' = [wire EXCEPT !["client"] = Tail(@)] /\ SocketSteps
    <3>1. CASE C!ReadHandshake
      BY <3>1, ClientReadsHandshake DEF SocketSteps, Closes
    <3>2. CASE C!ReadHeader \/ C!ReadClose
      BY <3>2, ClientReadsHeader, ClientReadsClose DEF ClientCloses, SocketSteps, Closes
    <3>3. CASE C!ReadPing \/ C!ReadPong \/ C!ReadFragment \/ C!ReadMessage
      <4>1. Reads("client", "content")
        BY <3>3, ClientReadsPing, ClientReadsPong, ClientReadsFragment, ClientReadsMessage
      <4>. QED  BY <4>1 DEF Reads, SocketSteps, SocketKept
    <3>. QED  BY <1>4, <3>1, <3>2, <3>3
  <2>. QED  BY <2>1, ReadingTypes
<1>5. CASE C!WriteFrame
  <2>1. client.send_queue[1] \in AnyFrame
    <3>1. client.send_queue # <<>>
      BY <1>5, ClientWritesFrame DEF ClientOK, ConnectionOK
    <3>2. client.send_queue[1] \in ClientFrame
      BY <3>1 DEF ClientOK, ConnectionOK
    <3>. QED  BY <3>2, OwnFrames
  <2>2. <<Header(client.send_queue[1]), Content(client.send_queue[1])>> \in Seq(Piece)
    <3>1. Header(client.send_queue[1]) \in Piece /\ Content(client.send_queue[1]) \in Piece
      BY <2>1, Pieces
    <3>. QED  BY <3>1
  <2>. QED  BY <1>5, <2>2, ClientWritesFrame, WritingTypes
<1>. QED
  BY <1>1, <1>2, <1>3, <1>4, <1>5
     DEF C!Next, C!Handlers, C!Handshake, C!Read, C!Writing

LEMMA ClientEndTypes ==
  ASSUME ClientOK,
         Kept(client, client', {"service", "phase", "posted", "closed", "ended"}),
         client'.service = "stopped", client'.phase = "done",
         client'.ended = client.ended + 1, client'.closed \in BOOLEAN,
         client'.posted \in {client.posted, Append(client.posted, Frame(TRUE, "close", TRUE, <<>>))}
  PROVE  ClientOK'
<1>1. client.posted \in Seq(ClientFrame) /\ client.ended \in Nat
  BY DEF ClientOK, ConnectionOK
<1>2. Frame(TRUE, "close", TRUE, <<>>) \in ClientFrame
  BY OwnFrames
<1>3. client'.posted \in Seq(ClientFrame)
  BY <1>1, <1>2, Appended
<1>4. client'.ended \in Nat
  BY <1>1
<1>. QED  BY <1>3, <1>4, ClientFieldsTyped

LEMMA ClientTypes ==
  ASSUME TcpOK, ClientOK, C!Next, link' = link
  PROVE  ClientOK'
<1>1. CASE C!Start
  BY <1>1, ClientStarts, ClientFieldsTyped
<1>2. CASE C!Stop
  BY <1>2, ClientStops, ClientFieldsTyped
<1>3. CASE C!AppSends
  <2>1. PICK m \in Seq(Part) :
          /\ client'.posted = Append(client.posted, Frame(TRUE, "text", TRUE, m))
          /\ client'.sent = Append(client.sent, m)
    BY <1>3, ClientSends
  <2>2. Frame(TRUE, "text", TRUE, m) \in ClientFrame
    BY OwnFrames
  <2>3. client'.posted \in Seq(ClientFrame) /\ client'.sent \in Seq(Seq(Part))
    BY <2>1, <2>2, Appended DEF ClientOK, ConnectionOK
  <2>. QED  BY <1>3, <2>3, ClientSends, ClientFieldsTyped
<1>4. CASE C!Resolve
  BY <1>4, ClientResolves, ClientFieldsTyped
<1>5. CASE C!Connect
  BY <1>5, ClientConnects, ClientFieldsTyped
<1>6. CASE C!ConnectFails \/ C!Fails
  <2>1. client.closed \in BOOLEAN
    BY DEF ClientOK, ConnectionOK
  <2>. QED  BY <1>6, <2>1, ClientErrs, ClientEndTypes
<1>7. CASE C!WriteHandshake
  BY <1>7, ClientWritesHandshake, ClientFieldsTyped
<1>8. CASE C!ReadHandshake
  <2>1. client.closed \in BOOLEAN /\ client.opened \in Nat
    BY DEF ClientOK, ConnectionOK
  <2>2. client.opened + 1 \in Nat
    BY <2>1
  <2>3. CASE /\ Kept(client, client', {"phase", "opened"})
             /\ client'.phase = "header" /\ client'.opened = client.opened + 1
    BY <2>2, <2>3, ClientFieldsTyped
  <2>. QED  BY <1>8, <2>1, <2>3, ClientReadsHandshake, ClientEndTypes
<1>9. CASE C!ReadHeader
  <2>1. wire["client"][1].frame \in AnyFrame
    <3>1. /\ wire["client"] # <<>> /\ wire["client"][1].piece = "header"
      BY <1>9, ClientReadsHeader
    <3>2. wire["client"][1] \in Piece
      BY <3>1 DEF TcpOK, End
    <3>. QED  BY <3>1, <3>2 DEF Piece
  <2>2. CASE ClientCloses
    BY <2>2, ClientEndTypes DEF ClientCloses
  <2>. QED  BY <1>9, <2>1, <2>2, ClientReadsHeader, ClientFieldsTyped
<1>10. CASE C!ReadLength
  BY <1>10, ClientReadsLength, ClientFieldsTyped
<1>11. CASE C!ReadClose
  BY <1>11, ClientReadsClose, ClientEndTypes DEF ClientCloses
<1>12. CASE C!ReadPing
  <2>1. Frame(TRUE, "pong", TRUE, <<>>) \in ClientFrame
    BY OwnFrames
  <2>2. client'.posted \in Seq(ClientFrame)
    BY <1>12, <2>1, ClientReadsPing, Appended DEF ClientOK, ConnectionOK
  <2>. QED  BY <1>12, <2>2, ClientReadsPing, ClientFieldsTyped
<1>13. CASE C!ReadPong
  BY <1>13, ClientReadsPong, ClientFieldsTyped
<1>14. CASE C!ReadFragment \/ C!ReadMessage
  <2>1. client.frame.payload \in Seq(Part) /\ client.fragmented_message \in Seq(Part)
    BY DEF AnyFrame, ClientOK, ConnectionOK
  <2>2. client.fragmented_message \o client.frame.payload \in Seq(Part) /\ <<>> \in Seq(Part)
    BY <2>1
  <2>3. client'.fragmented_message \in Seq(Part)
    BY <1>14, <2>2, ClientReadsFragment, ClientReadsMessage
  <2>4. CASE C!ReadFragment
    BY <2>3, <2>4, ClientReadsFragment, ClientFieldsTyped
  <2>5. CASE C!ReadMessage
    <3>1. client'.received \in Seq(Seq(Part))
      BY <2>2, <2>5, ClientReadsMessage, Appended DEF ClientOK, ConnectionOK
    <3>. QED  BY <2>3, <2>5, <3>1, ClientReadsMessage, ClientFieldsTyped
  <2>. QED  BY <1>14, <2>4, <2>5
<1>15. CASE C!RunSend
  <2>1. client.posted \in Seq(ClientFrame) /\ client.send_queue \in Seq(ClientFrame)
    BY DEF ClientOK, ConnectionOK
  <2>2. client.posted # <<>>
    BY <1>15, ClientRunsSend
  <2>3. client.posted[1] \in ClientFrame /\ Tail(client.posted) \in Seq(ClientFrame)
    BY <2>1, <2>2, FirstOf
  <2>4. /\ client'.posted \in Seq(ClientFrame)
        /\ client'.send_queue \in Seq(ClientFrame) /\ client'.send_queue # <<>>
    BY <1>15, <2>1, <2>3, ClientRunsSend, Appended
  <2>5. client'.writing \in {"posted", "frame"}
    BY <1>15, ClientRunsSend DEF ClientOK, ConnectionOK
  <2>. QED  BY <1>15, <2>4, <2>5, ClientRunsSend, ClientFieldsTyped
<1>16. CASE C!WriteFrame
  <2>1. client'.send_queue # <<>>
    BY <1>16, ClientWritesFrame, ClientKeeps DEF ClientOK, ConnectionOK
  <2>. QED  BY <1>16, <2>1, ClientWritesFrame, ClientFieldsTyped
<1>17. CASE C!FinishWrite
  <2>1. client.send_queue # <<>>
    BY <1>17, ClientFinishesWrite DEF ClientOK, ConnectionOK
  <2>2. client.send_queue \in Seq(ClientFrame)
    BY DEF ClientOK, ConnectionOK
  <2>3. /\ Tail(client.send_queue) \in Seq(ClientFrame)
        /\ Tail(client.send_queue) = <<>> <=> ~(Len(client.send_queue) > 1)
    BY <2>1, <2>2, FirstOf
  <2>. QED  BY <1>17, <2>3, ClientFinishesWrite, ClientFieldsTyped
<1>18. CASE C!WriteFails
  <2>1. <<>> \in Seq(ClientFrame)
    OBVIOUS
  <2>. QED  BY <1>18, <2>1, ClientWriteFails, ClientFieldsTyped
<1>. QED
  BY <1>1, <1>2, <1>3, <1>4, <1>5, <1>6, <1>7, <1>8, <1>9, <1>10, <1>11, <1>12, <1>13, <1>14,
     <1>15, <1>16, <1>17, <1>18
  DEF C!Next, C!Handlers, C!Handshake, C!Read, C!Writing

-----------------------------------------------------------------------------
(* What the foreign end does, field by field.                              *)
LEMMA ForeignKeeps ==
  ASSUME ForeignOK, NEW changed, Kept(foreign, foreign', changed)
  PROVE  /\ DOMAIN foreign' = DOMAIN foreign
         /\ "may" \in changed \/ foreign'.may = foreign.may
         /\ "parts" \in changed \/ foreign'.parts = foreign.parts
         /\ "cut" \in changed \/ foreign'.cut = foreign.cut
         /\ "used" \in changed \/ foreign'.used = foreign.used
         /\ "controls" \in changed \/ foreign'.controls = foreign.controls
         /\ "over" \in changed \/ foreign'.over = foreign.over
         /\ "sent" \in changed \/ foreign'.sent = foreign.sent
  BY DEF ForeignOK, Kept

(* Steps that leave the wire alone.                                        *)
ForeignSilent == ForeignListens \/ ForeignAccepts \/ ForeignConnects \/ ForeignCloses

LEMMA ForeignIsSilent ==
  ASSUME ForeignSilent
  PROVE  /\ WireKept /\ foreign' = foreign
         /\ \/ SocketKept /\ socket["server"] = "none"
            \/ /\ socket["server"] = "none" /\ socket["client"] # "none"
               /\ socket' = [socket EXCEPT !["server"] = "open"]
            \/ /\ socket["client"] = "none"
               /\ socket' = [socket EXCEPT !["client"] = "open"]
            \/ socket[Other] = "open" /\ Closes(Other)
  BY DEF ForeignSilent, ForeignListens, ForeignAccepts, ForeignConnects, ForeignCloses, WireKept,
         SocketKept, Closes, Closed

LEMMA ForeignRequestsOnce ==
  ASSUME ForeignOK, ForeignRequests
  PROVE  /\ socket["client"] = "open" /\ foreign.used = 0 /\ ~foreign.may
         /\ \E request \in {Request(TRUE), Request(FALSE)} :
              wire' = [wire EXCEPT !["server"] = Append(@, request)]
         /\ Kept(foreign, foreign', {"used"}) /\ foreign'.used = 1
         /\ SocketKept
<1>1. \E request \in {Request(TRUE), Request(FALSE)} :
        wire' = [wire EXCEPT !["server"] = Append(@, request)]
  BY DEF ForeignRequests
<1>. QED  BY <1>1 DEF ForeignRequests, ForeignOK, Kept, SocketKept

(* What it takes is all there is, or one piece, to which it responds.      *)
LEMMA ForeignTakesAll ==
  ASSUME ForeignOK, ForeignTakes
  PROVE  /\ socket[Other] = "open" /\ wire[Other] # <<>>
         /\ Kept(foreign, foreign', {"may"}) /\ foreign'.may \in BOOLEAN
         /\ foreign.may => foreign'.may
         /\ foreign'.may /\ ~foreign.may =>
              \E i \in DOMAIN wire[Other] : wire[Other][i].piece \in {"response", "content"}
         /\ \/ wire' = [wire EXCEPT ![Other] = <<>>]
            \/ /\ \E i \in DOMAIN wire[Other] : wire[Other][i].piece = "request"
               /\ \E response \in {Response(TRUE), Response(FALSE)} :
                    wire' = [Written(Other, <<response>>) EXCEPT ![Other] = Tail(@)]
         /\ SocketKept
<1>. DEFINE pieces == {piece.piece : piece \in ToSet(wire[Other])}
<1>1. foreign' = [foreign EXCEPT !.may = @ \/ pieces \cap {"response", "content"} # {}]
  BY DEF ForeignTakes
<1>2. /\ Kept(foreign, foreign', {"may"})
      /\ foreign'.may = (foreign.may \/ pieces \cap {"response", "content"} # {})
  BY <1>1 DEF ForeignOK, Kept
<1>3. \A kind \in pieces : \E i \in DOMAIN wire[Other] : wire[Other][i].piece = kind
  BY DEF ToSet
<1>4. CASE "request" \in pieces
  <2>1. \E response \in {Response(TRUE), Response(FALSE)} :
          wire' = [Written(Other, <<response>>) EXCEPT ![Other] = Tail(@)]
    BY <1>4 DEF ForeignTakes
  <2>. QED  BY <1>2, <1>3, <1>4, <2>1 DEF ForeignTakes, SocketKept, ForeignOK
<1>5. CASE "request" \notin pieces
  <2>1. wire' = [wire EXCEPT ![Other] = <<>>]
    BY <1>5 DEF ForeignTakes
  <2>. QED  BY <1>2, <1>3, <2>1 DEF ForeignTakes, SocketKept, ForeignOK
<1>. QED  BY <1>4, <1>5

LEMMA ForeignWrites ==
  ASSUME NEW f, ForeignSends(f)
  PROVE  /\ foreign.may /\ ~foreign.over
         /\ Writes(Other, <<Header(f), Content(f)>>)
  BY DEF ForeignSends, Writes, Written

LEMMA ForeignData ==
  ASSUME ForeignOK, Used \in Nat, ForeignSendsData
  PROVE  /\ foreign.may /\ ~foreign.over
         /\ Kept(foreign, foreign', {"parts", "cut", "used", "over", "sent"})
         /\ foreign'.used = foreign.used + 1
         /\ \E f \in AnyFrame :
              /\ f.opcode = IF foreign.cut THEN "continuation" ELSE "text"
              /\ foreign'.cut = ~f.fin
              /\ foreign'.over = (f.masked # MayMask)
              /\ foreign'.parts = IF f.fin THEN <<>> ELSE foreign.parts \o f.payload
              /\ foreign'.sent = IF f.fin /\ f.masked = MayMask
                                 THEN Append(foreign.sent, foreign.parts \o f.payload)
                                 ELSE foreign.sent
              /\ Writes(Other, <<Header(f), Content(f)>>)
<1>. DEFINE payload == <<Parts[Used + 1]>>
            opcode == IF foreign.cut THEN "continuation" ELSE "text"
<1>1. payload \in Seq(Part)
  <2>1. Used + 1 \in 1..Len(Parts)
    BY DEF ForeignSendsData
  <2>2. Parts[Used + 1] \in Part
    BY <2>1, PartsAssumption
  <2>. QED  BY <2>2
<1>2. PICK fin \in BOOLEAN, masked \in BOOLEAN :
        /\ ForeignSends(Frame(fin, opcode, masked, payload))
        /\ foreign' = [foreign EXCEPT
             !.used = @ + 1, !.cut = ~fin, !.over = (masked # MayMask),
             !.parts = IF fin THEN <<>> ELSE @ \o payload,
             !.sent = IF fin /\ masked = MayMask THEN Append(@, foreign.parts \o payload) ELSE @]
  BY DEF ForeignSendsData
<1>. DEFINE f == Frame(fin, opcode, masked, payload)
<1>3. f \in AnyFrame
  BY <1>1 DEF AnyFrame, Frame
<1>4. f.fin = fin /\ f.opcode = opcode /\ f.masked = masked /\ f.payload = payload
  BY DEF Frame
<1>5. foreign.may /\ ~foreign.over /\ Writes(Other, <<Header(f), Content(f)>>)
  BY <1>2, ForeignWrites
<1>6. /\ Kept(foreign, foreign', {"parts", "cut", "used", "over", "sent"})
      /\ foreign'.used = foreign.used + 1
      /\ foreign'.cut = ~fin
      /\ foreign'.over = (masked # MayMask)
      /\ foreign'.parts = IF fin THEN <<>> ELSE foreign.parts \o payload
      /\ foreign'.sent = IF fin /\ masked = MayMask
                         THEN Append(foreign.sent, foreign.parts \o payload)
                         ELSE foreign.sent
  BY <1>2 DEF ForeignOK, Kept
<1>. HIDE DEF f, payload, opcode
<1>7. /\ f.opcode = opcode
      /\ foreign'.cut = ~f.fin
      /\ foreign'.over = (f.masked # MayMask)
      /\ foreign'.parts = IF f.fin THEN <<>> ELSE foreign.parts \o f.payload
      /\ foreign'.sent = IF f.fin /\ f.masked = MayMask
                         THEN Append(foreign.sent, foreign.parts \o f.payload)
                         ELSE foreign.sent
  BY <1>4, <1>6
<1>. QED  BY <1>3, <1>5, <1>6, <1>7 DEF opcode

LEMMA ForeignControl ==
  ASSUME ForeignOK, ForeignSendsControl
  PROVE  /\ foreign.may /\ ~foreign.over
         /\ Kept(foreign, foreign', {"controls", "over"})
         /\ foreign'.controls = foreign.controls + 1
         /\ foreign'.over \in BOOLEAN
         /\ \E f \in AnyFrame :
              /\ f.opcode \in {"ping", "pong", "close"}
              /\ f.masked = MayMask
              /\ Writes(Other, <<Header(f), Content(f)>>)
<1>1. PICK opcode \in {"ping", "pong", "close"} :
        /\ ForeignSends(Frame(TRUE, opcode, MayMask, <<>>))
        /\ foreign' = [foreign EXCEPT !.controls = @ + 1, !.over = (opcode = "close")]
  BY DEF ForeignSendsControl
<1>. DEFINE f == Frame(TRUE, opcode, MayMask, <<>>)
<1>2. f \in AnyFrame /\ f.opcode = opcode /\ f.masked = MayMask
  <2>1. MayMask \in BOOLEAN /\ <<>> \in Seq(Part)
    BY DEF MayMask
  <2>. QED  BY <2>1 DEF AnyFrame, Frame
<1>3. foreign.may /\ ~foreign.over /\ Writes(Other, <<Header(f), Content(f)>>)
  BY <1>1, ForeignWrites
<1>4. /\ Kept(foreign, foreign', {"controls", "over"})
      /\ foreign'.controls = foreign.controls + 1 /\ foreign'.over \in BOOLEAN
  BY <1>1 DEF ForeignOK, Kept
<1>. HIDE DEF f
<1>. QED  BY <1>2, <1>3, <1>4

(* A foreign client has made a request before it sends a frame.            *)
Asked == link = "client" /\ foreign.may = TRUE => foreign.used # 0

(* The frames of data that it has sent are counted from its first.         *)
LEMMA ForeignCounts ==
  ASSUME TcpOK, ForeignOK, Asked, ForeignSendsData, link # "simple"
  PROVE  Used \in Nat
<1>1. foreign.used \in Nat /\ (link = "client" => foreign.used # 0)
  <2>1. foreign.may
    BY DEF ForeignSendsData, ForeignSends
  <2>2. foreign.used \in Nat /\ foreign.may = TRUE
    BY <2>1 DEF ForeignOK
  <2>. QED  BY <2>2 DEF Asked
<1>2. link \in {"client", "server"}
  BY DEF TcpOK, Link
<1>3. CASE link = "client"
  <2>1. Used = foreign.used - 1
    BY <1>3 DEF Used, Other
  <2>2. foreign.used \in Nat /\ foreign.used # 0
    BY <1>1, <1>3
  <2>3. foreign.used - 1 \in Nat
    BY <2>2
  <2>. QED  BY <2>1, <2>3
<1>4. CASE link = "server"
  <2>1. Used = foreign.used - 0
    BY <1>4 DEF Used, Other
  <2>3. foreign.used \in Nat
    BY <1>1
  <2>2. foreign.used - 0 \in Nat
    BY <2>3
  <2>. QED  BY <2>1, <2>2
<1>. QED  BY <1>2, <1>3, <1>4

LEMMA ForeignTypes ==
  ASSUME TcpOK, ForeignOK, Asked, Foreign
  PROVE  TcpOK' /\ ForeignOK'
<1>1. link' = link /\ Other \in End
  BY DEF Foreign, Other, End
<1>2. CASE ForeignSilent
  <2>1. SocketSteps
    BY <1>1, <1>2, ForeignIsSilent DEF SocketSteps, Closes, End
  <2>. QED  BY <1>1, <1>2, <2>1, ForeignIsSilent, WireKeptTypes DEF ForeignOK
<1>3. CASE ForeignRequests
  <2>1. Request(TRUE) \in Piece /\ Request(FALSE) \in Piece
    BY Pieces
  <2>5. wire["server"] \in Seq(Piece)
    BY DEF TcpOK, End
  <2>6. /\ Append(wire["server"], Request(TRUE)) \in Seq(Piece)
        /\ Append(wire["server"], Request(FALSE)) \in Seq(Piece)
    BY <2>1, <2>5, Appended
  <2>7. PICK request \in {Request(TRUE), Request(FALSE)} :
          wire' = [wire EXCEPT !["server"] = Append(@, request)]
    BY <1>3, ForeignRequestsOnce
  <2>2. wire' \in [End -> Seq(Piece)]
    BY <2>6, <2>7 DEF TcpOK
  <2>3. TcpOK'
    BY <1>1, <1>3, <2>2, ForeignRequestsOnce DEF TcpOK, SocketKept
  <2>8. Kept(foreign, foreign', {"used"}) /\ foreign'.used = 1
    BY <1>3, ForeignRequestsOnce
  <2>4. ForeignOK'
    BY <2>8, ForeignKeeps DEF ForeignOK
  <2>. QED  BY <2>3, <2>4
<1>4. CASE ForeignTakes
  <2>1. Response(TRUE) \in Piece /\ Response(FALSE) \in Piece
    BY Pieces
  <2>2. wire[Other] \in Seq(Piece) /\ wire[Other] # <<>>
    BY <1>1, <1>4, ForeignTakesAll DEF TcpOK
  <2>3. Tail(wire[Other]) \in Seq(Piece) /\ <<>> \in Seq(Piece)
    BY <2>2, FirstOf, JoinedSeq
  <2>4. \A response \in Piece : Written(Other, <<response>>) \in [End -> Seq(Piece)]
    <3>1. Peer(Other) \in End
      BY DEF Peer, End
    <3>2. \A response \in Piece : wire[Peer(Other)] \o <<response>> \in Seq(Piece)
      <4>1. wire[Peer(Other)] \in Seq(Piece)
        BY <3>1 DEF TcpOK
      <4>. QED  BY <4>1, JoinedSeq, OneElement
    <3>. QED  BY <3>1, <3>2 DEF Written, TcpOK
  <2>5. wire' \in [End -> Seq(Piece)]
    <3>1. CASE wire' = [wire EXCEPT ![Other] = <<>>]
      BY <1>1, <2>3, <3>1 DEF TcpOK
    <3>2. ASSUME NEW response \in Piece,
                 wire' = [Written(Other, <<response>>) EXCEPT ![Other] = Tail(@)]
          PROVE  wire' \in [End -> Seq(Piece)]
      <4>1. Written(Other, <<response>>)[Other] = wire[Other]
        BY <1>1 DEF Written, TcpOK, Peer, End
      <4>. QED  BY <1>1, <2>3, <2>4, <3>2, <4>1
    <3>. QED  BY <1>4, <2>1, <3>1, <3>2, ForeignTakesAll
  <2>6. TcpOK'
    BY <1>1, <1>4, <2>5, ForeignTakesAll DEF TcpOK, SocketKept
  <2>8. Kept(foreign, foreign', {"may"}) /\ foreign'.may \in BOOLEAN
    BY <1>4, ForeignTakesAll
  <2>7. ForeignOK'
    BY <2>8, ForeignKeeps DEF ForeignOK
  <2>. QED  BY <2>6, <2>7
<1>5. ASSUME NEW f \in AnyFrame, Writes(Other, <<Header(f), Content(f)>>)
      PROVE  TcpOK'
  <2>1. Header(f) \in Piece /\ Content(f) \in Piece
    BY Pieces
  <2>2. <<Header(f), Content(f)>> \in Seq(Piece)
    BY <2>1, TwoElements
  <2>. QED  BY <1>1, <1>5, <2>2, WritingTypes
<1>6. CASE ForeignSendsData
  <2>1. Used \in Nat
    BY <1>6, ForeignCounts DEF Foreign
  <2>2. PICK f \in AnyFrame :
          /\ foreign'.cut = ~f.fin
          /\ foreign'.over = (f.masked # MayMask)
          /\ foreign'.parts = IF f.fin THEN <<>> ELSE foreign.parts \o f.payload
          /\ foreign'.sent = IF f.fin /\ f.masked = MayMask
                             THEN Append(foreign.sent, foreign.parts \o f.payload)
                             ELSE foreign.sent
          /\ Writes(Other, <<Header(f), Content(f)>>)
    BY <1>6, <2>1, ForeignData
  <2>9. foreign.parts \in Seq(Part) /\ f.payload \in Seq(Part) /\ f.fin \in BOOLEAN
    BY DEF ForeignOK, AnyFrame
  <2>3. foreign.parts \o f.payload \in Seq(Part) /\ <<>> \in Seq(Part) /\ f.fin \in BOOLEAN
    BY <2>9, JoinedSeq
  <2>4. foreign'.parts \in Seq(Part) /\ foreign'.cut \in BOOLEAN /\ foreign'.over \in BOOLEAN
    BY <2>2, <2>3
  <2>5. foreign'.sent \in Seq(Seq(Part))
    BY <2>2, <2>3, Appended DEF ForeignOK
  <2>6. foreign'.used = foreign.used + 1
    BY <1>6, <2>1, ForeignData
  <2>7. Kept(foreign, foreign', {"parts", "cut", "used", "over", "sent"})
    BY <1>6, <2>1, ForeignData
  <2>10. foreign'.used \in Nat
    BY <2>6 DEF ForeignOK
  <2>11. /\ DOMAIN foreign' = DOMAIN foreign /\ foreign'.may = foreign.may
         /\ foreign'.controls = foreign.controls
    BY <2>7, ForeignKeeps
  <2>8. ForeignOK'
    BY <2>4, <2>5, <2>10, <2>11 DEF ForeignOK
  <2>. QED  BY <1>5, <2>2, <2>8
<1>7. CASE ForeignSendsControl
  <2>1. TcpOK'
    BY <1>5, <1>7, ForeignControl
  <2>2. /\ Kept(foreign, foreign', {"controls", "over"})
        /\ foreign'.controls = foreign.controls + 1 /\ foreign'.over \in BOOLEAN
    BY <1>7, ForeignControl
  <2>3. foreign.controls + 1 \in Nat
    BY DEF ForeignOK
  <2>4. ForeignOK'
    BY <2>2, <2>3, ForeignKeeps DEF ForeignOK
  <2>. QED  BY <2>1, <2>4
<1>. QED  BY <1>2, <1>3, <1>4, <1>6, <1>7 DEF Foreign, ForeignSilent

-----------------------------------------------------------------------------
(***************************************************************************)
(* Which phase an end is in, and what cannot have happened before it.      *)
(***************************************************************************)
Severed == \E e \in End : socket[e] \in {"closed", "broken"}

ServerQuiet ==
  server.received = <<>> /\ server.posted = <<>> /\ server.writing = "none"
ClientQuiet ==
  /\ client.received = <<>> /\ client.posted = <<>> /\ client.writing = "none"
  /\ client.sent = <<>>

Connected == socket["server"] # "none" /\ socket["client"] # "none"

ServerLife ==
  /\ link = "server" => S!Init
  /\ link # "server" =>
       /\ server.phase = "none" =>
            /\ server.armed = FALSE /\ server.queued = FALSE /\ server.connection = FALSE
            /\ server.service # "stopped" => socket["server"] = "none"
       /\ server.phase # "none" => Connected
       /\ server.phase \in {"none", "readHandshake", "writeHandshake"} => wire["client"] = <<>>
       /\ server.phase \in {"none", "readHandshake", "writeHandshake", "opening"} => ServerQuiet
       /\ server.ended # 0 => server.phase = "done"

ClientLife ==
  /\ link = "client" => C!Init
  /\ link # "client" =>
       /\ client.service = "new" => client.phase = "none"
       /\ client.phase \in {"none", "resolve", "connect"} /\ client.service # "stopped" =>
            socket["client"] = "none"
       /\ client.phase \in {"writeHandshake", "readHandshake", "header", "length", "content"} =>
            socket["client"] # "none"
       /\ client.phase \in {"none", "resolve", "connect", "writeHandshake", "readHandshake"} =>
            client.opened = 0
       /\ client.phase \in {"header", "length", "content"} => client.opened # 0
       /\ client.opened # 0 => Connected
       /\ client.opened = 0 => ClientQuiet
       /\ client.ended # 0 => client.phase = "done"

(* Nothing is said before the client's end has made its request.           *)
Unrequested ==
  IF link = "client" THEN foreign.used = 0
  ELSE client.phase \in {"none", "resolve", "connect", "writeHandshake"}

NothingYet ==
  Unrequested =>
    /\ wire["server"] = <<>> /\ wire["client"] = <<>>
    /\ foreign.may = FALSE
    /\ server.phase \in {"none", "readHandshake", "done"} /\ ServerQuiet

(* Until the client has its response, that is all it is sent.              *)
Unopened ==
  link # "client" /\ client.opened = 0 =>
    /\ wire["server"] = <<>> \/ wire["server"] = <<Request(TRUE)>>
    /\ \/ wire["client"] = <<>>
       \/ wire["client"] = <<Response(TRUE)>> \/ wire["client"] = <<Response(FALSE)>>
    /\ wire["server"] # <<>> => wire["client"] = <<>>
    /\ foreign.may = FALSE
    /\ server.phase \notin {"length", "content"} /\ ServerQuiet
    /\ server.phase \in {"writeHandshake", "opening", "header"} => wire["server"] = <<>>

(* Nobody speaks to an end that is not there.                              *)
Spoken ==
  /\ foreign.may = TRUE => Connected
  /\ wire["client"] # <<>> => socket["server"] # "none"

Control == ServerLife /\ ClientLife /\ NothingYet /\ Unopened /\ Spoken /\ Asked

LEMMA ControlInit ==
  ASSUME Init
  PROVE  Control
<1>1. /\ socket = [e \in End |-> "none"] /\ wire = [e \in End |-> <<>>]
      /\ S!Init /\ C!Init /\ foreign.may = FALSE
  BY DEF Init, TcpInit
<1>2. /\ server.phase = "none" /\ server.armed = FALSE /\ server.queued = FALSE
      /\ server.connection = FALSE /\ server.ended = 0 /\ ServerQuiet
  BY <1>1 DEF S!Init, ServerQuiet
<1>3. /\ client.phase = "none" /\ client.opened = 0 /\ client.ended = 0 /\ ClientQuiet
  BY <1>1 DEF C!Init, ClientQuiet
<1>4. socket["server"] = "none" /\ socket["client"] = "none" /\ wire["server"] = <<>> /\ wire["client"] = <<>>
  BY <1>1 DEF End
<1>5. ServerLife
  BY <1>1, <1>2, <1>4 DEF ServerLife
<1>6. ClientLife
  BY <1>1, <1>3, <1>4 DEF ClientLife
<1>. QED
  BY <1>1, <1>2, <1>3, <1>4, <1>5, <1>6 DEF Control, NothingYet, Unopened, Spoken, Asked

(* A server's step leaves the client alone, and its socket.                *)
LEMMA ServerSideOnly ==
  ASSUME TcpOK, ServerOK, S!Next
  PROVE  /\ socket'["client"] = socket["client"]
         /\ socket["server"] # "none" => socket'["server"] # "none"
<1>1. SocketKept \/ \E state \in {"open", "closed"} : socket' = [socket EXCEPT !["server"] = state]
  <2>1. CASE \/ S!Start \/ S!Stop \/ S!AppSends \/ S!StopService \/ S!Exit \/ S!Release
    BY <2>1, ServerStarts, ServerStops, ServerSends, ServerStopsService, ServerExits, ServerReleases
       DEF Closes
  <2>2. CASE \/ S!Accept \/ S!ReadHandshakeFails \/ S!WriteHandshakeFails \/ S!ReadFails \/ S!Open
             \/ S!TimerExpires \/ S!TimerCloses \/ S!ReadLength
    BY <2>2, ServerAccepts, ServerReadHandshakeFails, ServerErrs, ServerOpens, ServerTimerExpires,
       ServerTimerCloses, ServerReadsLength DEF Closes
  <2>3. CASE S!RunSend \/ S!FinishWrite \/ S!WriteFails
    BY <2>3, ServerRunsSend, ServerFinishesWrite, ServerWriteFails
  <2>4. CASE \/ S!ReadHandshake \/ S!ReadHeader \/ S!ReadClose \/ S!ReadPing \/ S!ReadPong
             \/ S!ReadFragment \/ S!ReadMessage
    <3>1. \E kind : Reads("server", kind)
      BY <2>4, ServerReadsHandshake, ServerReadsHeader, ServerReadsClose, ServerReadsPing,
         ServerReadsPong, ServerReadsFragment, ServerReadsMessage
    <3>. QED  BY <3>1 DEF Reads, SocketKept
  <2>5. CASE S!WriteHandshake \/ S!WriteHeader \/ S!WriteContent
    BY <2>5, ServerWritesHandshake, ServerWritesHeader, ServerWritesContent DEF Writes, SocketKept
  <2>. QED
    BY <2>1, <2>2, <2>3, <2>4, <2>5 DEF S!Next, S!Handlers, S!Handshake, S!Read, S!Writing
<1>. QED  BY <1>1 DEF SocketKept, TcpOK, End

(* What is not quiet, or reads content, is past the handshakes.            *)
ServerBusy == ~ServerQuiet \/ server.phase \in {"length", "content"}

LEMMA ServerIsBusy ==
  ASSUME Control, ServerBusy
  PROVE  /\ ~Unrequested
         /\ ~(link # "client" /\ client.opened = 0)
         /\ link # "server" =>
              server.phase \notin {"none", "readHandshake", "writeHandshake", "opening"}
<1>1. ServerLife /\ NothingYet /\ Unopened
  BY DEF Control
<1>. QED  BY <1>1 DEF ServerBusy, ServerLife, NothingYet, Unopened

(* Steps about the service and its timer.                                  *)
LEMMA ServerControlStill ==
  ASSUME Control, link # "server",
         client' = client, foreign' = foreign, link' = link, wire' = wire,
         server'.phase = server.phase, server'.ended = server.ended,
         ServerQuiet => ServerQuiet',
         socket'["client"] = socket["client"],
         socket["server"] # "none" => socket'["server"] # "none",
         server.phase = "none" =>
           /\ server'.armed = FALSE /\ server'.queued = FALSE /\ server'.connection = FALSE
           /\ server'.service # "stopped" => server.service # "stopped" /\ socket' = socket
  PROVE  Control'
<1>1. ServerLife /\ ClientLife /\ NothingYet /\ Unopened /\ Spoken /\ Asked
  BY DEF Control
<1>2. ServerLife'
  BY <1>1 DEF ServerLife, Connected
<1>3. ClientLife' /\ Asked'
  BY <1>1 DEF ClientLife, ClientQuiet, Connected, Asked, C!Init
<1>4. NothingYet' /\ Unopened' /\ Spoken'
  BY <1>1 DEF NothingYet, Unrequested, Unopened, Spoken, Connected
<1>. QED  BY <1>2, <1>3, <1>4 DEF Control

(* Steps of a connection that is open, or was.                             *)
LEMMA ServerControlBusy ==
  ASSUME Control, link # "server", ServerBusy,
         client' = client, foreign' = foreign, link' = link, socket' = socket,
         server'.phase \in {server.phase, "header", "content", "done"},
         server.phase = "done" => server'.phase = "done",
         server'.phase # "done" => server'.ended = server.ended
  PROVE  Control'
<1>1. ServerLife /\ ClientLife /\ NothingYet /\ Unopened /\ Spoken /\ Asked
  BY DEF Control
<1>2. /\ ~Unrequested /\ ~(link # "client" /\ client.opened = 0)
      /\ server.phase \notin {"none", "readHandshake", "writeHandshake", "opening"}
  BY ServerIsBusy
<1>3. ServerLife'
  BY <1>1, <1>2 DEF ServerLife, Connected
<1>4. ClientLife' /\ Asked'
  BY <1>1 DEF ClientLife, ClientQuiet, Connected, Asked, C!Init
<1>5. NothingYet'
  BY <1>2 DEF NothingYet, Unrequested
<1>6. Unopened'
  BY <1>2 DEF Unopened
<1>7. Spoken'
  BY <1>1, <1>2 DEF Spoken, Connected, ServerLife
<1>. QED  BY <1>3, <1>4, <1>5, <1>6, <1>7 DEF Control

LEMMA ServerControl ==
  ASSUME TcpOK, ServerOK, S!Next, link # "server", Control,
         client' = client, foreign' = foreign, link' = link
  PROVE  Control'
<1>1. ServerLife /\ ClientLife /\ NothingYet /\ Unopened /\ Spoken /\ Asked
  BY DEF Control
<1>2. /\ socket'["client"] = socket["client"]
      /\ socket["server"] # "none" => socket'["server"] # "none"
  BY ServerSideOnly
<1>3. ClientLife' /\ Asked'
  BY <1>1, <1>2 DEF ClientLife, ClientQuiet, Connected, Asked, C!Init
<1>4. CASE S!Start
  <2>1. Kept(server, server', {"service"}) /\ server.service = "new" /\ wire' = wire /\ socket' = socket
    BY <1>4, ServerStarts DEF WireKept, SocketKept
  <2>2. /\ server'.phase = server.phase /\ server'.ended = server.ended /\ (ServerQuiet => ServerQuiet')
        /\ server'.armed = server.armed /\ server'.queued = server.queued
        /\ server'.connection = server.connection
    BY <2>1, ServerKeeps DEF ServerQuiet
  <2>. QED  BY <1>1, <1>2, <2>1, <2>2, ServerControlStill DEF ServerLife
<1>5. CASE S!Stop
  <2>1. /\ Kept(server, server', {"service", "connection"}) /\ server'.connection = FALSE
        /\ wire' = wire /\ (server.connection = FALSE => socket' = socket)
    BY <1>5, ServerStops DEF WireKept, SocketKept
  <2>2. /\ server'.phase = server.phase /\ server'.ended = server.ended /\ (ServerQuiet => ServerQuiet')
        /\ server'.armed = server.armed /\ server'.queued = server.queued
    BY <2>1, ServerKeeps DEF ServerQuiet
  <2>3. server.service = "running"
    BY <1>5 DEF S!Stop
  <2>. QED  BY <1>1, <1>2, <2>1, <2>2, <2>3, ServerControlStill DEF ServerLife
<1>6. CASE S!StopService
  <2>1. /\ Kept(server, server', {"service"}) /\ server'.service = "stopped"
        /\ wire' = wire /\ socket' = socket
    BY <1>6, ServerStopsService DEF WireKept, SocketKept
  <2>2. /\ server'.phase = server.phase /\ server'.ended = server.ended /\ (ServerQuiet => ServerQuiet')
        /\ server'.armed = server.armed /\ server'.queued = server.queued
        /\ server'.connection = server.connection
    BY <2>1, ServerKeeps DEF ServerQuiet
  <2>. QED  BY <1>1, <1>2, <2>1, <2>2, ServerControlStill DEF ServerLife
<1>7. CASE S!Exit \/ S!Release
  <2>1. /\ server' = server /\ wire' = wire
        /\ server.phase = "done" \/ server.service = "stopped"
    BY <1>7, ServerExits, ServerReleases DEF WireKept
  <2>2. /\ server'.phase = server.phase /\ server'.ended = server.ended /\ (ServerQuiet => ServerQuiet')
        /\ server'.armed = server.armed /\ server'.queued = server.queued
        /\ server'.connection = server.connection
    BY <2>1 DEF ServerQuiet
  <2>. QED  BY <1>1, <1>2, <2>1, <2>2, ServerControlStill DEF ServerLife
<1>8. CASE S!TimerExpires
  <2>1. /\ Kept(server, server', {"armed", "queued"}) /\ server.armed = TRUE
        /\ wire' = wire /\ socket' = socket
    BY <1>8, ServerTimerExpires DEF WireKept, SocketKept, ServerOK
  <2>2. /\ server'.phase = server.phase /\ server'.ended = server.ended /\ (ServerQuiet => ServerQuiet')
    BY <2>1, ServerKeeps DEF ServerQuiet
  <2>. QED  BY <1>1, <1>2, <2>1, <2>2, ServerControlStill DEF ServerLife
<1>9. CASE S!TimerCloses
  <2>1. Kept(server, server', {"queued"}) /\ server.queued = TRUE /\ wire' = wire
    BY <1>9, ServerTimerCloses DEF WireKept, ServerOK
  <2>2. /\ server'.phase = server.phase /\ server'.ended = server.ended /\ (ServerQuiet => ServerQuiet')
    BY <2>1, ServerKeeps DEF ServerQuiet
  <2>. QED  BY <1>1, <1>2, <2>1, <2>2, ServerControlStill DEF ServerLife
<1>10. CASE S!Accept
  <2>1. /\ Kept(server, server', {"phase", "armed"}) /\ server.phase = "none"
        /\ server'.phase = "readHandshake" /\ server.service # "stopped" /\ wire' = wire
        /\ socket["client"] # "none" /\ socket'["server"] = "open"
    BY <1>10, ServerAccepts DEF WireKept, TcpOK, End
  <2>2. /\ server'.ended = server.ended /\ (ServerQuiet => ServerQuiet')
    BY <2>1, ServerKeeps DEF ServerQuiet
  <2>3. ServerLife'
    BY <1>1, <1>2, <2>1, <2>2 DEF ServerLife, Connected
  <2>4. NothingYet' /\ Unopened' /\ Spoken'
    BY <1>1, <1>2, <2>1, <2>2 DEF NothingYet, Unrequested, Unopened, Spoken, Connected
  <2>. QED  BY <1>3, <2>3, <2>4 DEF Control
<1>11. CASE S!ReadHandshake \/ S!ReadHandshakeFails
  <2>1. /\ Kept(server, server', {"phase", "armed"}) /\ server.phase = "readHandshake"
        /\ server'.phase \in {"writeHandshake", "done"} /\ socket' = socket
        /\ \/ wire' = wire /\ server'.phase = "done"
           \/ wire["server"] # <<>> /\ wire' = [wire EXCEPT !["server"] = Tail(@)]
    BY <1>11, ServerReadsHandshake, ServerReadHandshakeFails DEF Reads, WireKept, SocketKept
  <2>2. /\ server'.ended = server.ended /\ (ServerQuiet => ServerQuiet')
    BY <2>1, ServerKeeps DEF ServerQuiet
  <2>3. wire'["client"] = wire["client"]
    BY <2>1 DEF TcpOK, End
  <2>4. \/ wire'["server"] = wire["server"] /\ server'.phase = "done"
        \/ /\ wire["server"] # <<>>
           /\ wire["server"] = <<Request(TRUE)>> => wire'["server"] = <<>>
    <3>1. Tail(<<Request(TRUE)>>) = <<>>
      OBVIOUS
    <3>. QED  BY <2>1, <3>1 DEF TcpOK, End
  <2>5. ServerLife'
    BY <1>1, <2>1, <2>2, <2>3 DEF ServerLife, Connected
  <2>6. NothingYet'
    BY <1>1, <2>1, <2>2, <2>3 DEF NothingYet, Unrequested
  <2>7. Unopened'
    BY <1>1, <2>1, <2>2, <2>3, <2>4 DEF Unopened
  <2>8. Spoken'
    BY <1>1, <1>2, <2>1, <2>3 DEF Spoken, Connected
  <2>. QED  BY <1>3, <2>5, <2>6, <2>7, <2>8 DEF Control
<1>12. CASE S!WriteHandshake
  <2>1. /\ Kept(server, server', {"phase"}) /\ server.phase = "writeHandshake"
        /\ server'.phase = "opening" /\ Writes("server", <<Response(TRUE)>>) /\ socket' = socket
    BY <1>12, ServerWritesHandshake DEF Writes
  <2>2. /\ server'.ended = server.ended /\ (ServerQuiet => ServerQuiet')
    BY <2>1, ServerKeeps DEF ServerQuiet
  <2>3. wire["client"] = <<>> /\ Connected
    BY <1>1, <2>1 DEF ServerLife
  <2>4. /\ wire'["server"] = wire["server"]
        /\ wire'["client"] = <<>> \/ wire'["client"] = <<Response(TRUE)>>
    <3>1. <<>> \o <<Response(TRUE)>> = <<Response(TRUE)>>
      OBVIOUS
    <3>. QED  BY <2>1, <2>3, <3>1 DEF Writes, Peer, TcpOK, End
  <2>5. ServerLife'
    BY <1>1, <2>1, <2>2, <2>3 DEF ServerLife, Connected
  <2>6. NothingYet'
    BY <1>1, <2>1 DEF NothingYet, Unrequested
  <2>7. Unopened'
    BY <1>1, <2>1, <2>2, <2>4 DEF Unopened
  <2>8. Spoken'
    BY <1>1, <2>1, <2>3 DEF Spoken, Connected
  <2>. QED  BY <1>3, <2>5, <2>6, <2>7, <2>8 DEF Control
<1>13. CASE S!WriteHandshakeFails \/ S!ReadFails
  <2>1. /\ Kept(server, server', {"service", "phase", "armed", "connection", "ended"})
        /\ server.phase # "none" /\ server'.phase = "done" /\ wire' = wire /\ socket' = socket
    BY <1>13, ServerErrs DEF WireKept, SocketKept
  <2>2. ServerQuiet => ServerQuiet'
    BY <2>1, ServerKeeps DEF ServerQuiet
  <2>3. ServerLife'
    BY <1>1, <2>1, <2>2 DEF ServerLife, Connected
  <2>4. NothingYet' /\ Unopened' /\ Spoken'
    BY <1>1, <2>1, <2>2 DEF NothingYet, Unrequested, Unopened, Spoken, Connected
  <2>. QED  BY <1>3, <2>3, <2>4 DEF Control
<1>14. CASE S!Open
  <2>1. /\ Kept(server, server', {"phase", "armed", "connection", "opened"})
        /\ server.phase = "opening" /\ server'.phase = "header" /\ wire' = wire /\ socket' = socket
    BY <1>14, ServerOpens DEF WireKept, SocketKept
  <2>2. server'.ended = server.ended /\ (ServerQuiet => ServerQuiet')
    BY <2>1, ServerKeeps DEF ServerQuiet
  <2>3. ServerLife'
    BY <1>1, <2>1, <2>2 DEF ServerLife, Connected
  <2>4. NothingYet' /\ Unopened' /\ Spoken'
    BY <1>1, <2>1, <2>2 DEF NothingYet, Unrequested, Unopened, Spoken, Connected
  <2>. QED  BY <1>3, <2>3, <2>4 DEF Control
<1>15. CASE S!ReadHeader
  <2>1. /\ server.phase = "header" /\ wire["server"] # <<>> /\ socket' = socket
        /\ wire' = [wire EXCEPT !["server"] = Tail(@)]
    BY <1>15, ServerReadsHeader DEF Reads
  <2>2. /\ server'.phase \in {"length", "content", "done"}
        /\ server'.phase # "done" => server'.ended = server.ended
    BY <1>15, ServerReadsHeader, ServerSendsClose, ServerKeeps
  <2>3. wire'["client"] = wire["client"]
    BY <2>1 DEF TcpOK, End
  <2>4. ~(link # "client" /\ client.opened = 0) /\ ~Unrequested
    BY <1>1, <2>1 DEF Unopened, NothingYet
  <2>5. ServerLife'
    BY <1>1, <2>1, <2>2, <2>3 DEF ServerLife, Connected
  <2>6. NothingYet' /\ Unopened' /\ Spoken'
    BY <1>1, <2>1, <2>3, <2>4 DEF NothingYet, Unrequested, Unopened, Spoken, Connected
  <2>. QED  BY <1>3, <2>5, <2>6 DEF Control
<1>16. CASE S!ReadLength \/ S!ReadPing \/ S!ReadPong \/ S!ReadFragment \/ S!ReadMessage
  <2>1. /\ server.phase \in {"length", "content"} /\ socket' = socket
        /\ Kept(server, server', {"phase", "posted", "fragmented_message", "received"})
        /\ server'.phase \in {"header", "content"}
    BY <1>16, ServerReadsLength, ServerReadsPing, ServerReadsPong,
       ServerReadsFragment, ServerReadsMessage DEF Reads, SocketKept, Kept
  <2>2. server'.ended = server.ended
    BY <2>1, ServerKeeps
  <2>. QED  BY <2>1, <2>2, ServerControlBusy DEF ServerBusy
<1>19. CASE S!ReadClose
  <2>1. server.phase = "content" /\ socket' = socket /\ server'.phase = "done"
    BY <1>19, ServerReadsClose, ServerSendsClose DEF Reads
  <2>. QED  BY <2>1, ServerControlBusy DEF ServerBusy
<1>17. CASE S!AppSends
  <2>1. Kept(server, server', {"posted", "sent"}) /\ server.received # <<>> /\ socket' = socket
    BY <1>17, ServerSends DEF SocketKept
  <2>2. server'.phase = server.phase /\ server'.ended = server.ended
    BY <2>1, ServerKeeps
  <2>. QED  BY <2>1, <2>2, ServerControlBusy DEF ServerBusy, ServerQuiet
<1>20. CASE S!RunSend
  <2>1. /\ Kept(server, server', {"posted", "send_queue", "writing"}) /\ server.posted # <<>>
        /\ socket' = socket
    BY <1>20, ServerRunsSend DEF SocketKept
  <2>2. server'.phase = server.phase /\ server'.ended = server.ended
    BY <2>1, ServerKeeps
  <2>. QED  BY <2>1, <2>2, ServerControlBusy DEF ServerBusy, ServerQuiet
<1>18. CASE S!WriteHeader \/ S!WriteContent \/ S!FinishWrite \/ S!WriteFails
  <2>1. /\ server.writing # "none" /\ socket' = socket
        /\ server'.phase = server.phase /\ server'.ended = server.ended
    BY <1>18, ServerWritesHeader, ServerWritesContent, ServerFinishesWrite, ServerWriteFails,
       ServerKeeps DEF SocketKept, Writes
  <2>. QED  BY <2>1, ServerControlBusy DEF ServerBusy, ServerQuiet
<1>. QED
  BY <1>4, <1>5, <1>6, <1>7, <1>8, <1>9, <1>10, <1>11, <1>12, <1>13, <1>14, <1>15, <1>16, <1>17,
     <1>18, <1>19, <1>20
  DEF S!Next, S!Handlers, S!Handshake, S!Read, S!Writing

-----------------------------------------------------------------------------
(* A client's step leaves the server alone, and its socket.                *)
LEMMA ClientSideOnly ==
  ASSUME TcpOK, ClientOK, C!Next
  PROVE  /\ socket'["server"] = socket["server"]
         /\ socket["client"] # "none" => socket'["client"] # "none"
         /\ wire["client"] = <<>> => wire'["client"] = <<>>
<1>1. /\ SocketKept \/ \E state \in {"open", "closed"} : socket' = [socket EXCEPT !["client"] = state]
      /\ wire["client"] = <<>> => wire'["client"] = <<>>
  <2>1. CASE C!Start \/ C!Stop \/ C!AppSends \/ C!Resolve \/ C!Connect
    BY <2>1, ClientStarts, ClientStops, ClientSends, ClientResolves, ClientConnects
       DEF Closes, WireKept
  <2>2. CASE C!ConnectFails \/ C!Fails \/ C!ReadLength
    BY <2>2, ClientErrs, ClientReadsLength DEF Closes, WireKept
  <2>3. CASE C!RunSend \/ C!FinishWrite \/ C!WriteFails
    BY <2>3, ClientRunsSend, ClientFinishesWrite, ClientWriteFails DEF WireKept
  <2>4. CASE C!ReadHandshake
    BY <2>4, ClientReadsHandshake DEF Closes
  <2>5. CASE C!ReadHeader \/ C!ReadClose
    BY <2>5, ClientReadsHeader, ClientReadsClose DEF ClientCloses, Closes
  <2>6. CASE C!ReadPing \/ C!ReadPong \/ C!ReadFragment \/ C!ReadMessage
    <3>1. Reads("client", "content")
      BY <2>6, ClientReadsPing, ClientReadsPong, ClientReadsFragment, ClientReadsMessage
    <3>. QED  BY <3>1 DEF Reads, SocketKept
  <2>7. CASE C!WriteHandshake
    BY <2>7, ClientWritesHandshake DEF TcpOK, End
  <2>8. CASE C!WriteFrame
    <3>1. \E pieces : Writes("client", pieces)
      BY <2>8, ClientWritesFrame
    <3>. QED  BY <3>1 DEF Writes, SocketKept, Peer, TcpOK, End
  <2>. QED
    BY <2>1, <2>2, <2>3, <2>4, <2>5, <2>6, <2>7, <2>8
       DEF C!Next, C!Handlers, C!Handshake, C!Read, C!Writing
<1>. QED  BY <1>1 DEF SocketKept, TcpOK, End

(* Steps before the connection is opened, and ends of one.                 *)
LEMMA ClientControlStill ==
  ASSUME Control, link # "client",
         server' = server, foreign' = foreign, link' = link, wire' = wire,
         client'.opened = client.opened, ClientQuiet => ClientQuiet',
         Unrequested' => Unrequested,
         socket'["server"] = socket["server"],
         socket["client"] # "none" => socket'["client"] # "none",
         client'.ended # 0 => client'.phase = "done", client'.service # "new",
         \/ client'.phase = "done"
         \/ client'.phase = client.phase /\ client'.service = "stopped"
         \/ /\ client.phase \in {"none", "resolve"} /\ client'.phase \in {"resolve", "connect"}
            /\ client.service # "stopped" /\ socket' = socket
         \/ /\ client.phase = "connect" /\ client'.phase = "writeHandshake"
            /\ socket'["client"] = "open"
  PROVE  Control'
<1>1. ServerLife /\ ClientLife /\ NothingYet /\ Unopened /\ Spoken /\ Asked
  BY DEF Control
<1>2. ServerLife'
  BY <1>1 DEF ServerLife, ServerQuiet, Connected, S!Init
<1>3. ClientLife'
  BY <1>1 DEF ClientLife, Connected
<1>4. NothingYet' /\ Unopened' /\ Asked'
  BY <1>1 DEF NothingYet, Unopened, Asked, ServerQuiet
<1>5. Spoken'
  BY <1>1 DEF Spoken, Connected
<1>. QED  BY <1>2, <1>3, <1>4, <1>5 DEF Control

(* Steps of a connection that is open, or was.                             *)
LEMMA ClientControlBusy ==
  ASSUME Control, link # "client", client.opened # 0,
         server' = server, foreign' = foreign, link' = link,
         client'.opened = client.opened,
         socket'["server"] = socket["server"],
         socket["client"] # "none" => socket'["client"] # "none",
         wire["client"] = <<>> => wire'["client"] = <<>>,
         client'.service \in {client.service, "stopped"},
         \/ client'.phase = "done"
         \/ client'.phase = client.phase /\ client'.ended = client.ended
         \/ /\ client.phase \in {"header", "length", "content"}
            /\ client'.phase \in {"header", "length", "content"}
            /\ client'.ended = client.ended
  PROVE  Control'
<1>1. ServerLife /\ ClientLife /\ NothingYet /\ Unopened /\ Spoken /\ Asked
  BY DEF Control
<1>2. client.phase \notin {"none", "resolve", "connect", "writeHandshake", "readHandshake"}
  BY <1>1 DEF ClientLife
<1>3. ServerLife'
  BY <1>1 DEF ServerLife, ServerQuiet, Connected, S!Init
<1>4. ClientLife'
  BY <1>1, <1>2 DEF ClientLife, Connected
<1>5. NothingYet' /\ Unopened' /\ Asked'
  BY <1>1, <1>2 DEF NothingYet, Unrequested, Unopened, Asked
<1>6. Spoken'
  BY <1>1 DEF Spoken, Connected
<1>. QED  BY <1>3, <1>4, <1>5, <1>6 DEF Control

LEMMA ClientControl ==
  ASSUME TcpOK, ClientOK, C!Next, link # "client", Control,
         server' = server, foreign' = foreign, link' = link
  PROVE  Control'
<1>1. ServerLife /\ ClientLife /\ NothingYet /\ Unopened /\ Spoken /\ Asked
  BY DEF Control
<1>2. /\ socket'["server"] = socket["server"]
      /\ socket["client"] # "none" => socket'["client"] # "none"
      /\ wire["client"] = <<>> => wire'["client"] = <<>>
  BY ClientSideOnly
<1>3. CASE C!Start
  <2>1. /\ Kept(client, client', {"service", "phase"}) /\ client.service = "new"
        /\ client'.service = "running" /\ client'.phase = "resolve"
        /\ wire' = wire /\ socket' = socket
    BY <1>3, ClientStarts DEF WireKept, SocketKept
  <2>2. client.phase = "none"
    BY <1>1, <2>1 DEF ClientLife
  <2>3. /\ client'.opened = client.opened /\ client'.ended = client.ended
        /\ (ClientQuiet => ClientQuiet')
    BY <2>1, ClientKeeps DEF ClientQuiet
  <2>. QED  BY <1>1, <1>2, <2>1, <2>2, <2>3, ClientControlStill DEF ClientLife, Unrequested
<1>4. CASE C!Stop
  <2>1. /\ Kept(client, client', {"service"}) /\ client'.service = "stopped" /\ wire' = wire
    BY <1>4, ClientStops DEF WireKept
  <2>2. /\ client'.opened = client.opened /\ client'.ended = client.ended
        /\ client'.phase = client.phase /\ (ClientQuiet => ClientQuiet')
    BY <2>1, ClientKeeps DEF ClientQuiet
  <2>. QED  BY <1>1, <1>2, <2>1, <2>2, ClientControlStill DEF ClientLife, Unrequested
<1>5. CASE C!AppSends
  <2>1. /\ Kept(client, client', {"posted", "sent"}) /\ client.opened # 0
    BY <1>5, ClientSends
  <2>2. /\ client'.opened = client.opened /\ client'.ended = client.ended
        /\ client'.phase = client.phase /\ client'.service = client.service
    BY <2>1, ClientKeeps
  <2>. QED  BY <1>2, <2>1, <2>2, ClientControlBusy
<1>6. CASE C!Resolve
  <2>1. /\ Kept(client, client', {"phase"}) /\ client.service = "running"
        /\ client.phase = "resolve" /\ client'.phase = "connect" /\ wire' = wire /\ socket' = socket
    BY <1>6, ClientResolves DEF WireKept, SocketKept, C!Resolve, C!In, C!Running
  <2>2. /\ client'.opened = client.opened /\ client'.ended = client.ended
        /\ client'.service = client.service /\ (ClientQuiet => ClientQuiet')
    BY <2>1, ClientKeeps DEF ClientQuiet
  <2>. QED  BY <1>1, <1>2, <2>1, <2>2, ClientControlStill DEF ClientLife, Unrequested
<1>7. CASE C!Connect
  <2>1. /\ Kept(client, client', {"phase"}) /\ client.service = "running"
        /\ client.phase = "connect" /\ client'.phase = "writeHandshake"
        /\ wire' = wire /\ socket'["client"] = "open"
    BY <1>7, ClientConnects DEF WireKept, TcpOK, End
  <2>2. /\ client'.opened = client.opened /\ client'.ended = client.ended
        /\ client'.service = client.service /\ (ClientQuiet => ClientQuiet')
    BY <2>1, ClientKeeps DEF ClientQuiet
  <2>. QED  BY <1>1, <1>2, <2>1, <2>2, ClientControlStill DEF ClientLife, Unrequested
<1>8. CASE C!ConnectFails \/ C!Fails
  <2>1. /\ Kept(client, client', {"service", "phase", "posted", "closed", "ended"})
        /\ client'.posted = client.posted /\ client'.service = "stopped"
        /\ client'.phase = "done" /\ wire' = wire
    BY <1>8, ClientErrs DEF WireKept
  <2>2. client'.opened = client.opened /\ (ClientQuiet => ClientQuiet')
    BY <2>1, ClientKeeps DEF ClientQuiet
  <2>. QED  BY <1>1, <1>2, <2>1, <2>2, ClientControlStill DEF Unrequested
<1>9. CASE C!WriteHandshake
  <2>1. /\ Kept(client, client', {"phase"}) /\ client.service = "running"
        /\ client.phase = "writeHandshake" /\ client'.phase = "readHandshake"
        /\ wire' = [wire EXCEPT !["server"] = Append(@, Request(TRUE))] /\ socket' = socket
    BY <1>9, ClientWritesHandshake DEF SocketKept, C!WriteHandshake, C!In, C!Running
  <2>2. /\ client'.opened = client.opened /\ client'.ended = client.ended
        /\ client'.service = client.service /\ (ClientQuiet => ClientQuiet')
    BY <2>1, ClientKeeps DEF ClientQuiet
  <2>3. /\ wire["server"] = <<>> /\ wire["client"] = <<>> /\ foreign.may = FALSE
        /\ server.phase \in {"none", "readHandshake", "done"} /\ ServerQuiet
    BY <1>1, <2>1 DEF NothingYet, Unrequested
  <2>4. wire'["server"] = <<Request(TRUE)>> /\ wire'["client"] = <<>>
    <3>1. Append(<<>>, Request(TRUE)) = <<Request(TRUE)>>
      OBVIOUS
    <3>. QED  BY <2>1, <2>3, <3>1 DEF TcpOK, End
  <2>5. ServerLife'
    BY <1>1, <2>1, <2>4 DEF ServerLife, ServerQuiet, Connected, S!Init
  <2>6. ClientLife'
    BY <1>1, <2>1, <2>2 DEF ClientLife, Connected
  <2>7. NothingYet' /\ Unopened' /\ Spoken' /\ Asked'
    BY <1>1, <2>1, <2>3, <2>4 DEF NothingYet, Unrequested, Unopened, Spoken, Asked, ServerQuiet
  <2>. QED  BY <2>5, <2>6, <2>7 DEF Control
<1>10. CASE C!ReadHandshake
  <2>1. /\ client.phase = "readHandshake" /\ wire["client"] # <<>>
        /\ wire' = [wire EXCEPT !["client"] = Tail(@)]
        /\ Kept(client, client', {"service", "phase", "posted", "closed", "opened", "ended"})
        /\ client'.posted = client.posted
        /\ client'.service # "new"
        /\ \/ client'.phase = "header" /\ client'.opened = client.opened + 1
              /\ client'.ended = client.ended
           \/ client'.phase = "done" /\ client'.opened = client.opened
    <3>1. client.service = "running"
      BY <1>10 DEF C!ReadHandshake, C!In, C!Running
    <3>. QED  BY <1>10, <3>1, ClientReadsHandshake, ClientKeeps DEF Kept
  <2>2. ClientQuiet => ClientQuiet'
    BY <2>1, ClientKeeps DEF ClientQuiet
  <2>3. client.opened = 0 /\ Connected /\ Connected'
    BY <1>1, <1>2, <2>1 DEF ClientLife, Spoken, Connected
  <2>4. client'.phase = "header" => client'.opened # 0
    BY <2>1, <2>3
  <2>5. /\ wire'["server"] = wire["server"] /\ wire["server"] = <<>>
        /\ wire'["client"] = <<>>
    <3>1. \A x : Tail(<<x>>) = <<>>
      OBVIOUS
    <3>. QED  BY <1>1, <2>1, <2>3, <3>1 DEF Unopened, TcpOK, End
  <2>6. ServerLife'
    BY <1>1, <1>2, <2>3, <2>5 DEF ServerLife, ServerQuiet, Connected, S!Init
  <2>7. ClientLife'
    BY <1>1, <2>1, <2>2, <2>3, <2>4 DEF ClientLife, Connected
  <2>8. NothingYet' /\ Spoken' /\ Asked'
    BY <1>1, <2>1, <2>3, <2>5 DEF NothingYet, Unrequested, Spoken, Asked
  <2>9. Unopened'
    BY <1>1, <2>1, <2>3, <2>5 DEF Unopened, ServerQuiet
  <2>. QED  BY <2>6, <2>7, <2>8, <2>9 DEF Control
<1>11. CASE C!ReadHeader
  <2>1. /\ client.phase = "header"
        /\ Kept(client, client', {"service", "phase", "posted", "closed", "ended", "frame"})
        /\ client'.service \in {client.service, "stopped"}
        /\ \/ client'.phase = "done"
           \/ client'.phase \in {"length", "content"} /\ client'.ended = client.ended
    BY <1>11, ClientReadsHeader, ClientKeeps DEF ClientCloses, Kept
  <2>2. client'.opened = client.opened /\ client.opened # 0
    BY <1>1, <2>1, ClientKeeps DEF ClientLife
  <2>. QED  BY <1>2, <2>1, <2>2, ClientControlBusy
<1>12. CASE C!ReadClose
  <2>1. client.phase = "content" /\ ClientCloses
    BY <1>12, ClientReadsClose
  <2>2. client'.opened = client.opened /\ client.opened # 0
    BY <1>1, <2>1, ClientKeeps DEF ClientLife, ClientCloses
  <2>. QED  BY <1>2, <2>1, <2>2, ClientControlBusy DEF ClientCloses
<1>13. CASE C!ReadLength \/ C!ReadPing \/ C!ReadPong \/ C!ReadFragment \/ C!ReadMessage
  <2>1. /\ client.phase \in {"length", "content"} /\ client'.phase \in {"header", "content"}
        /\ Kept(client, client', {"phase", "posted", "fragmented_message", "received"})
    BY <1>13, ClientReadsLength, ClientReadsPing, ClientReadsPong,
       ClientReadsFragment, ClientReadsMessage DEF Kept
  <2>2. /\ client'.opened = client.opened /\ client.opened # 0
        /\ client'.service = client.service /\ client'.ended = client.ended
    BY <1>1, <2>1, ClientKeeps DEF ClientLife
  <2>. QED  BY <1>2, <2>1, <2>2, ClientControlBusy
<1>14. CASE C!RunSend
  <2>1. /\ Kept(client, client', {"posted", "send_queue", "writing"}) /\ client.posted # <<>>
    BY <1>14, ClientRunsSend
  <2>2. /\ client'.opened = client.opened /\ client'.ended = client.ended
        /\ client'.phase = client.phase /\ client'.service = client.service /\ client.opened # 0
    BY <1>1, <2>1, ClientKeeps DEF ClientLife, ClientQuiet
  <2>. QED  BY <1>2, <2>1, <2>2, ClientControlBusy
<1>15. CASE C!WriteFrame \/ C!FinishWrite \/ C!WriteFails
  <2>1. /\ Kept(client, client', {"send_queue", "writing"}) /\ client.writing # "none"
    BY <1>15, ClientWritesFrame, ClientFinishesWrite, ClientWriteFails DEF Kept
  <2>2. /\ client'.opened = client.opened /\ client'.ended = client.ended
        /\ client'.phase = client.phase /\ client'.service = client.service /\ client.opened # 0
    BY <1>1, <2>1, ClientKeeps DEF ClientLife, ClientQuiet
  <2>. QED  BY <1>2, <2>1, <2>2, ClientControlBusy
<1>. QED
  BY <1>3, <1>4, <1>5, <1>6, <1>7, <1>8, <1>9, <1>10, <1>11, <1>12, <1>13, <1>14, <1>15
     DEF C!Next, C!Handlers, C!Handshake, C!Read, C!Writing

-----------------------------------------------------------------------------
LEMMA ForeignControlKept ==
  ASSUME TcpOK, ForeignOK, Foreign, Control
  PROVE  Control'
<1>1. ServerLife /\ ClientLife /\ NothingYet /\ Unopened /\ Spoken /\ Asked
  BY DEF Control
<1>2. server' = server /\ client' = client /\ link' = link
  BY DEF Foreign
<1>3. Other = link /\ link \in {"client", "server"} /\ Other \in End
  BY DEF Foreign, Other, TcpOK, Link, End
<1>4. CASE \/ link = "client" /\ ForeignConnects
           \/ link = "server" /\ (ForeignListens \/ ForeignAccepts)
           \/ ForeignCloses
  <2>1. /\ wire' = wire /\ foreign' = foreign
        /\ link = "client" => socket'["server"] = socket["server"]
        /\ link = "server" => socket'["client"] = socket["client"]
        /\ socket["server"] # "none" => socket'["server"] # "none"
        /\ socket["client"] # "none" => socket'["client"] # "none"
    BY <1>3, <1>4
       DEF ForeignConnects, ForeignListens, ForeignAccepts, ForeignCloses, Closed, TcpOK, End
  <2>2. ServerLife' /\ ClientLife'
    BY <1>1, <1>2, <1>3, <2>1
       DEF ServerLife, ClientLife, ServerQuiet, ClientQuiet, Connected, S!Init, C!Init
  <2>3. NothingYet' /\ Unopened' /\ Spoken' /\ Asked'
    BY <1>1, <1>2, <2>1 DEF NothingYet, Unrequested, Unopened, Spoken, Asked, ServerQuiet, Connected
  <2>. QED  BY <2>2, <2>3 DEF Control
<1>5. ASSUME socket' = socket, wire'["client"] = <<>> \/ wire["client"] # <<>> \/ socket["server"] # "none",
             link # "server" /\ wire["client"] = <<>> => wire'["client"] = <<>>
      PROVE  ServerLife' /\ ClientLife'
  <2>1. ServerLife'
    BY <1>1, <1>2, <1>5 DEF ServerLife, ServerQuiet, Connected, S!Init
  <2>2. ClientLife'
    BY <1>1, <1>2, <1>5 DEF ClientLife, ClientQuiet, Connected, C!Init
  <2>. QED  BY <2>1, <2>2
<1>6. CASE link = "client" /\ ForeignRequests
  <2>1. /\ socket' = socket /\ foreign'.used = 1 /\ foreign'.may = foreign.may
        /\ wire'["client"] = wire["client"]
    <3>1. PICK request : wire' = [wire EXCEPT !["server"] = Append(@, request)]
      BY <1>6, ForeignRequestsOnce
    <3>2. wire'["client"] = wire["client"]
      BY <3>1 DEF TcpOK, End
    <3>. QED  BY <1>6, <3>2, ForeignRequestsOnce, ForeignKeeps DEF SocketKept
  <2>2. NothingYet' /\ Unopened' /\ Spoken' /\ Asked'
    BY <1>1, <1>2, <1>6, <2>1 DEF NothingYet, Unrequested, Unopened, Spoken, Asked, Connected
  <2>. QED  BY <1>5, <2>1, <2>2 DEF Control, Spoken
<1>7. CASE ForeignTakes /\ link = "client"
  <2>1. /\ socket' = socket /\ wire["client"] # <<>> /\ socket["client"] = "open"
        /\ foreign'.used = foreign.used
    BY <1>3, <1>7, ForeignTakesAll, ForeignKeeps DEF SocketKept
  <2>2. socket["server"] # "none" /\ ~Unrequested
    BY <1>1, <2>1 DEF Spoken, NothingYet
  <2>3. NothingYet' /\ Unopened' /\ Spoken' /\ Asked'
    BY <1>1, <1>2, <1>7, <2>1, <2>2 DEF NothingYet, Unrequested, Unopened, Spoken, Asked, Connected
  <2>. QED  BY <1>5, <1>7, <2>1, <2>2, <2>3 DEF Control
<1>8. CASE ForeignTakes /\ link = "server"
  <2>1. /\ socket' = socket /\ wire["server"] # <<>> /\ socket["server"] = "open"
        /\ foreign'.may \in BOOLEAN
        /\ foreign'.may /\ ~foreign.may =>
             \E i \in DOMAIN wire["server"] : wire["server"][i].piece \in {"response", "content"}
        /\ \/ wire' = [wire EXCEPT !["server"] = <<>>]
           \/ \E response \in {Response(TRUE), Response(FALSE)} :
                wire' = [Written("server", <<response>>) EXCEPT !["server"] = Tail(@)]
    BY <1>3, <1>8, ForeignTakesAll DEF SocketKept
  <2>2. client.phase \notin {"none", "resolve", "connect", "writeHandshake"}
    BY <1>1, <1>8, <2>1 DEF NothingYet, Unrequested
  <2>3. ASSUME client.opened = 0
        PROVE  /\ foreign'.may = FALSE /\ wire'["server"] = <<>>
               /\ \/ wire'["client"] = <<>>
                  \/ wire'["client"] = <<Response(TRUE)>> \/ wire'["client"] = <<Response(FALSE)>>
    <3>1. wire["server"] = <<Request(TRUE)>> /\ wire["client"] = <<>> /\ foreign.may = FALSE
      BY <1>1, <1>8, <2>1, <2>3 DEF Unopened
    <3>2. /\ Tail(<<Request(TRUE)>>) = <<>>
          /\ \A response : <<>> \o <<response>> = <<response>>
      OBVIOUS
    <3>3. \A i \in DOMAIN wire["server"] : wire["server"][i].piece = "request"
      BY <3>1 DEF Request
    <3>4. foreign'.may = FALSE
      BY <2>1, <3>1, <3>3
    <3>5. CASE wire' = [wire EXCEPT !["server"] = <<>>]
      BY <3>1, <3>4, <3>5 DEF TcpOK, End
    <3>6. ASSUME NEW response \in {Response(TRUE), Response(FALSE)},
                 wire' = [Written("server", <<response>>) EXCEPT !["server"] = Tail(@)]
          PROVE  /\ wire'["server"] = <<>>
                 /\ wire'["client"] = <<>> \/ wire'["client"] = <<response>>
      BY <3>1, <3>2, <3>6 DEF Written, Peer, TcpOK, End
    <3>. QED  BY <2>1, <3>4, <3>5, <3>6
  <2>4. Unopened'
    BY <1>1, <1>2, <2>1, <2>3 DEF Unopened, ServerQuiet
  <2>5. Spoken'
    <3>1. foreign'.may = TRUE => Connected
      BY <1>1, <2>3, <1>8 DEF ClientLife
    <3>. QED  BY <2>1, <3>1 DEF Spoken, Connected
  <2>6. NothingYet' /\ Asked'
    BY <1>2, <1>8, <2>2 DEF NothingYet, Unrequested, Asked
  <2>. QED  BY <1>5, <1>8, <2>1, <2>4, <2>5, <2>6 DEF Control
<1>9. CASE ForeignSendsData \/ ForeignSendsControl
  <2>1. foreign.may = TRUE
    BY <1>9 DEF ForeignSendsData, ForeignSendsControl, ForeignSends, ForeignOK
  <2>2. socket' = socket /\ (link = "client" => wire'["client"] = wire["client"])
    BY <1>3, <1>9 DEF ForeignSendsData, ForeignSendsControl, ForeignSends, Written, Peer, TcpOK, End
  <2>3. /\ foreign'.may = foreign.may
        /\ foreign.used # 0 => foreign'.used # 0
    <3>1. foreign.used \in Nat => foreign.used + 1 # 0
      OBVIOUS
    <3>2. CASE ForeignSendsData
      BY <3>1, <3>2 DEF ForeignSendsData, ForeignOK
    <3>3. CASE ForeignSendsControl
      BY <3>3 DEF ForeignSendsControl, ForeignOK
    <3>. QED  BY <1>9, <3>2, <3>3
  <2>4. Connected /\ ~Unrequested /\ ~(link # "client" /\ client.opened = 0)
    BY <1>1, <2>1 DEF Spoken, NothingYet, Unopened
  <2>5. NothingYet' /\ Unopened' /\ Spoken' /\ Asked'
    BY <1>1, <1>2, <2>1, <2>2, <2>3, <2>4
       DEF NothingYet, Unrequested, Unopened, Spoken, Asked, Connected
  <2>. QED  BY <1>3, <1>5, <2>2, <2>4, <2>5 DEF Control, Connected
<1>. QED  BY <1>3, <1>4, <1>6, <1>7, <1>8, <1>9 DEF Foreign

LEMMA BreakControl ==
  ASSUME TcpOK, Break, Control
  PROVE  Control'
<1>1. ServerLife /\ ClientLife /\ NothingYet /\ Unopened /\ Spoken /\ Asked
  BY DEF Control
<1>2. /\ server' = server /\ client' = client /\ foreign' = foreign /\ link' = link /\ wire' = wire
      /\ socket["server"] = "open" /\ socket["client"] = "open"
      /\ socket'["server"] = "broken" /\ socket'["client"] = "broken"
  BY DEF Break, End
<1>3. ServerLife' /\ ClientLife'
  BY <1>1, <1>2 DEF ServerLife, ClientLife, ServerQuiet, ClientQuiet, Connected, S!Init, C!Init
<1>4. NothingYet' /\ Unopened' /\ Spoken' /\ Asked'
  BY <1>1, <1>2 DEF NothingYet, Unrequested, Unopened, Spoken, Asked, ServerQuiet, Connected
<1>. QED  BY <1>3, <1>4 DEF Control

-----------------------------------------------------------------------------
(***************************************************************************)
(* What the pieces on the wire can be: whole frames, with a header's       *)
(* content on its way while the connection stands.                         *)
(***************************************************************************)
LEMMA ServerSevers ==
  ASSUME TcpOK, ServerOK, S!Next, link # "server", Control
  PROVE  Severed => Severed'
<1>1. CASE S!Accept
  <2>1. socket["server"] = "none" /\ socket' = [socket EXCEPT !["server"] = "open"]
    BY <1>1, ServerAccepts DEF Control, ServerLife
  <2>. QED  BY <2>1 DEF Severed, TcpOK, End
<1>2. CASE ~S!Accept
  <2>1. SocketKept \/ Closes("server")
    <3>1. CASE \/ S!Start \/ S!Stop \/ S!AppSends \/ S!StopService \/ S!Exit \/ S!Release
      BY <3>1, ServerStarts, ServerStops, ServerSends, ServerStopsService, ServerExits, ServerReleases
    <3>2. CASE \/ S!ReadHandshakeFails \/ S!WriteHandshakeFails \/ S!ReadFails \/ S!Open
               \/ S!TimerExpires \/ S!TimerCloses \/ S!ReadLength
      BY <3>2, ServerReadHandshakeFails, ServerErrs, ServerOpens, ServerTimerExpires,
         ServerTimerCloses, ServerReadsLength
    <3>3. CASE S!RunSend \/ S!FinishWrite \/ S!WriteFails
      BY <3>3, ServerRunsSend, ServerFinishesWrite, ServerWriteFails
    <3>4. CASE \/ S!ReadHandshake \/ S!ReadHeader \/ S!ReadClose \/ S!ReadPing \/ S!ReadPong
               \/ S!ReadFragment \/ S!ReadMessage
      <4>1. \E kind : Reads("server", kind)
        BY <3>4, ServerReadsHandshake, ServerReadsHeader, ServerReadsClose, ServerReadsPing,
           ServerReadsPong, ServerReadsFragment, ServerReadsMessage
      <4>. QED  BY <4>1 DEF Reads, SocketKept
    <3>5. CASE S!WriteHandshake \/ S!WriteHeader \/ S!WriteContent
      BY <3>5, ServerWritesHandshake, ServerWritesHeader, ServerWritesContent DEF Writes, SocketKept
    <3>. QED
      BY <1>2, <3>1, <3>2, <3>3, <3>4, <3>5 DEF S!Next, S!Handlers, S!Handshake, S!Read, S!Writing
  <2>. QED  BY <2>1 DEF Severed, SocketKept, Closes, TcpOK, End
<1>. QED  BY <1>1, <1>2

LEMMA ClientSevers ==
  ASSUME TcpOK, ClientOK, C!Next, link # "client", Control
  PROVE  Severed => Severed'
<1>1. CASE C!Connect
  <2>1. socket["client"] = "none" /\ socket' = [socket EXCEPT !["client"] = "open"]
    BY <1>1, ClientConnects DEF Control, ClientLife
  <2>. QED  BY <2>1 DEF Severed, TcpOK, End
<1>2. CASE ~C!Connect
  <2>1. SocketKept \/ Closes("client")
    <3>1. CASE C!Start \/ C!Stop \/ C!AppSends \/ C!Resolve
      BY <3>1, ClientStarts, ClientStops, ClientSends, ClientResolves
    <3>2. CASE C!ConnectFails \/ C!Fails \/ C!ReadLength
      BY <3>2, ClientErrs, ClientReadsLength
    <3>3. CASE C!RunSend \/ C!FinishWrite \/ C!WriteFails
      BY <3>3, ClientRunsSend, ClientFinishesWrite, ClientWriteFails
    <3>4. CASE C!ReadHandshake
      BY <3>4, ClientReadsHandshake
    <3>5. CASE C!ReadHeader \/ C!ReadClose
      BY <3>5, ClientReadsHeader, ClientReadsClose DEF ClientCloses
    <3>6. CASE C!ReadPing \/ C!ReadPong \/ C!ReadFragment \/ C!ReadMessage
      <4>1. Reads("client", "content")
        BY <3>6, ClientReadsPing, ClientReadsPong, ClientReadsFragment, ClientReadsMessage
      <4>. QED  BY <4>1 DEF Reads, SocketKept
    <3>7. CASE C!WriteHandshake
      BY <3>7, ClientWritesHandshake
    <3>8. CASE C!WriteFrame
      <4>1. \E pieces : Writes("client", pieces)
        BY <3>8, ClientWritesFrame
      <4>. QED  BY <4>1 DEF Writes, SocketKept
    <3>. QED
      BY <1>2, <3>1, <3>2, <3>3, <3>4, <3>5, <3>6, <3>7, <3>8
         DEF C!Next, C!Handlers, C!Handshake, C!Read, C!Writing
  <2>. QED  BY <2>1 DEF Severed, SocketKept, Closes, TcpOK, End
<1>. QED  BY <1>1, <1>2

LEMMA ForeignSevers ==
  ASSUME TcpOK, Foreign \/ Break
  PROVE  Severed => Severed'
<1>1. CASE ForeignListens \/ ForeignTakes \/ ForeignRequests
  BY <1>1 DEF ForeignListens, ForeignTakes, ForeignRequests, Severed
<1>2. CASE ForeignAccepts \/ ForeignConnects
  BY <1>2 DEF ForeignAccepts, ForeignConnects, Severed, TcpOK, End
<1>3. CASE ForeignCloses
  BY <1>3 DEF ForeignCloses, Closed, Severed, TcpOK, End
<1>4. CASE ForeignSendsData \/ ForeignSendsControl
  BY <1>4 DEF ForeignSendsData, ForeignSendsControl, ForeignSends, Severed
<1>5. CASE Break
  BY <1>5 DEF Break, Severed, End
<1>. QED  BY <1>1, <1>2, <1>3, <1>4, <1>5 DEF Foreign

(* Sequences of pieces.                                                    *)
Whole(w) ==
  \A i \in 2..Len(w) :
    /\ w[i - 1].piece = "header" => w[i] = Content(w[i - 1].frame)
    /\ w[i].piece = "content" => w[i - 1] = Header(w[i].frame)

EndsWhole(w) == w # <<>> => w[Len(w)].piece # "header"

LEMMA WholeTail ==
  ASSUME NEW w \in Seq(Piece), w # <<>>, Whole(w)
  PROVE  /\ Whole(Tail(w))
         /\ Tail(w) # <<>> => Tail(w)[Len(Tail(w))] = w[Len(w)] /\ Tail(w)[1] = w[2] /\ Len(w) >= 2
         /\ EndsWhole(w) => EndsWhole(Tail(w))
<1>. DEFINE t == Tail(w)
<1>1. t \in Seq(Piece) /\ Len(w) \in Nat /\ Len(t) = Len(w) - 1 /\ \A i \in 1..Len(t) : t[i] = w[i + 1]
  OBVIOUS
<1>2. t # <<>> => Len(t) \in Nat /\ Len(t) # 0
  BY <1>1
<1>. HIDE DEF t
<1>3. Whole(t)
  <2>1. SUFFICES ASSUME NEW i \in 2..Len(t)
                 PROVE  /\ t[i - 1].piece = "header" => t[i] = Content(t[i - 1].frame)
                        /\ t[i].piece = "content" => t[i - 1] = Header(t[i].frame)
    BY DEF Whole
  <2>2. i \in Nat /\ i + 1 \in 2..Len(w) /\ i - 1 \in 1..Len(t) /\ i \in 1..Len(t)
    BY <1>1
  <2>3. t[i] = w[i + 1] /\ t[i - 1] = w[(i + 1) - 1]
    <3>1. t[i - 1] = w[(i - 1) + 1] /\ t[i] = w[i + 1]
      BY <1>1, <2>2
    <3>2. (i - 1) + 1 = (i + 1) - 1
      BY <2>2
    <3>. QED  BY <3>1, <3>2
  <2>. QED  BY <2>2, <2>3 DEF Whole
<1>4. t # <<>> => t[Len(t)] = w[Len(w)] /\ t[1] = w[2] /\ Len(w) >= 2
  <2>1. SUFFICES ASSUME t # <<>> PROVE t[Len(t)] = w[Len(w)] /\ t[1] = w[2] /\ Len(w) >= 2
    OBVIOUS
  <2>2. Len(t) \in 1..Len(t) /\ 1 \in 1..Len(t)
    BY <1>1, <1>2, <2>1
  <2>3. t[Len(t)] = w[Len(t) + 1] /\ t[1] = w[1 + 1] /\ Len(t) + 1 = Len(w)
    BY <1>1, <2>2
  <2>. QED  BY <1>1, <2>2, <2>3
<1>. QED  BY <1>3, <1>4 DEF t, EndsWhole

LEMMA WholeAppend ==
  ASSUME NEW w \in Seq(Piece), NEW p \in Piece, Whole(w),
         w # <<>> =>
           /\ w[Len(w)].piece = "header" => p = Content(w[Len(w)].frame)
           /\ p.piece = "content" => w[Len(w)] = Header(p.frame)
  PROVE  /\ Whole(Append(w, p))
         /\ Append(w, p) \in Seq(Piece) /\ Append(w, p) # <<>>
         /\ Append(w, p)[Len(Append(w, p))] = p
         /\ w # <<>> => Append(w, p)[1] = w[1]
         /\ w = <<>> => Append(w, p)[1] = p
<1>. DEFINE v == Append(w, p)
<1>1. /\ v \in Seq(Piece) /\ Len(w) \in Nat /\ Len(v) = Len(w) + 1
      /\ \A i \in 1..Len(w) : v[i] = w[i]
      /\ v[Len(w) + 1] = p
  OBVIOUS
<1>2. v # <<>>
  BY <1>1
<1>. HIDE DEF v
<1>3. Whole(v)
  <2>1. SUFFICES ASSUME NEW i \in 2..Len(v)
                 PROVE  /\ v[i - 1].piece = "header" => v[i] = Content(v[i - 1].frame)
                        /\ v[i].piece = "content" => v[i - 1] = Header(v[i].frame)
    BY DEF Whole
  <2>2. CASE i \in 2..Len(w)
    <3>1. i \in 1..Len(w) /\ i - 1 \in 1..Len(w)
      BY <1>1, <2>2
    <3>2. v[i] = w[i] /\ v[i - 1] = w[i - 1]
      BY <1>1, <3>1
    <3>. QED  BY <2>2, <3>2 DEF Whole
  <2>3. CASE i = Len(w) + 1
    <3>1. i - 1 = Len(w) /\ Len(w) \in 1..Len(w) /\ w # <<>>
      BY <1>1, <2>3
    <3>2. v[i] = p /\ v[i - 1] = w[Len(w)]
      BY <1>1, <2>3, <3>1
    <3>. QED  BY <3>1, <3>2
  <2>. QED  BY <1>1, <2>2, <2>3
<1>4. w # <<>> => v[1] = w[1]
  <2>1. w # <<>> => 1 \in 1..Len(w)
    BY <1>1
  <2>. QED  BY <1>1, <2>1
<1>5. w = <<>> => v[1] = p
  <2>1. w = <<>> => Len(w) = 0
    OBVIOUS
  <2>. QED  BY <1>1, <2>1
<1>. QED  BY <1>1, <1>2, <1>3, <1>4, <1>5 DEF v

LEMMA WholeWritten ==
  ASSUME NEW w \in Seq(Piece), NEW f \in AnyFrame, Whole(w)
  PROVE  /\ EndsWhole(w) =>
              /\ Whole(w \o <<Header(f)>>)
              /\ (w \o <<Header(f)>>)[Len(w \o <<Header(f)>>)] = Header(f)
              /\ Whole(w \o <<Header(f), Content(f)>>)
              /\ EndsWhole(w \o <<Header(f), Content(f)>>)
         /\ w # <<>> =>
              /\ (w \o <<Header(f)>>)[1] = w[1] /\ w \o <<Header(f)>> # <<>>
              /\ (w \o <<Content(f)>>)[1] = w[1] /\ w \o <<Content(f)>> # <<>>
              /\ (w \o <<Header(f), Content(f)>>)[1] = w[1] /\ w \o <<Header(f), Content(f)>> # <<>>
         /\ w = <<>> => (w \o <<Content(f)>>)[1] = Content(f)
         /\ w = <<>> \/ w[Len(w)] = Header(f) =>
              Whole(w \o <<Content(f)>>) /\ EndsWhole(w \o <<Content(f)>>)
<1>. DEFINE h == Header(f)
            c == Content(f)
            wh == Append(w, h)
            whc == Append(wh, c)
            wc == Append(w, c)
<1>1. h \in Piece /\ c \in Piece
  BY Pieces
<1>2. w \o <<h>> = wh /\ w \o <<c>> = wc /\ w \o <<h, c>> = whc
  BY <1>1
<1>3. h.piece = "header" /\ h.frame = f /\ c.piece = "content" /\ c.frame = f
  BY DEF Header, Content
<1>4. h = Header(f) /\ c = Content(f)
  OBVIOUS
<1>. HIDE DEF h, c
<1>5. ASSUME EndsWhole(w)
      PROVE  Whole(wh) /\ wh[Len(wh)] = h /\ Whole(whc) /\ EndsWhole(whc)
  <2>1. w # <<>> => w[Len(w)].piece # "header"
    BY <1>5 DEF EndsWhole
  <2>2. Whole(wh) /\ wh \in Seq(Piece) /\ wh # <<>> /\ wh[Len(wh)] = h
    BY <1>1, <1>3, <2>1, WholeAppend
  <2>3. wh[Len(wh)].frame = f
    BY <1>3, <2>2
  <2>. HIDE DEF wh
  <2>4. Whole(whc) /\ whc[Len(whc)] = c
    BY <1>1, <1>3, <1>4, <2>2, <2>3, WholeAppend
  <2>. QED  BY <1>3, <2>2, <2>4 DEF EndsWhole
<1>6. ASSUME w # <<>>
      PROVE  /\ wh[1] = w[1] /\ wh # <<>> /\ wc[1] = w[1] /\ wc # <<>>
             /\ whc[1] = w[1] /\ whc # <<>>
  <2>1. \A p \in Piece, v \in Seq(Piece) : v # <<>> => Append(v, p) # <<>> /\ Append(v, p)[1] = v[1] /\ Append(v, p) \in Seq(Piece)
    OBVIOUS
  <2>2. wh[1] = w[1] /\ wh # <<>> /\ wc[1] = w[1] /\ wc # <<>> /\ wh \in Seq(Piece)
    BY <1>1, <1>6, <2>1
  <2>. HIDE DEF wh
  <2>. QED  BY <1>1, <2>1, <2>2
<1>7. w = <<>> => wc[1] = c
  OBVIOUS
<1>8. ASSUME w = <<>> \/ w[Len(w)] = h
      PROVE  Whole(wc) /\ EndsWhole(wc)
  <2>1. Whole(wc) /\ wc[Len(wc)] = c
    BY <1>1, <1>3, <1>4, <1>8, WholeAppend
  <2>. QED  BY <1>3, <2>1 DEF EndsWhole
<1>9. w \o <<Header(f)>> = wh /\ w \o <<Content(f)>> = wc /\ w \o <<Header(f), Content(f)>> = whc
  BY <1>2, <1>4
<1>. HIDE DEF wh, wc, whc
<1>. QED  BY <1>4, <1>5, <1>6, <1>7, <1>8, <1>9

(* A request or a response comes after a whole frame.                      *)
LEMMA WholeSpoken ==
  ASSUME NEW w \in Seq(Piece), NEW p \in Piece, p.piece \in {"request", "response"},
         Whole(w), EndsWhole(w)
  PROVE  /\ Whole(Append(w, p)) /\ EndsWhole(Append(w, p))
         /\ w # <<>> => Append(w, p)[1] = w[1] /\ Append(w, p) # <<>>
         /\ w \o <<p>> = Append(w, p)
<1>1. w # <<>> => w[Len(w)].piece # "header"
  BY DEF EndsWhole
<1>2. /\ Whole(Append(w, p)) /\ Append(w, p)[Len(Append(w, p))] = p
      /\ w # <<>> => Append(w, p)[1] = w[1] /\ Append(w, p) # <<>>
  BY <1>1, WholeAppend
<1>3. w \o <<p>> = Append(w, p)
  OBVIOUS
<1>. QED  BY <1>2, <1>3 DEF EndsWhole

ServerWire == Whole(wire["server"]) /\ EndsWhole(wire["server"])

(* A header that the server has written waits for its content.             *)
ClientWire ==
  /\ Whole(wire["client"])
  /\ ~Severed /\ wire["client"] # <<>> =>
       IF server.writing = "header"
       THEN wire["client"][Len(wire["client"])] = Header(server.send_queue[1])
       ELSE wire["client"][Len(wire["client"])].piece # "header"

ServerReading ==
  server.phase \in {"length", "content"} =>
    /\ server.frame.masked = TRUE
    /\ wire["server"] # <<>> /\ wire["server"][1] = Content(server.frame)

ClientReading ==
  client.phase \in {"length", "content"} =>
    /\ client.frame.masked = FALSE
    /\ wire["client"] # <<>> => wire["client"][1] = Content(client.frame)
    /\ wire["client"] = <<>> /\ ~Severed =>
         link = "simple" /\ server.writing = "header" /\ server.send_queue[1] = client.frame

Shape == ServerWire /\ ClientWire /\ ServerReading /\ ClientReading

LEMMA ServerShapeStill ==
  ASSUME Shape, wire' = wire, client' = client, link' = link, Severed => Severed',
         server'.writing = server.writing, server'.send_queue = server.send_queue,
         server'.phase \in {"length", "content"} =>
           server.phase \in {"length", "content"} /\ server'.frame = server.frame
  PROVE  Shape'
  BY DEF Shape, ServerWire, ClientWire, ServerReading, ClientReading, Whole, EndsWhole

LEMMA ServerShapeReads ==
  ASSUME TcpOK, Shape, client' = client, link' = link, Severed => Severed',
         wire["server"] # <<>>, wire' = [wire EXCEPT !["server"] = Tail(@)],
         server'.writing = server.writing, server'.send_queue = server.send_queue,
         server'.phase \in {"length", "content"} =>
           /\ server'.frame = wire["server"][1].frame /\ wire["server"][1].piece = "header"
           /\ server'.frame.masked = TRUE
  PROVE  Shape'
<1>. DEFINE w == wire["server"]
<1>1. w \in Seq(Piece) /\ wire'["server"] = Tail(w) /\ wire'["client"] = wire["client"]
  BY DEF TcpOK, End
<1>2. Whole(w) /\ EndsWhole(w) /\ w # <<>>
  BY DEF Shape, ServerWire
<1>. HIDE DEF w
<1>3. /\ Whole(Tail(w)) /\ EndsWhole(Tail(w))
      /\ Tail(w) # <<>> => Tail(w)[1] = w[2] /\ Len(w) >= 2
  BY <1>1, <1>2, WholeTail
<1>4. ServerWire'
  BY <1>1, <1>3 DEF ServerWire
<1>5. ClientWire' /\ ClientReading'
  BY <1>1 DEF Shape, ClientWire, ClientReading
<1>6. ASSUME w[1].piece = "header"
      PROVE  Tail(w) # <<>> /\ Tail(w)[1] = Content(w[1].frame)
  <2>1. Len(w) \in Nat /\ Len(w) # 0
    BY <1>1, <1>2
  <2>2. Len(w) # 1
    BY <1>2, <1>6 DEF EndsWhole
  <2>3. 2 \in 2..Len(w)
    <3>1. \A n \in Nat : n # 0 /\ n # 1 => 2 \in 2..n /\ n > 1
      OBVIOUS
    <3>. QED  BY <2>1, <2>2, <3>1
  <2>4. w[2 - 1].piece = "header" => w[2] = Content(w[2 - 1].frame)
    BY <1>2, <2>3 DEF Whole
  <2>5. Tail(w) # <<>>
    <3>1. \A n \in Nat : n # 0 /\ n # 1 => n > 1
      OBVIOUS
    <3>2. Len(w) > 1
      BY <2>1, <2>2, <3>1
    <3>. QED  BY <1>1, <1>2, <3>2, FirstOf
  <2>. QED  BY <1>3, <1>6, <2>4, <2>5
<1>7. ServerReading'
  BY <1>1, <1>6 DEF ServerReading, w
<1>. QED  BY <1>4, <1>5, <1>7 DEF Shape

(* The queue of writes moves on, and nothing is written.                   *)
LEMMA ServerShapeQueues ==
  ASSUME Shape, wire' = wire, client' = client, link' = link, Severed => Severed',
         server'.phase = server.phase, server'.frame = server.frame,
         ~Severed => /\ server.writing = "header" <=> server'.writing = "header"
                     /\ server.writing = "header" => server'.send_queue[1] = server.send_queue[1]
  PROVE  Shape'
<1>1. ServerWire' /\ ServerReading'
  BY DEF Shape, ServerWire, ServerReading, Whole, EndsWhole
<1>2. ClientWire'
  BY DEF Shape, ClientWire, Whole
<1>3. ClientReading'
  BY DEF Shape, ClientReading
<1>. QED  BY <1>1, <1>2, <1>3 DEF Shape

(* What the server writes is lost on a peer that has gone.                 *)
LEMMA ServerWrites ==
  ASSUME TcpOK, Connected, NEW pieces, Writes("server", pieces)
  PROVE  /\ socket' = socket /\ wire'["server"] = wire["server"]
         /\ Severed' <=> Severed
         /\ \/ Severed /\ wire'["client"] = wire["client"]
            \/ ~Severed /\ wire'["client"] = wire["client"] \o pieces
  BY DEF TcpOK, Connected, Writes, Peer, Severed, End

LEMMA ServerShape ==
  ASSUME TcpOK, ServerOK, S!Next, link # "server", Control, Shape,
         client' = client, foreign' = foreign, link' = link
  PROVE  Shape'
<1>1. Severed => Severed'
  BY ServerSevers
<1>2. ServerLife /\ ServerWire /\ ClientWire /\ ServerReading /\ ClientReading
  BY DEF Control, Shape
<1>3. CASE \/ S!Start \/ S!Stop \/ S!StopService \/ S!TimerExpires \/ S!TimerCloses \/ S!AppSends
           \/ S!Exit \/ S!Release
  <2>1. /\ wire' = wire
        /\ Kept(server, server', {"service", "connection", "armed", "queued", "posted", "sent"})
    BY <1>3, ServerStarts, ServerStops, ServerStopsService, ServerTimerExpires, ServerTimerCloses,
       ServerSends, ServerExits, ServerReleases DEF Kept, WireKept
  <2>2. /\ server'.writing = server.writing /\ server'.send_queue = server.send_queue
        /\ server'.phase = server.phase /\ server'.frame = server.frame
    BY <2>1, ServerKeeps
  <2>. QED  BY <1>1, <2>1, <2>2, ServerShapeStill
<1>4. CASE S!Accept \/ S!ReadHandshakeFails \/ S!WriteHandshakeFails \/ S!ReadFails \/ S!Open
  <2>1. /\ wire' = wire /\ server'.phase \notin {"length", "content"}
        /\ Kept(server, server', {"service", "phase", "armed", "connection", "opened", "ended"})
    BY <1>4, ServerAccepts, ServerReadHandshakeFails, ServerErrs, ServerOpens DEF Kept, WireKept
  <2>2. server'.writing = server.writing /\ server'.send_queue = server.send_queue
    BY <2>1, ServerKeeps
  <2>. QED  BY <1>1, <2>1, <2>2, ServerShapeStill
<1>5. CASE S!ReadLength
  <2>1. wire' = wire /\ Kept(server, server', {"phase"}) /\ server.phase = "length"
    BY <1>5, ServerReadsLength DEF WireKept
  <2>2. /\ server'.writing = server.writing /\ server'.send_queue = server.send_queue
        /\ server'.frame = server.frame
    BY <2>1, ServerKeeps
  <2>. QED  BY <1>1, <2>1, <2>2, ServerShapeStill
<1>6. CASE S!ReadHandshake \/ S!ReadPing \/ S!ReadPong \/ S!ReadFragment \/ S!ReadMessage
  <2>1. /\ wire["server"] # <<>> /\ wire' = [wire EXCEPT !["server"] = Tail(@)]
        /\ server'.phase \notin {"length", "content"}
        /\ Kept(server, server', {"phase", "armed", "posted", "fragmented_message", "received"})
    BY <1>6, ServerReadsHandshake, ServerReadsPing, ServerReadsPong,
       ServerReadsFragment, ServerReadsMessage DEF Reads, Kept
  <2>2. server'.writing = server.writing /\ server'.send_queue = server.send_queue
    BY <2>1, ServerKeeps
  <2>. QED  BY <1>1, <2>1, <2>2, ServerShapeReads
<1>7. ASSUME server' = S!ConnectionClose(S!SendClose(server))
      PROVE  /\ server'.phase \notin {"length", "content"}
             /\ server'.writing = server.writing /\ server'.send_queue = server.send_queue
  BY <1>7, ServerSendsClose, ServerKeeps
<1>8. CASE S!ReadClose
  <2>1. wire["server"] # <<>> /\ wire' = [wire EXCEPT !["server"] = Tail(@)]
    BY <1>8, ServerReadsClose DEF Reads
  <2>. QED  BY <1>1, <1>7, <1>8, <2>1, ServerReadsClose, ServerShapeReads
<1>9. CASE S!ReadHeader
  <2>1. /\ wire["server"] # <<>> /\ wire' = [wire EXCEPT !["server"] = Tail(@)]
        /\ wire["server"][1].piece = "header"
    BY <1>9, ServerReadsHeader DEF Reads
  <2>2. wire["server"][1].frame \in AnyFrame
    BY <2>1 DEF TcpOK, Piece, End
  <2>3. CASE /\ Kept(server, server', {"phase", "frame"})
             /\ server'.frame = wire["server"][1].frame /\ server'.frame.masked
    <3>1. server'.frame.masked = TRUE
      BY <2>2, <2>3 DEF AnyFrame
    <3>2. server'.writing = server.writing /\ server'.send_queue = server.send_queue
      BY <2>3, ServerKeeps
    <3>. QED  BY <1>1, <2>1, <2>3, <3>1, <3>2, ServerShapeReads
  <2>. QED  BY <1>1, <1>7, <1>9, <2>1, <2>3, ServerReadsHeader, ServerShapeReads
<1>10. CASE S!RunSend
  <2>1. /\ Kept(server, server', {"posted", "send_queue", "writing"}) /\ wire' = wire
        /\ server.posted # <<>>
        /\ server'.send_queue = Append(server.send_queue, server.posted[1])
        /\ server'.writing = IF server.send_queue = <<>> THEN "posted" ELSE server.writing
    BY <1>10, ServerRunsSend DEF WireKept
  <2>2. /\ server.send_queue \in Seq(ServerFrame) /\ server.posted \in Seq(ServerFrame)
        /\ server.writing = "none" <=> server.send_queue = <<>>
    BY DEF ServerOK, ConnectionOK
  <2>3. server.send_queue # <<>> => server'.send_queue[1] = server.send_queue[1]
    <3>1. server.posted[1] \in ServerFrame
      BY <2>1, <2>2, FirstOf
    <3>2. \A q \in Seq(ServerFrame), f \in ServerFrame : q # <<>> => Append(q, f)[1] = q[1]
      OBVIOUS
    <3>. QED  BY <2>1, <2>2, <3>1, <3>2
  <2>4. server'.phase = server.phase /\ server'.frame = server.frame
    BY <2>1, ServerKeeps
  <2>. QED  BY <1>1, <2>1, <2>2, <2>3, <2>4, ServerShapeQueues
<1>11. CASE S!FinishWrite
  <2>1. /\ Kept(server, server', {"send_queue", "writing"}) /\ wire' = wire
        /\ server.writing = "content" /\ server'.writing \in {"posted", "none"}
    BY <1>11, ServerFinishesWrite DEF WireKept
  <2>2. server'.phase = server.phase /\ server'.frame = server.frame
    BY <2>1, ServerKeeps
  <2>. QED  BY <1>1, <2>1, <2>2, ServerShapeQueues
<1>12. server.writing # "none" => Connected
  BY <1>2 DEF ServerLife, ServerQuiet
<1>13. CASE S!WriteFails
  <2>1. /\ Kept(server, server', {"send_queue", "writing"}) /\ wire' = wire
        /\ server.writing # "none"
        /\ socket["server"] # "open" \/ socket["client"] \in {"closed", "broken"}
    BY <1>13, ServerWriteFails DEF WireKept
  <2>2. server'.phase = server.phase /\ server'.frame = server.frame
    BY <2>1, ServerKeeps
  <2>3. Severed
    BY <1>12, <2>1 DEF Connected, Severed, TcpOK, End
  <2>. QED  BY <1>1, <2>1, <2>2, <2>3, ServerShapeQueues
<1>14. link # "client" \/ client.phase = "none"
  BY DEF Control, ClientLife, C!Init
<1>15. CASE S!WriteHandshake
  <2>1. /\ Kept(server, server', {"phase"})
        /\ server.phase = "writeHandshake" /\ server'.phase = "opening"
        /\ Writes("server", <<Response(TRUE)>>)
    BY <1>15, ServerWritesHandshake
  <2>2. server'.writing = server.writing /\ server'.send_queue = server.send_queue
    BY <2>1, ServerKeeps
  <2>3. Connected /\ wire["client"] = <<>> /\ server.writing = "none"
    BY <1>2, <2>1 DEF ServerLife, ServerQuiet
  <2>4. /\ wire'["server"] = wire["server"]
        /\ Severed' <=> Severed
        /\ \/ Severed /\ wire'["client"] = wire["client"]
           \/ ~Severed /\ wire'["client"] = wire["client"] \o <<Response(TRUE)>>
    BY <2>1, <2>3, ServerWrites
  <2>5. wire["client"] \o <<Response(TRUE)>> = <<Response(TRUE)>>
    <3>1. Response(TRUE) \in Piece
      BY Pieces
    <3>2. \A p \in Piece : <<>> \o <<p>> = <<p>>
      OBVIOUS
    <3>. QED  BY <2>3, <3>1, <3>2
  <2>6. Whole(<<Response(TRUE)>>) /\ <<Response(TRUE)>>[Len(<<Response(TRUE)>>)].piece # "header"
    BY DEF Whole, Response
  <2>7. ServerWire' /\ ServerReading'
    BY <1>2, <2>1, <2>4 DEF ServerWire, ServerReading
  <2>8. ClientWire'
    <3>1. server'.writing # "header"
      BY <2>2, <2>3
    <3>. QED  BY <1>2, <2>4, <2>5, <2>6, <3>1 DEF ClientWire
  <2>9. ClientReading'
    BY <1>2, <2>2, <2>3, <2>4 DEF ClientReading
  <2>. QED  BY <2>7, <2>8, <2>9 DEF Shape
<1>16. ASSUME NEW from, NEW to, NEW piece, from # "none",
              Kept(server, server', {"writing"}), server.writing = from, server'.writing = to,
              Writes("server", <<piece>>)
       PROVE  /\ server.send_queue # <<>> /\ server.send_queue[1] \in AnyFrame
              /\ server'.send_queue = server.send_queue
              /\ wire["client"] \in Seq(Piece)
              /\ ServerWire' /\ ServerReading'
              /\ Severed' <=> Severed
              /\ \/ Severed /\ wire'["client"] = wire["client"] /\ Shape'
                 \/ ~Severed /\ wire'["client"] = wire["client"] \o <<piece>>
  <2>1. /\ server'.phase = server.phase /\ server'.send_queue = server.send_queue
        /\ server'.frame = server.frame
    BY <1>16, ServerKeeps
  <2>2. /\ wire'["server"] = wire["server"]
        /\ Severed' <=> Severed
        /\ \/ Severed /\ wire'["client"] = wire["client"]
           \/ ~Severed /\ wire'["client"] = wire["client"] \o <<piece>>
    BY <1>12, <1>16, ServerWrites
  <2>3. ServerWire' /\ ServerReading'
    BY <1>2, <2>1, <2>2 DEF ServerWire, ServerReading
  <2>4. ASSUME Severed, wire'["client"] = wire["client"]
        PROVE  Shape'
    BY <1>2, <2>2, <2>3, <2>4 DEF Shape, ClientWire, ClientReading
  <2>5. server.send_queue # <<>> /\ server.send_queue \in Seq(ServerFrame)
    BY <1>16 DEF ServerOK, ConnectionOK
  <2>6. server.send_queue[1] \in AnyFrame
    BY <2>5, FirstOf, OwnFrames
  <2>7. wire["client"] \in Seq(Piece)
    BY DEF TcpOK, End
  <2>. QED  BY <2>1, <2>2, <2>3, <2>4, <2>5, <2>6, <2>7
<1>17. CASE S!WriteHeader
  <2>. DEFINE f == server.send_queue[1]
              w == wire["client"]
  <2>1. /\ Kept(server, server', {"writing"}) /\ server.writing = "posted" /\ server'.writing = "header"
        /\ Writes("server", <<Header(f)>>)
    BY <1>17, ServerWritesHeader
  <2>2. /\ f \in AnyFrame /\ server'.send_queue = server.send_queue /\ w \in Seq(Piece)
        /\ ServerWire' /\ ServerReading' /\ (Severed' <=> Severed)
        /\ \/ Severed /\ wire'["client"] = w /\ Shape'
           \/ ~Severed /\ wire'["client"] = w \o <<Header(f)>>
    BY <1>16, <2>1
  <2>. HIDE DEF f
  <2>3. ASSUME ~Severed, wire'["client"] = w \o <<Header(f)>>
        PROVE  Shape'
    <3>1. Whole(w) /\ EndsWhole(w)
      BY <1>2, <2>1, <2>3 DEF ClientWire, EndsWhole
    <3>2. /\ Whole(w \o <<Header(f)>>)
          /\ (w \o <<Header(f)>>)[Len(w \o <<Header(f)>>)] = Header(f)
          /\ w # <<>> => (w \o <<Header(f)>>)[1] = w[1] /\ w \o <<Header(f)>> # <<>>
      BY <2>2, <3>1, WholeWritten
    <3>3. ClientWire'
      <4>1. server'.writing = "header" /\ server'.send_queue[1] = f
        BY <2>1, <2>2 DEF f
      <4>. QED  BY <2>3, <3>2, <4>1 DEF ClientWire
    <3>4. ClientReading'
      <4>1. client.phase \in {"length", "content"} => w # <<>>
        BY <1>2, <2>1, <2>3 DEF ClientReading
      <4>. QED  BY <1>2, <2>3, <3>2, <4>1 DEF ClientReading
    <3>6. ServerWire' /\ ServerReading'
      BY <2>2
    <3>. QED  BY <3>6, <3>3, <3>4 DEF Shape
  <2>. QED  BY <2>2, <2>3
<1>18. CASE S!WriteContent
  <2>. DEFINE f == server.send_queue[1]
              w == wire["client"]
  <2>1. /\ Kept(server, server', {"writing"}) /\ server.writing = "header" /\ server'.writing = "content"
        /\ Writes("server", <<Content(f)>>)
    BY <1>18, ServerWritesContent
  <2>2. /\ f \in AnyFrame /\ server'.send_queue = server.send_queue /\ w \in Seq(Piece)
        /\ ServerWire' /\ ServerReading' /\ (Severed' <=> Severed)
        /\ \/ Severed /\ wire'["client"] = w /\ Shape'
           \/ ~Severed /\ wire'["client"] = w \o <<Content(f)>>
    BY <1>16, <2>1
  <2>3. ASSUME ~Severed, wire'["client"] = w \o <<Content(f)>>
        PROVE  Shape'
    <3>1. Whole(w) /\ (w = <<>> \/ w[Len(w)] = Header(f))
      BY <1>2, <2>1, <2>3 DEF ClientWire
    <3>2. /\ Whole(w \o <<Content(f)>>) /\ EndsWhole(w \o <<Content(f)>>)
          /\ w # <<>> => (w \o <<Content(f)>>)[1] = w[1] /\ w \o <<Content(f)>> # <<>>
          /\ w = <<>> => (w \o <<Content(f)>>)[1] = Content(f)
      BY <2>2, <3>1, WholeWritten
    <3>3. ClientWire'
      BY <2>1, <2>3, <3>2 DEF ClientWire, EndsWhole
    <3>4. w \o <<Content(f)>> # <<>>
      <4>1. Content(f) \in Piece
        BY <2>2, Pieces
      <4>2. \A v \in Seq(Piece), p \in Piece : v \o <<p>> # <<>>
        OBVIOUS
      <4>. QED  BY <2>2, <4>1, <4>2
    <3>5. ClientReading'
      <4>1. client.phase \in {"length", "content"} /\ w = <<>> => f = client.frame
        BY <1>2, <2>3 DEF ClientReading
      <4>. QED  BY <1>2, <2>3, <3>2, <3>4, <4>1 DEF ClientReading
    <3>6. ServerWire' /\ ServerReading'
      BY <2>2
    <3>. QED  BY <3>6, <3>3, <3>5 DEF Shape
  <2>. QED  BY <2>2, <2>3
<1>. QED
  BY <1>3, <1>4, <1>5, <1>6, <1>8, <1>9, <1>10, <1>11, <1>13, <1>15, <1>17, <1>18
     DEF S!Next, S!Handlers, S!Handshake, S!Read, S!Writing

LEMMA ClientShapeStill ==
  ASSUME Shape, wire' = wire, server' = server, link' = link, Severed => Severed',
         client'.phase \in {"length", "content"} =>
           client.phase \in {"length", "content"} /\ client'.frame = client.frame
  PROVE  Shape'
<1>1. ServerWire' /\ ServerReading'
  BY DEF Shape, ServerWire, ServerReading, Whole, EndsWhole
<1>2. ClientWire'
  BY DEF Shape, ClientWire, Whole
<1>3. ClientReading'
  BY DEF Shape, ClientReading
<1>. QED  BY <1>1, <1>2, <1>3 DEF Shape

LEMMA ClientShapeReads ==
  ASSUME TcpOK, ServerLife, Shape, server' = server, link' = link, link # "client", Severed => Severed',
         wire["client"] # <<>>, wire' = [wire EXCEPT !["client"] = Tail(@)],
         client'.phase \in {"length", "content"} =>
           /\ client'.frame = wire["client"][1].frame /\ wire["client"][1].piece = "header"
           /\ client'.frame.masked = FALSE
  PROVE  Shape'
<1>. DEFINE w == wire["client"]
<1>1. w \in Seq(Piece) /\ wire'["client"] = Tail(w) /\ wire'["server"] = wire["server"]
  BY DEF TcpOK, End
<1>2. Whole(w) /\ w # <<>>
  BY DEF Shape, ClientWire
<1>. HIDE DEF w
<1>3. /\ Whole(Tail(w))
      /\ Tail(w) # <<>> => Tail(w)[Len(Tail(w))] = w[Len(w)] /\ Tail(w)[1] = w[2] /\ Len(w) >= 2
  BY <1>1, <1>2, WholeTail
<1>4. ServerWire' /\ ServerReading'
  BY <1>1 DEF Shape, ServerWire, ServerReading
<1>5. ~Severed =>
        IF server.writing = "header" THEN w[Len(w)] = Header(server.send_queue[1])
        ELSE w[Len(w)].piece # "header"
  BY <1>2 DEF Shape, ClientWire, w
<1>6. ClientWire'
  BY <1>1, <1>2, <1>3, <1>5 DEF ClientWire
<1>7. ASSUME w[1].piece = "header"
      PROVE  /\ Tail(w) # <<>> => Tail(w)[1] = Content(w[1].frame)
             /\ Tail(w) = <<>> /\ ~Severed =>
                  link = "simple" /\ server.writing = "header" /\ server.send_queue[1] = w[1].frame
  <2>1. ASSUME Tail(w) # <<>>
        PROVE  Tail(w)[1] = Content(w[1].frame)
    <3>1. 2 \in 2..Len(w)
      BY <1>1, <1>3, <2>1
    <3>2. w[2 - 1].piece = "header" => w[2] = Content(w[2 - 1].frame)
      BY <1>2, <3>1 DEF Whole
    <3>. QED  BY <1>3, <1>7, <2>1, <3>2
  <2>2. ASSUME Tail(w) = <<>>, ~Severed
        PROVE  link = "simple" /\ server.writing = "header" /\ server.send_queue[1] = w[1].frame
    <3>1. Len(w) = 1
      <4>1. Len(w) \in Nat \ {0} /\ ~(Len(w) > 1)
        BY <1>1, <1>2, <2>2, FirstOf
      <4>2. \A n \in Nat \ {0} : ~(n > 1) => n = 1
        OBVIOUS
      <4>. QED  BY <4>1, <4>2
    <3>2. server.writing = "header" /\ w[1] = Header(server.send_queue[1])
      BY <1>5, <1>7, <2>2, <3>1
    <3>3. link # "server"
      BY <3>2 DEF ServerLife, S!Init
    <3>. QED  BY <3>2, <3>3 DEF TcpOK, Link, Header
  <2>. QED  BY <2>1, <2>2
<1>8. ClientReading'
  <2>1. SUFFICES ASSUME client'.phase \in {"length", "content"}
                 PROVE  /\ client'.frame.masked = FALSE
                        /\ Tail(w) # <<>> => Tail(w)[1] = Content(client'.frame)
                        /\ Tail(w) = <<>> /\ ~Severed' =>
                             /\ link' = "simple" /\ server'.writing = "header"
                             /\ server'.send_queue[1] = client'.frame
    BY <1>1 DEF ClientReading
  <2>2. w[1].piece = "header" /\ client'.frame = w[1].frame /\ client'.frame.masked = FALSE
    BY <2>1 DEF w
  <2>. QED  BY <1>7, <2>2
<1>. QED  BY <1>4, <1>6, <1>8 DEF Shape

LEMMA ClientShape ==
  ASSUME TcpOK, ClientOK, C!Next, link # "client", Control, Shape,
         server' = server, foreign' = foreign, link' = link
  PROVE  Shape'
<1>1. Severed => Severed'
  BY ClientSevers
<1>2. /\ ServerLife /\ ClientLife /\ NothingYet
      /\ ServerWire /\ ClientWire /\ ServerReading /\ ClientReading
  BY DEF Control, Shape
<1>3. CASE C!Start \/ C!Resolve \/ C!Connect \/ C!ConnectFails \/ C!Fails
  <2>1. wire' = wire /\ client'.phase \notin {"length", "content"}
    BY <1>3, ClientStarts, ClientResolves, ClientConnects, ClientErrs DEF WireKept
  <2>. QED  BY <1>1, <2>1, ClientShapeStill
<1>4. CASE \/ C!Stop \/ C!AppSends \/ C!RunSend \/ C!FinishWrite \/ C!WriteFails
  <2>1. /\ wire' = wire
        /\ Kept(client, client', {"service", "posted", "sent", "send_queue", "writing"})
    BY <1>4, ClientStops, ClientSends, ClientRunsSend, ClientFinishesWrite,
       ClientWriteFails DEF Kept, WireKept
  <2>2. client'.frame = client.frame /\ client'.phase = client.phase
    BY <2>1, ClientKeeps
  <2>. QED  BY <1>1, <2>1, <2>2, ClientShapeStill
<1>11. CASE C!ReadLength
  <2>1. wire' = wire /\ Kept(client, client', {"phase"}) /\ client.phase = "length"
    BY <1>11, ClientReadsLength DEF WireKept
  <2>2. client'.frame = client.frame
    BY <2>1, ClientKeeps
  <2>. QED  BY <1>1, <2>1, <2>2, ClientShapeStill
<1>5. CASE C!ReadHandshake \/ C!ReadPing \/ C!ReadPong \/ C!ReadFragment \/ C!ReadMessage
  <2>1. /\ wire["client"] # <<>> /\ wire' = [wire EXCEPT !["client"] = Tail(@)]
        /\ client'.phase \notin {"length", "content"}
    BY <1>5, ClientReadsHandshake, ClientReadsPing, ClientReadsPong, ClientReadsFragment,
       ClientReadsMessage DEF Reads
  <2>. QED  BY <1>1, <1>2, <2>1, ClientShapeReads
<1>6. CASE C!ReadClose
  <2>1. /\ wire["client"] # <<>> /\ wire' = [wire EXCEPT !["client"] = Tail(@)]
        /\ client'.phase \notin {"length", "content"}
    BY <1>6, ClientReadsClose DEF ClientCloses
  <2>. QED  BY <1>1, <1>2, <2>1, ClientShapeReads
<1>7. CASE C!ReadHeader
  <2>1. /\ wire["client"] # <<>> /\ wire["client"][1].piece = "header"
        /\ wire' = [wire EXCEPT !["client"] = Tail(@)]
        /\ \/ client'.phase \notin {"length", "content"}
           \/ client'.frame = wire["client"][1].frame /\ ~client'.frame.masked
    BY <1>7, ClientReadsHeader DEF ClientCloses
  <2>2. wire["client"][1].frame \in AnyFrame
    BY <2>1 DEF TcpOK, Piece, End
  <2>3. client'.phase \in {"length", "content"} => client'.frame.masked = FALSE
    BY <2>1, <2>2 DEF AnyFrame
  <2>. QED  BY <1>1, <1>2, <2>1, <2>3, ClientShapeReads
<1>8. ASSUME NEW v \in Seq(Piece), wire' = [wire EXCEPT !["server"] = v],
             Whole(v), EndsWhole(v),
             wire["server"] # <<>> => v # <<>> /\ v[1] = wire["server"][1],
             \/ client'.phase = client.phase /\ client'.frame = client.frame
             \/ client'.phase \notin {"length", "content"}
      PROVE  Shape'
  <2>1. wire'["server"] = v /\ wire'["client"] = wire["client"]
    BY <1>8 DEF TcpOK, End
  <2>2. ServerWire'
    BY <1>8, <2>1 DEF ServerWire
  <2>3. ClientWire'
    BY <1>1, <1>2, <2>1 DEF ClientWire
  <2>4. ServerReading'
    BY <1>2, <1>8, <2>1 DEF ServerReading
  <2>5. ClientReading'
    BY <1>1, <1>2, <1>8, <2>1 DEF ClientReading
  <2>. QED  BY <2>2, <2>3, <2>4, <2>5 DEF Shape
<1>9. CASE C!WriteHandshake
  <2>1. /\ client.phase = "writeHandshake" /\ client'.phase = "readHandshake"
        /\ wire' = [wire EXCEPT !["server"] = Append(@, Request(TRUE))]
    BY <1>9, ClientWritesHandshake
  <2>2. wire["server"] \in Seq(Piece) /\ Request(TRUE) \in Piece
    BY Pieces DEF TcpOK, End
  <2>. DEFINE v == Append(wire["server"], Request(TRUE))
  <2>3. v \in Seq(Piece) /\ wire' = [wire EXCEPT !["server"] = v]
    BY <2>1, <2>2, Appended DEF TcpOK, End
  <2>4. Request(TRUE).piece \in {"request", "response"}
    BY DEF Request
  <2>5. Whole(v) /\ EndsWhole(v) /\ (wire["server"] # <<>> => v # <<>> /\ v[1] = wire["server"][1])
    BY <1>2, <2>2, <2>4, WholeSpoken DEF ServerWire
  <2>. HIDE DEF v
  <2>. QED  BY <1>8, <2>1, <2>3, <2>5
<1>10. CASE C!WriteFrame
  <2>. DEFINE f == client.send_queue[1]
              v == wire["server"] \o <<Header(f), Content(f)>>
  <2>1. /\ Kept(client, client', {"writing"}) /\ client.writing = "posted"
        /\ Writes("client", <<Header(f), Content(f)>>)
    BY <1>10, ClientWritesFrame
  <2>2. client'.phase = client.phase /\ client'.frame = client.frame
    BY <2>1, ClientKeeps
  <2>3. client.send_queue # <<>> /\ client.send_queue \in Seq(ClientFrame)
    BY <2>1 DEF ClientOK, ConnectionOK
  <2>4. f \in AnyFrame
    BY <2>3, FirstOf, OwnFrames
  <2>5. CASE wire' = wire
    BY <1>1, <2>2, <2>5, ClientShapeStill
  <2>6. CASE wire' # wire
    <3>1. wire' = [wire EXCEPT !["server"] = v]
      BY <2>1, <2>6 DEF Writes, Peer, TcpOK, End
    <3>. HIDE DEF f
    <3>2. v \in Seq(Piece)
      <4>1. wire["server"] \in Seq(Piece) /\ Header(f) \in Piece /\ Content(f) \in Piece
        BY <2>4, Pieces DEF TcpOK, End
      <4>. QED  BY <4>1, TwoElements, JoinedSeq
    <3>3. Whole(v) /\ EndsWhole(v) /\ (wire["server"] # <<>> => v # <<>> /\ v[1] = wire["server"][1])
      <4>1. wire["server"] \in Seq(Piece)
        BY DEF TcpOK, End
      <4>. QED  BY <1>2, <2>4, <4>1, WholeWritten DEF ServerWire
    <3>. HIDE DEF v
    <3>. QED  BY <1>8, <2>2, <3>1, <3>2, <3>3
  <2>. QED  BY <2>5, <2>6
<1>. QED
  BY <1>3, <1>4, <1>5, <1>6, <1>7, <1>9, <1>10, <1>11
     DEF C!Next, C!Handlers, C!Handshake, C!Read, C!Writing

(* What the foreign end puts on the wire is whole, too.                    *)
LEMMA ForeignShape ==
  ASSUME TcpOK, ForeignOK, Foreign, Control, Shape
  PROVE  Shape'
<1>1. Severed => Severed'
  BY ForeignSevers
<1>2. /\ ServerLife /\ ClientLife /\ NothingYet
      /\ ServerWire /\ ClientWire /\ ServerReading /\ ClientReading
  BY DEF Control, Shape
<1>3. server' = server /\ client' = client /\ link' = link
  BY DEF Foreign
<1>4. link = "server" => server.phase = "none" /\ server.writing = "none"
  BY <1>2 DEF ServerLife, S!Init
<1>5. link = "client" => client.phase = "none"
  BY <1>2 DEF ClientLife, C!Init
<1>6. wire["server"] \in Seq(Piece) /\ wire["client"] \in Seq(Piece)
  BY DEF TcpOK, End
<1>7. CASE wire' = wire
  BY <1>1, <1>3, <1>7, ServerShapeStill
<1>8. /\ Whole(<<>>) /\ EndsWhole(<<>>)
      /\ \A w \in Seq(Piece) : w # <<>> /\ Whole(w) =>
           /\ Whole(Tail(w)) /\ (EndsWhole(w) => EndsWhole(Tail(w)))
           /\ Tail(w) # <<>> => Tail(w)[Len(Tail(w))] = w[Len(w)]
  <2>1. Whole(<<>>) /\ EndsWhole(<<>>)
    BY DEF Whole, EndsWhole
  <2>. QED  BY <2>1, WholeTail
(* A foreign client: only the server reads.                                *)
<1>9. ASSUME link = "client", NEW v \in Seq(Piece), wire'["server"] = v,
             Whole(v), EndsWhole(v),
             wire["server"] # <<>> => v # <<>> /\ v[1] = wire["server"][1],
             \/ wire'["client"] \in {wire["client"], <<>>}
             \/ wire["client"] # <<>> /\ wire'["client"] = Tail(wire["client"])
      PROVE  Shape'
  <2>1. ServerWire' /\ ServerReading'
    BY <1>2, <1>3, <1>9 DEF ServerWire, ServerReading
  <2>2. ClientWire'
    BY <1>1, <1>2, <1>3, <1>6, <1>8, <1>9 DEF ClientWire
  <2>3. ClientReading'
    BY <1>3, <1>5, <1>9 DEF ClientReading
  <2>. QED  BY <2>1, <2>2, <2>3 DEF Shape
(* A foreign server: only the client reads, and nothing arrives after an   *)
(* end.                                                                    *)
<1>10. ASSUME link = "server", NEW v \in Seq(Piece), wire'["client"] = v,
              Whole(v), EndsWhole(v), v = wire["client"] \/ ~Severed,
              wire["client"] # <<>> => v # <<>> /\ v[1] = wire["client"][1],
              Whole(wire'["server"]) /\ EndsWhole(wire'["server"])
       PROVE  Shape'
  <2>1. ServerWire' /\ ServerReading'
    BY <1>3, <1>4, <1>10 DEF ServerWire, ServerReading
  <2>2. ClientWire'
    BY <1>3, <1>4, <1>10 DEF ClientWire, EndsWhole
  <2>3. ClientReading'
    <3>1. client.phase \in {"length", "content"} /\ wire["client"] = <<>> => Severed
      BY <1>2, <1>4, <1>10 DEF ClientReading
    <3>2. Severed => v = wire["client"]
      BY <1>10
    <3>. QED  BY <1>1, <1>2, <1>3, <1>10, <3>1, <3>2 DEF ClientReading
  <2>. QED  BY <2>1, <2>2, <2>3 DEF Shape
<1>11. ASSUME NEW e \in End, socket[e] = "open", socket[Peer(e)] = "open"
       PROVE  ~Severed
  BY <1>11 DEF Severed, End, Peer
<1>12. ServerWire /\ (link = "server" => EndsWhole(wire["client"]) \/ Severed)
  BY <1>2, <1>4 DEF ClientWire, EndsWhole
<1>13. (Other = link /\ link \in {"client", "server"}) \/ ForeignSilent
  BY DEF Foreign, ForeignSilent, Other, TcpOK, Link
<1>14. CASE link = "client" /\ ForeignRequests
  <2>1. PICK request \in {Request(TRUE), Request(FALSE)} :
          wire' = [wire EXCEPT !["server"] = Append(@, request)]
    BY <1>14, ForeignRequestsOnce
  <2>. DEFINE v == Append(wire["server"], request)
  <2>2. request \in Piece
    BY Pieces
  <2>3. request.piece \in {"request", "response"}
    BY DEF Request
  <2>4. Whole(v) /\ EndsWhole(v) /\ (wire["server"] # <<>> => v # <<>> /\ v[1] = wire["server"][1])
    BY <1>6, <1>12, <2>2, <2>3, WholeSpoken DEF ServerWire
  <2>5. v \in Seq(Piece)
    BY <1>6, <2>2, Appended
  <2>6. wire'["server"] = v /\ wire'["client"] = wire["client"]
    BY <2>1 DEF TcpOK, End
  <2>. HIDE DEF v
  <2>. QED  BY <1>9, <1>14, <2>4, <2>5, <2>6
(* Frames and responses come after what is there.                          *)
<1>15. ASSUME NEW e \in End, NEW pieces \in Seq(Piece), link = e,
              Whole(wire[Peer(e)]) /\ EndsWhole(wire[Peer(e)]) =>
                /\ Whole(wire[Peer(e)] \o pieces) /\ EndsWhole(wire[Peer(e)] \o pieces)
                /\ wire[Peer(e)] # <<>> =>
                     wire[Peer(e)] \o pieces # <<>> /\ (wire[Peer(e)] \o pieces)[1] = wire[Peer(e)][1],
              socket[e] = "open",
              \/ wire'[Peer(e)] = wire[Peer(e)]
              \/ socket[Peer(e)] = "open" /\ wire'[Peer(e)] = wire[Peer(e)] \o pieces,
              \/ wire'[e] \in {wire[e], <<>>}
              \/ wire[e] # <<>> /\ wire'[e] = Tail(wire[e])
       PROVE  Shape'
  <2>1. wire[Peer(e)] \o pieces \in Seq(Piece)
    BY JoinedSeq DEF TcpOK, Peer, End
  <2>2. CASE link = "client"
    <3>1. e = "client" /\ Peer(e) = "server"
      BY <1>15, <2>2 DEF Peer
    <3>. QED  BY <1>6, <1>9, <1>12, <1>15, <2>1, <2>2, <3>1 DEF ServerWire
  <2>3. CASE link = "server"
    <3>1. e = "server" /\ Peer(e) = "client"
      BY <1>15, <2>3 DEF Peer
    <3>2. Whole(wire'["server"]) /\ EndsWhole(wire'["server"])
      BY <1>6, <1>8, <1>12, <1>15, <3>1 DEF ServerWire
    <3>3. Whole(wire["client"])
      BY <1>2 DEF ClientWire
    <3>4. CASE socket["client"] = "open" /\ wire'["client"] = wire["client"] \o pieces
      <4>1. ~Severed
        BY <1>11, <1>15, <3>1, <3>4
      <4>. QED  BY <1>10, <1>12, <1>15, <2>1, <2>3, <3>1, <3>2, <3>3, <3>4, <4>1
    <3>5. CASE wire'["client"] = wire["client"]
      <4>1. ServerWire' /\ ServerReading'
        BY <1>3, <1>4, <2>3, <3>2 DEF ServerWire, ServerReading
      <4>2. ClientWire' /\ ClientReading'
        BY <1>1, <1>2, <1>3, <3>5 DEF ClientWire, ClientReading
      <4>. QED  BY <4>1, <4>2 DEF Shape
    <3>. QED  BY <1>15, <3>1, <3>4, <3>5
  <2>. QED  BY <1>13, <1>15, <2>2, <2>3 DEF End
<1>16. CASE ForeignSilent
  BY <1>7, <1>16, ForeignIsSilent DEF WireKept
<1>17. CASE ForeignTakes /\ link \in {"client", "server"}
  <2>1. Other = link /\ link \in End
    BY <1>17 DEF Other, End
  <2>2. /\ socket[link] = "open" /\ wire[link] # <<>>
        /\ \/ wire' = [wire EXCEPT ![link] = <<>>]
           \/ \E response \in {Response(TRUE), Response(FALSE)} :
                wire' = [Written(link, <<response>>) EXCEPT ![link] = Tail(@)]
    BY <1>17, <2>1, ForeignTakesAll
  <2>3. CASE wire' = [wire EXCEPT ![link] = <<>>]
    <3>1. wire'[link] = <<>> /\ wire'[Peer(link)] = wire[Peer(link)]
      BY <2>1, <2>3 DEF TcpOK, Peer, End
    <3>2. <<>> \in Seq(Piece) /\ \A w \in Seq(Piece) : w \o <<>> = w
      OBVIOUS
    <3>3. wire[Peer(link)] \in Seq(Piece)
      BY <1>6 DEF Peer
    <3>. QED  BY <1>15, <2>1, <2>2, <3>1, <3>2, <3>3
  <2>4. ASSUME NEW response \in {Response(TRUE), Response(FALSE)},
               wire' = [Written(link, <<response>>) EXCEPT ![link] = Tail(@)]
        PROVE  Shape'
    <3>1. response \in Piece /\ response.piece \in {"request", "response"}
      <4>1. response \in Piece
        BY Pieces
      <4>. QED  BY <4>1 DEF Response
    <3>2. <<response>> \in Seq(Piece)
      BY <3>1, OneElement
    <3>3. /\ wire'[link] = Tail(wire[link])
          /\ \/ wire'[Peer(link)] = wire[Peer(link)]
             \/ socket[Peer(link)] = "open" /\ wire'[Peer(link)] = wire[Peer(link)] \o <<response>>
      BY <2>1, <2>4 DEF Written, Peer, TcpOK, End
    <3>4. wire[Peer(link)] \in Seq(Piece)
      BY <1>6 DEF Peer
    <3>5. Whole(wire[Peer(link)]) /\ EndsWhole(wire[Peer(link)]) =>
                /\ Whole(wire[Peer(link)] \o <<response>>) /\ EndsWhole(wire[Peer(link)] \o <<response>>)
                /\ wire[Peer(link)] # <<>> =>
                     /\ wire[Peer(link)] \o <<response>> # <<>>
                     /\ (wire[Peer(link)] \o <<response>>)[1] = wire[Peer(link)][1]
      BY <3>1, <3>4, WholeSpoken
    <3>. QED  BY <1>15, <2>1, <2>2, <3>2, <3>3, <3>5
  <2>. QED  BY <2>2, <2>3, <2>4
<1>18. CASE (ForeignSendsData \/ ForeignSendsControl) /\ link \in {"client", "server"}
  <2>1. Other = link /\ link \in End
    BY <1>18 DEF Other, End
  <2>2. PICK f \in AnyFrame : Writes(link, <<Header(f), Content(f)>>)
    <3>1. Used \in Nat \/ ForeignSendsControl
      BY <1>18, ForeignCounts DEF Control
    <3>. QED  BY <1>18, <2>1, <3>1, ForeignData, ForeignControl
  <2>3. Header(f) \in Piece /\ Content(f) \in Piece
    BY Pieces
  <2>4. <<Header(f), Content(f)>> \in Seq(Piece)
    BY <2>3, TwoElements
  <2>5. wire[Peer(link)] \in Seq(Piece)
    BY <1>6 DEF Peer
  <2>6. Whole(wire[Peer(link)]) /\ EndsWhole(wire[Peer(link)]) =>
           LET pieces == <<Header(f), Content(f)>>
           IN /\ Whole(wire[Peer(link)] \o pieces) /\ EndsWhole(wire[Peer(link)] \o pieces)
              /\ wire[Peer(link)] # <<>> =>
                   wire[Peer(link)] \o pieces # <<>> /\ (wire[Peer(link)] \o pieces)[1] = wire[Peer(link)][1]
    BY <2>5, WholeWritten
  <2>7. /\ socket[link] = "open" /\ wire'[link] = wire[link]
        /\ \/ wire'[Peer(link)] = wire[Peer(link)]
           \/ /\ socket[Peer(link)] = "open"
              /\ wire'[Peer(link)] = wire[Peer(link)] \o <<Header(f), Content(f)>>
    BY <2>1, <2>2 DEF Writes, Peer, TcpOK, End
  <2>. QED  BY <1>15, <2>1, <2>4, <2>6, <2>7
<1>. QED  BY <1>13, <1>14, <1>16, <1>17, <1>18 DEF Foreign, ForeignSilent

LEMMA BreakShape ==
  ASSUME TcpOK, Break, Shape
  PROVE  Shape'
<1>1. Severed => Severed'
  BY ForeignSevers
<1>. QED  BY <1>1, ServerShapeStill DEF Break

LEMMA ShapeInit ==
  ASSUME Init
  PROVE  Shape
<1>1. wire = [e \in End |-> <<>>] /\ S!Init /\ C!Init
  BY DEF Init, TcpInit
<1>2. server.phase = "none" /\ client.phase = "none"
  BY <1>1 DEF S!Init, C!Init
<1>3. wire["server"] = <<>> /\ wire["client"] = <<>>
  BY <1>1 DEF End
<1>. QED  BY <1>2, <1>3
  DEF Shape, ServerWire, ClientWire, ServerReading, ClientReading, Whole, EndsWhole

-----------------------------------------------------------------------------
(***************************************************************************)
(* The invariant of the link, up to what the pieces carry.                 *)
(***************************************************************************)
LinkInv == LinkTypeOK /\ Control /\ Shape

LEMMA LinkTypeInit ==
  ASSUME Init
  PROVE  LinkTypeOK
<1>1. <<>> \in Seq(Part) /\ <<>> \in Seq(Piece) /\ <<>> \in Seq(ServerFrame)
      /\ <<>> \in Seq(ClientFrame) /\ <<>> \in Seq(Seq(Part))
  OBVIOUS
<1>2. S!NoFrame \in AnyFrame /\ C!NoFrame \in AnyFrame
  BY <1>1 DEF S!NoFrame, C!NoFrame, S!Frame, C!Frame, AnyFrame
<1>3. TcpOK
  BY <1>1 DEF Init, TcpInit, TcpOK
<1>4. ServerOK
  BY <1>1, <1>2 DEF Init, S!Init, ServerOK, ConnectionOK, ServerFields, CommonFields
<1>5. ClientOK
  BY <1>1, <1>2 DEF Init, C!Init, ClientOK, ConnectionOK, CommonFields
<1>6. ForeignOK
  BY <1>1 DEF Init, ForeignOK
<1>. QED  BY <1>3, <1>4, <1>5, <1>6 DEF LinkTypeOK

LEMMA LinkInvInit ==
  ASSUME Init
  PROVE  LinkInv
  BY LinkTypeInit, ControlInit, ShapeInit DEF LinkInv

LEMMA LinkInvNext ==
  ASSUME LinkInv, [Next]_vars
  PROVE  LinkInv'
<1>1. TcpOK /\ ServerOK /\ ClientOK /\ ForeignOK /\ Control /\ Shape /\ Asked
  BY DEF LinkInv, LinkTypeOK, Control
<1>2. CASE ServerSteps(S!Next)
  <2>1. /\ link # "server" /\ S!Next /\ client' = client /\ foreign' = foreign /\ link' = link
    BY <1>2 DEF ServerSteps
  <2>2. TcpOK' /\ ServerOK' /\ Control' /\ Shape'
    BY <1>1, <2>1, ServerTcpTypes, ServerTypes, ServerControl, ServerShape
  <2>3. ClientOK' /\ ForeignOK'
    BY <1>1, <2>1 DEF ClientOK, ForeignOK, ConnectionOK
  <2>. QED  BY <2>2, <2>3 DEF LinkInv, LinkTypeOK
<1>3. CASE ClientSteps(C!Next)
  <2>1. /\ link # "client" /\ C!Next /\ server' = server /\ foreign' = foreign /\ link' = link
    BY <1>3 DEF ClientSteps
  <2>2. TcpOK' /\ ClientOK' /\ Control' /\ Shape'
    BY <1>1, <2>1, ClientTcpTypes, ClientTypes, ClientControl, ClientShape
  <2>3. ServerOK' /\ ForeignOK'
    BY <1>1, <2>1 DEF ServerOK, ForeignOK, ConnectionOK
  <2>. QED  BY <2>2, <2>3 DEF LinkInv, LinkTypeOK
<1>4. CASE Foreign
  <2>1. server' = server /\ client' = client
    BY <1>4 DEF Foreign
  <2>2. TcpOK' /\ ForeignOK' /\ Control' /\ Shape'
    BY <1>1, <1>4, ForeignTypes, ForeignControlKept, ForeignShape
  <2>3. ServerOK' /\ ClientOK'
    BY <1>1, <2>1 DEF ServerOK, ClientOK, ConnectionOK
  <2>. QED  BY <2>2, <2>3 DEF LinkInv, LinkTypeOK
<1>5. CASE Break
  <2>1. /\ server' = server /\ client' = client /\ foreign' = foreign /\ link' = link /\ wire' = wire
        /\ socket' = [e \in End |-> "broken"]
    BY <1>5 DEF Break
  <2>2. TcpOK'
    BY <1>1, <2>1 DEF TcpOK
  <2>3. ServerOK' /\ ClientOK' /\ ForeignOK'
    BY <1>1, <2>1 DEF ServerOK, ClientOK, ForeignOK, ConnectionOK
  <2>4. Control' /\ Shape'
    BY <1>1, <1>5, BreakControl, BreakShape
  <2>. QED  BY <2>2, <2>3, <2>4 DEF LinkInv, LinkTypeOK
<1>6. CASE UNCHANGED vars
  <2>1. /\ server' = server /\ client' = client /\ foreign' = foreign /\ link' = link
        /\ wire' = wire /\ socket' = socket
    BY <1>6 DEF vars, tcp
  <2>2. LinkTypeOK'
    BY <1>1, <2>1 DEF LinkTypeOK, TcpOK, ServerOK, ClientOK, ForeignOK, ConnectionOK
  <2>3. Control'
    <3>1. ServerLife' /\ ClientLife'
      BY <1>1, <2>1 DEF Control, ServerLife, ClientLife, ServerQuiet, ClientQuiet, Connected,
         S!Init, C!Init
    <3>2. NothingYet' /\ Unopened'
      BY <1>1, <2>1 DEF Control, NothingYet, Unopened, Unrequested, ServerQuiet
    <3>3. Spoken' /\ Asked'
      BY <1>1, <2>1 DEF Control, Spoken, Asked, Connected
    <3>. QED  BY <3>1, <3>2, <3>3 DEF Control
  <2>4. Shape'
    BY <1>1, <2>1, ServerShapeStill DEF Severed
  <2>. QED  BY <2>2, <2>3, <2>4 DEF LinkInv
<1>. QED  BY <1>2, <1>3, <1>4, <1>5, <1>6 DEF Next

(* Every field of the link's state stays in its type, and a queue of       *)
(* writes is empty exactly while nothing is being written.                 *)
THEOREM LinkTypes == Spec => []LinkTypeOK
<1>1. LinkInv => LinkTypeOK
  BY DEF LinkInv
<1>. QED  BY <1>1, LinkInvInit, LinkInvNext, PTL DEF Spec

(* A header is followed by its own content, and a response by nothing.     *)
THEOREM LinkFramesWhole == Spec => []FramesWhole
<1>1. LinkInv => FramesWhole
  <2>1. SUFFICES ASSUME LinkInv PROVE FramesWhole
    OBVIOUS
  <2>2. Whole(wire["server"]) /\ Whole(wire["client"])
    BY <2>1 DEF LinkInv, Shape, ServerWire, ClientWire
  <2>3. client.phase = "readHandshake" => Len(wire["client"]) <= 1
    <3>1. SUFFICES ASSUME client.phase = "readHandshake" PROVE Len(wire["client"]) <= 1
      OBVIOUS
    <3>2. link # "client" /\ client.opened = 0
      BY <2>1, <3>1 DEF LinkInv, Control, ClientLife, C!Init
    <3>3. \/ wire["client"] = <<>>
          \/ wire["client"] = <<Response(TRUE)>> \/ wire["client"] = <<Response(FALSE)>>
      BY <2>1, <3>2 DEF LinkInv, Control, Unopened
    <3>4. Len(<<>>) <= 1 /\ \A response : Len(<<response>>) <= 1
      OBVIOUS
    <3>. QED  BY <3>3, <3>4
  <2>. QED  BY <2>2, <2>3 DEF FramesWhole, Whole, End
<1>. QED  BY <1>1, LinkInvInit, LinkInvNext, PTL DEF Spec

LEMMA ServerEndsOnce ==
  ASSUME TcpOK, ServerOK, ServerLife, S!Next, server.ended # 0, link # "server"
  PROVE  /\ server'.opened = server.opened /\ server'.ended = server.ended
         /\ server'.received = server.received
<1>1. server.phase = "done"
  BY DEF ServerLife
<1>2. CASE \/ S!Start \/ S!Stop \/ S!StopService \/ S!TimerExpires \/ S!TimerCloses \/ S!AppSends
           \/ S!Exit \/ S!Release
  <2>1. Kept(server, server', {"service", "connection", "armed", "queued", "posted", "sent"})
    BY <1>2, ServerStarts, ServerStops, ServerStopsService, ServerTimerExpires, ServerTimerCloses,
       ServerSends, ServerExits, ServerReleases DEF Kept
  <2>. QED  BY <2>1, ServerKeeps
<1>3. CASE S!RunSend \/ S!WriteHeader \/ S!WriteContent \/ S!FinishWrite \/ S!WriteFails
  <2>1. Kept(server, server', {"posted", "send_queue", "writing"})
    BY <1>3, ServerRunsSend, ServerWritesHeader, ServerWritesContent, ServerFinishesWrite,
       ServerWriteFails DEF Kept
  <2>. QED  BY <2>1, ServerKeeps
<1>4. ~(S!Handshake /\ ~S!TimerExpires /\ ~S!TimerCloses)
  BY <1>1, ServerAccepts, ServerReadsHandshake, ServerReadHandshakeFails, ServerWritesHandshake,
     ServerErrs, ServerOpens DEF S!Handshake
<1>5. ~S!Read
  BY <1>1, ServerReadsHeader, ServerReadsLength, ServerErrs, ServerReadsClose, ServerReadsPing,
     ServerReadsPong, ServerReadsFragment, ServerReadsMessage DEF S!Read
<1>. QED
  BY <1>2, <1>3, <1>4, <1>5 DEF S!Next, S!Handlers, S!Handshake, S!Writing

LEMMA ClientEndsOnce ==
  ASSUME TcpOK, ClientOK, ClientLife, C!Next, client.ended # 0, link # "client"
  PROVE  /\ client'.opened = client.opened /\ client'.ended = client.ended
         /\ client'.received = client.received
<1>1. client.phase = "done" /\ client.service # "new"
  BY DEF ClientLife
<1>2. CASE C!Stop \/ C!AppSends
  <2>1. Kept(client, client', {"service", "posted", "sent"})
    BY <1>2, ClientStops, ClientSends DEF Kept
  <2>. QED  BY <2>1, ClientKeeps
<1>3. CASE C!RunSend \/ C!WriteFrame \/ C!FinishWrite \/ C!WriteFails
  <2>1. Kept(client, client', {"posted", "send_queue", "writing"})
    BY <1>3, ClientRunsSend, ClientWritesFrame, ClientFinishesWrite, ClientWriteFails DEF Kept
  <2>. QED  BY <2>1, ClientKeeps
<1>4. ~(C!Start \/ C!Handshake)
  BY <1>1, ClientStarts, ClientResolves, ClientConnects, ClientErrs, ClientWritesHandshake,
     ClientReadsHandshake DEF C!Handshake
<1>5. ~C!Read
  BY <1>1, ClientErrs, ClientReadsHeader, ClientReadsLength, ClientReadsClose, ClientReadsPing,
     ClientReadsPong, ClientReadsFragment, ClientReadsMessage DEF C!Read
<1>. QED  BY <1>2, <1>3, <1>4, <1>5 DEF C!Next, C!Handlers, C!Writing

(* After an end is told neither a message nor an open, nor a second end.   *)
THEOREM LinkEndsOnce == Spec => EndsOnce
<1>. DEFINE OnceEnded(told) ==
       told[1].ended > 0 =>
         \A field \in {"opened", "ended", "received"} : told[1][field] = told[2][field]
<1>1. ASSUME LinkInv, [Next]_vars
      PROVE  \A told \in {<<server, server'>>, <<client, client'>>} : OnceEnded(told)
  <2>1. TcpOK /\ ServerOK /\ ClientOK /\ ServerLife /\ ClientLife
    BY <1>1 DEF LinkInv, LinkTypeOK, Control
  <2>2. (server.ended > 0 => server.ended # 0) /\ (client.ended > 0 => client.ended # 0)
    BY <2>1 DEF ServerOK, ClientOK, ConnectionOK
  <2>3. server' = server \/ (S!Next /\ link # "server")
    BY <1>1 DEF Next, ServerSteps, ClientSteps, Foreign, Break, vars
  <2>4. client' = client \/ (C!Next /\ link # "client")
    BY <1>1 DEF Next, ServerSteps, ClientSteps, Foreign, Break, vars
  <2>5. OnceEnded(<<server, server'>>)
    BY <2>1, <2>2, <2>3, ServerEndsOnce
  <2>6. OnceEnded(<<client, client'>>)
    BY <2>1, <2>2, <2>4, ClientEndsOnce
  <2>. QED  BY <2>5, <2>6
<1>. QED  BY <1>1, LinkInvInit, LinkInvNext, PTL DEF Spec, EndsOnce

-----------------------------------------------------------------------------
(***************************************************************************)
(* What the pieces on the way to an end will have told it.  A state is     *)
(* what it has of the message under way and how many messages it has been  *)
(* told of; msgs are those its peer has sent.                              *)
(***************************************************************************)
State == [parts : Seq(Part), count : Nat]

(* Is this the content of a frame that end e takes for a part of a message?*)
IsPart(p, e) ==
  /\ p.piece = "content"
  /\ p.frame.opcode \in {"text", "continuation"}
  /\ IF e = "server" THEN p.frame.masked = TRUE ELSE p.frame.masked = FALSE

(* Piece p takes end e from state x to state y.                            *)
Moves(p, e, msgs, x, y) ==
  IF IsPart(p, e)
  THEN /\ p.frame.opcode = "text" => x.parts = <<>>
       /\ p.frame.fin = TRUE =>
            /\ y = [parts |-> <<>>, count |-> x.count + 1]
            /\ x.count + 1 \in 1..Len(msgs) /\ msgs[x.count + 1] = x.parts \o p.frame.payload
       /\ p.frame.fin = FALSE =>
            y = [parts |-> x.parts \o p.frame.payload, count |-> x.count]
  ELSE y = x

Leads(w, e, msgs, x, y) ==
  \E run \in [1..Len(w) + 1 -> State] :
    /\ run[1] = x /\ run[Len(w) + 1] = y
    /\ \A i \in 1..Len(w) : Moves(w[i], e, msgs, run[i], run[i + 1])

Messages == Seq(Seq(Part))

LEMMA LeadsTyped ==
  ASSUME NEW w \in Seq(Piece), NEW e, NEW msgs, NEW x, NEW y, Leads(w, e, msgs, x, y)
  PROVE  x \in State /\ y \in State
<1>1. Len(w) \in Nat
  OBVIOUS
<1>2. 1 \in 1..Len(w) + 1 /\ Len(w) + 1 \in 1..Len(w) + 1
  BY <1>1
<1>. QED  BY <1>2 DEF Leads

LEMMA LeadsNowhere ==
  ASSUME NEW e, NEW msgs, NEW x \in State
  PROVE  Leads(<<>>, e, msgs, x, x)
<1>. DEFINE run == [i \in 1..1 |-> x]
<1>1. Len(<<>>) = 0 /\ 0 + 1 = 1
  OBVIOUS
<1>2. run \in [1..Len(<<>>) + 1 -> State] /\ run[1] = x /\ run[Len(<<>>) + 1] = x
  BY <1>1
<1>3. \A i \in 1..Len(<<>>) : FALSE
  BY <1>1
<1>. QED  BY <1>2, <1>3 DEF Leads

LEMMA LeadsTail ==
  ASSUME NEW w \in Seq(Piece), w # <<>>, NEW e, NEW msgs, NEW x, NEW y, Leads(w, e, msgs, x, y)
  PROVE  \E z \in State : Moves(w[1], e, msgs, x, z) /\ Leads(Tail(w), e, msgs, z, y)
<1>. DEFINE t == Tail(w)
<1>1. /\ Len(w) \in Nat \ {0} /\ Len(t) = Len(w) - 1 /\ t \in Seq(Piece)
      /\ \A i \in 1..Len(t) : t[i] = w[i + 1]
  OBVIOUS
<1>. HIDE DEF t
<1>2. PICK run \in [1..Len(w) + 1 -> State] :
        /\ run[1] = x /\ run[Len(w) + 1] = y
        /\ \A i \in 1..Len(w) : Moves(w[i], e, msgs, run[i], run[i + 1])
  BY DEF Leads
<1>. DEFINE rest == [i \in 1..Len(t) + 1 |-> run[i + 1]]
<1>3. /\ 1 \in 1..Len(w) /\ 1 + 1 \in 1..Len(w) + 1 /\ 1 \in 1..Len(t) + 1 /\ Len(t) + 1 = Len(w)
      /\ Len(t) + 1 \in 1..Len(t) + 1
      /\ \A i \in 1..Len(t) + 1 : i + 1 \in 1..Len(w) + 1
      /\ \A i \in 1..Len(t) : i \in 1..Len(t) + 1 /\ i + 1 \in 1..Len(t) + 1 /\ i + 1 \in 1..Len(w)
  BY <1>1
<1>4. rest \in [1..Len(t) + 1 -> State]
  BY <1>2, <1>3
<1>5. rest[1] = run[1 + 1] /\ rest[Len(t) + 1] = y
  BY <1>2, <1>3
<1>6. ASSUME NEW i \in 1..Len(t)
      PROVE  Moves(t[i], e, msgs, rest[i], rest[i + 1])
  <2>1. t[i] = w[i + 1] /\ rest[i] = run[i + 1] /\ rest[i + 1] = run[(i + 1) + 1]
    BY <1>1, <1>3
  <2>2. Moves(w[i + 1], e, msgs, run[i + 1], run[(i + 1) + 1])
    BY <1>2, <1>3
  <2>. QED  BY <2>1, <2>2
<1>. HIDE DEF rest
<1>7. Leads(t, e, msgs, run[1 + 1], y)
  BY <1>4, <1>5, <1>6 DEF Leads
<1>8. Moves(w[1], e, msgs, x, run[1 + 1]) /\ run[1 + 1] \in State
  BY <1>2, <1>3
<1>. QED  BY <1>7, <1>8 DEF t

LEMMA LeadsOn ==
  ASSUME NEW w \in Seq(Piece), NEW p \in Piece, NEW e, NEW msgs, NEW x, NEW y, NEW z \in State,
         Leads(w, e, msgs, x, y), Moves(p, e, msgs, y, z)
  PROVE  Leads(Append(w, p), e, msgs, x, z)
<1>. DEFINE v == Append(w, p)
<1>1. /\ Len(w) \in Nat /\ Len(v) = Len(w) + 1
      /\ \A i \in 1..Len(w) : v[i] = w[i]
      /\ v[Len(w) + 1] = p
  OBVIOUS
<1>. HIDE DEF v
<1>2. PICK run \in [1..Len(w) + 1 -> State] :
        /\ run[1] = x /\ run[Len(w) + 1] = y
        /\ \A i \in 1..Len(w) : Moves(w[i], e, msgs, run[i], run[i + 1])
  BY DEF Leads
<1>. DEFINE more == [i \in 1..Len(v) + 1 |-> IF i = Len(v) + 1 THEN z ELSE run[i]]
<1>3. /\ 1 \in 1..Len(v) + 1 /\ 1 # Len(v) + 1
      /\ Len(v) + 1 \in 1..Len(v) + 1 /\ Len(w) + 1 \in 1..Len(v) + 1 /\ Len(w) + 1 # Len(v) + 1
      /\ \A i \in 1..Len(v) + 1 : i # Len(v) + 1 => i \in 1..Len(w) + 1
      /\ \A i \in 1..Len(v) : /\ i \in 1..Len(v) + 1 /\ i + 1 \in 1..Len(v) + 1 /\ i # Len(v) + 1
                              /\ i \in 1..Len(w) \/ i = Len(w) + 1
      /\ \A i \in 1..Len(w) : i + 1 # Len(v) + 1
  BY <1>1
<1>4. more \in [1..Len(v) + 1 -> State]
  BY <1>2, <1>3
<1>5. more[1] = x /\ more[Len(v) + 1] = z
  BY <1>2, <1>3
<1>6. ASSUME NEW i \in 1..Len(v)
      PROVE  Moves(v[i], e, msgs, more[i], more[i + 1])
  <2>1. CASE i \in 1..Len(w)
    <3>1. v[i] = w[i] /\ more[i] = run[i] /\ more[i + 1] = run[i + 1]
      BY <1>1, <1>3, <2>1
    <3>. QED  BY <1>2, <2>1, <3>1
  <2>2. CASE i = Len(w) + 1
    <3>1. v[i] = p /\ more[i] = y /\ more[i + 1] = z
      BY <1>1, <1>2, <1>3, <2>2
    <3>. QED  BY <3>1
  <2>. QED  BY <1>3, <2>1, <2>2
<1>. HIDE DEF more
<1>7. Leads(v, e, msgs, x, z)
  BY <1>4, <1>5, <1>6 DEF Leads
<1>. QED  BY <1>7 DEF v

LEMMA MovesMore ==
  ASSUME NEW msgs \in Messages, NEW m \in Seq(Part), NEW p, NEW e, NEW x, NEW y,
         Moves(p, e, msgs, x, y)
  PROVE  Moves(p, e, Append(msgs, m), x, y)
<1>1. /\ Len(Append(msgs, m)) = Len(msgs) + 1
      /\ \A i \in 1..Len(msgs) : i \in 1..(Len(msgs) + 1) /\ Append(msgs, m)[i] = msgs[i]
  BY DEF Messages
<1>. QED  BY <1>1 DEF Moves

LEMMA LeadsMore ==
  ASSUME NEW msgs \in Messages, NEW m \in Seq(Part), NEW w, NEW e, NEW x, NEW y,
         Leads(w, e, msgs, x, y)
  PROVE  Leads(w, e, Append(msgs, m), x, y)
  BY MovesMore DEF Leads

(* Prefixes, element by element.                                           *)
Prefix(s, t) == Len(s) <= Len(t) /\ \A i \in 1..Len(s) : s[i] = t[i]

LEMMA PrefixIsPrefix ==
  ASSUME NEW s \in Messages, NEW t \in Messages, Prefix(s, t)
  PROVE  IsPrefix(s, t)
<1>1. Len(s) \in Nat /\ Len(t) \in Nat /\ Len(s) <= Len(t)
  BY DEF Prefix, Messages
<1>2. SubSeq(s, 1, Len(s)) = [i \in 1..Len(s) |-> s[i]]
  BY DEF Messages
<1>3. SubSeq(t, 1, Len(s)) = [i \in 1..Len(s) |-> t[i]]
  BY <1>1 DEF Messages
<1>4. [i \in 1..Len(s) |-> s[i]] = [i \in 1..Len(s) |-> t[i]]
  BY DEF Prefix
<1>. QED  BY <1>1, <1>2, <1>3, <1>4 DEF IsPrefix

LEMMA PrefixMore ==
  ASSUME NEW s \in Messages, NEW t \in Messages, NEW m \in Seq(Part), Prefix(s, t)
  PROVE  Prefix(s, Append(t, m))
<1>1. /\ Len(s) \in Nat /\ Len(t) \in Nat /\ Len(Append(t, m)) = Len(t) + 1
      /\ \A i \in 1..Len(t) : Append(t, m)[i] = t[i]
  BY DEF Messages
<1>. QED  BY <1>1 DEF Prefix

LEMMA PrefixNext ==
  ASSUME NEW s \in Messages, NEW t \in Messages, NEW m \in Seq(Part), Prefix(s, t),
         Len(s) + 1 \in 1..Len(t), t[Len(s) + 1] = m
  PROVE  Prefix(Append(s, m), t)
<1>1. /\ Len(s) \in Nat /\ Len(t) \in Nat /\ Len(Append(s, m)) = Len(s) + 1
      /\ \A i \in 1..Len(s) : Append(s, m)[i] = s[i]
      /\ Append(s, m)[Len(s) + 1] = m
  BY DEF Messages
<1>2. \A i \in 1..(Len(s) + 1) : i \in 1..Len(s) \/ i = Len(s) + 1
  BY <1>1
<1>. QED  BY <1>1, <1>2 DEF Prefix

(* The contents of frames yet to be written.                               *)
Contents(q) == [i \in 1..Len(q) |-> Content(q[i])]

LEMMA ContentsOf ==
  ASSUME NEW q \in Seq(AnyFrame)
  PROVE  /\ Contents(q) \in Seq(Piece)
         /\ q # <<>> => /\ Contents(q) # <<>> /\ Contents(q)[1] = Content(q[1])
                        /\ Contents(Tail(q)) = Tail(Contents(q))
         /\ \A f \in AnyFrame : Contents(Append(q, f)) = Append(Contents(q), Content(f))
<1>1. \A f \in AnyFrame : Content(f) \in Piece
  BY Pieces
<1>2. Len(q) \in Nat /\ \A i \in 1..Len(q) : q[i] \in AnyFrame
  OBVIOUS
<1>6. ASSUME NEW r \in Seq(AnyFrame)
      PROVE  /\ Contents(r) \in Seq(Piece) /\ Len(Contents(r)) = Len(r)
             /\ \A i \in 1..Len(r) : Contents(r)[i] = Content(r[i])
  <2>1. [i \in 1..Len(r) |-> Content(r[i])] \in [1..Len(r) -> Piece]
    BY <1>1
  <2>2. \A n \in Nat : \A s \in [1..n -> Piece] : s \in Seq(Piece) /\ Len(s) = n
    OBVIOUS
  <2>3. Len(r) \in Nat
    OBVIOUS
  <2>. QED  BY <2>1, <2>2, <2>3 DEF Contents
<1>3. Contents(q) \in Seq(Piece) /\ Len(Contents(q)) = Len(q) /\ \A i \in 1..Len(q) : Contents(q)[i] = Content(q[i])
  BY <1>6
<1>7. \A s, t \in Seq(Piece) : Len(s) = Len(t) /\ (\A i \in 1..Len(s) : s[i] = t[i]) => s = t
  OBVIOUS
<1>4. ASSUME q # <<>>
      PROVE  /\ Contents(q) # <<>> /\ Contents(q)[1] = Content(q[1])
             /\ Contents(Tail(q)) = Tail(Contents(q))
  <2>1. Len(q) \in Nat \ {0} /\ Len(Tail(q)) = Len(q) - 1 /\ \A i \in 1..(Len(q) - 1) : Tail(q)[i] = q[i + 1]
    BY <1>4
  <2>2. Contents(q) # <<>> /\ Contents(q)[1] = Content(q[1])
    BY <1>3, <2>1
  <2>. DEFINE c == Contents(q)
  <2>. HIDE DEF c
  <2>3. /\ c \in Seq(Piece) /\ c # <<>> /\ Len(c) = Len(q)
        /\ \A i \in 1..(Len(q) - 1) : i + 1 \in 1..Len(q) /\ c[i + 1] = Content(Tail(q)[i])
    BY <1>3, <2>1, <2>2 DEF c
  <2>4. /\ Tail(c) \in Seq(Piece) /\ Len(Tail(c)) = Len(q) - 1
        /\ \A i \in 1..(Len(q) - 1) : Tail(c)[i] = c[i + 1]
    BY <2>3
  <2>5. /\ Contents(Tail(q)) \in Seq(Piece) /\ Len(Contents(Tail(q))) = Len(q) - 1
        /\ \A i \in 1..(Len(q) - 1) : Contents(Tail(q))[i] = Content(Tail(q)[i])
    <3>1. Tail(q) \in Seq(AnyFrame)
      BY <1>4
    <3>. QED  BY <1>6, <2>1, <3>1
  <2>6. Contents(Tail(q)) = Tail(c)
    BY <1>7, <2>3, <2>4, <2>5
  <2>. QED  BY <2>2, <2>6 DEF c
<1>5. ASSUME NEW f \in AnyFrame
      PROVE  Contents(Append(q, f)) = Append(Contents(q), Content(f))
  <2>. DEFINE c == Contents(q)
              a == Append(q, f)
  <2>1. Len(a) = Len(q) + 1 /\ (\A i \in 1..Len(q) : a[i] = q[i]) /\ a[Len(q) + 1] = f
    OBVIOUS
  <2>. HIDE DEF c, a
  <2>2. c \in Seq(Piece) /\ Len(c) = Len(q) /\ Content(f) \in Piece
    BY <1>1, <1>3 DEF c
  <2>3. /\ Append(c, Content(f)) \in Seq(Piece) /\ Len(Append(c, Content(f))) = Len(q) + 1
        /\ \A i \in 1..Len(q) : Append(c, Content(f))[i] = c[i]
        /\ Append(c, Content(f))[Len(q) + 1] = Content(f)
    BY <2>2
  <2>4. /\ Contents(a) \in Seq(Piece) /\ Len(Contents(a)) = Len(q) + 1
        /\ \A i \in 1..(Len(q) + 1) : Contents(a)[i] = Content(a[i])
    <3>1. a \in Seq(AnyFrame)
      BY DEF a
    <3>. QED  BY <1>6, <2>1, <3>1
  <2>5. \A i \in 1..(Len(q) + 1) : Contents(a)[i] = Append(c, Content(f))[i]
    <3>1. \A i \in 1..(Len(q) + 1) : i \in 1..Len(q) \/ i = Len(q) + 1
      BY <1>2
    <3>. QED  BY <1>3, <2>1, <2>3, <2>4, <3>1 DEF c
  <2>6. Contents(a) = Append(c, Content(f))
    BY <1>7, <2>3, <2>4, <2>5
  <2>. QED  BY <2>6 DEF a, c
<1>. QED  BY <1>3, <1>4, <1>5

LEMMA NoContents == Contents(<<>>) = <<>>
  BY DEF Contents

(* Pieces that leave the state of their reader alone.                      *)
LEMMA LeadsOnIdle ==
  ASSUME NEW w \in Seq(Piece), NEW p \in Piece, NEW e, ~IsPart(p, e), NEW msgs, NEW x, NEW y,
         Leads(w, e, msgs, x, y)
  PROVE  Leads(Append(w, p), e, msgs, x, y)
<1>1. Moves(p, e, msgs, y, y)
  BY DEF Moves
<1>. QED  BY <1>1, LeadsTyped, LeadsOn

-----------------------------------------------------------------------------
(***************************************************************************)
(* Between two ends of SimpleWeb: the pieces on the wire w lead their      *)
(* reader to a state, from which the frames yet to be written, q, and      *)
(* those that the strand has yet to run, p, lead it to all there is.       *)
(***************************************************************************)
Arriving(w, e, msgs, x) == \E y \in State : Leads(w, e, msgs, x, y)

Pipe(w, q, p, e, msgs, x) ==
  \E y \in State, z \in State :
    /\ Leads(w, e, msgs, x, y)
    /\ Leads(Contents(q), e, msgs, y, z)
    /\ Leads(Contents(p), e, msgs, z, [parts |-> <<>>, count |-> Len(msgs)])

LEMMA PipeArrives ==
  ASSUME NEW w, NEW q, NEW p, NEW e, NEW msgs, NEW x, Pipe(w, q, p, e, msgs, x)
  PROVE  Arriving(w, e, msgs, x)
  BY DEF Pipe, Arriving

LEMMA ArrivingOn ==
  ASSUME NEW w \in Seq(Piece), NEW e, NEW msgs \in Messages, NEW x, Arriving(w, e, msgs, x)
  PROVE  /\ \A m \in Seq(Part) : Arriving(w, e, Append(msgs, m), x)
         /\ \A h \in Piece : ~IsPart(h, e) => Arriving(Append(w, h), e, msgs, x)
  BY LeadsMore, LeadsOnIdle DEF Arriving

(* The reader takes the first piece.                                       *)
LEMMA PipeReads ==
  ASSUME NEW w \in Seq(Piece), w # <<>>, NEW q, NEW p, NEW e, NEW msgs, NEW x, NEW z,
         \A y \in State : Moves(w[1], e, msgs, x, y) => y = z
  PROVE  /\ Arriving(w, e, msgs, x) => Arriving(Tail(w), e, msgs, z) /\ Moves(w[1], e, msgs, x, z)
         /\ Pipe(w, q, p, e, msgs, x) => Pipe(Tail(w), q, p, e, msgs, z)
         /\ \A y : Leads(w, e, msgs, x, y) => Leads(Tail(w), e, msgs, z, y)
<1>1. ASSUME NEW y, Leads(w, e, msgs, x, y)
      PROVE  Leads(Tail(w), e, msgs, z, y) /\ Moves(w[1], e, msgs, x, z)
  BY <1>1, LeadsTail
<1>. QED  BY <1>1 DEF Arriving, Pipe

(* The writer writes a piece that is no part of a message.                 *)
LEMMA PipeIdle ==
  ASSUME NEW w \in Seq(Piece), NEW q, NEW p, NEW e, NEW msgs, NEW x, NEW h \in Piece, ~IsPart(h, e),
         Pipe(w, q, p, e, msgs, x)
  PROVE  Pipe(Append(w, h), q, p, e, msgs, x)
<1>1. \A y : Leads(w, e, msgs, x, y) => Leads(Append(w, h), e, msgs, x, y)
  BY LeadsOnIdle
<1>. QED  BY <1>1 DEF Pipe

(* The writer writes the content of its next frame.                        *)
LEMMA PipeWrites ==
  ASSUME NEW w \in Seq(Piece), NEW q \in Seq(AnyFrame), q # <<>>, NEW p, NEW e, NEW msgs, NEW x,
         Pipe(w, q, p, e, msgs, x)
  PROVE  Pipe(Append(w, Content(q[1])), Tail(q), p, e, msgs, x)
<1>1. PICK y \in State, z \in State :
        /\ Leads(w, e, msgs, x, y)
        /\ Leads(Contents(q), e, msgs, y, z)
        /\ Leads(Contents(p), e, msgs, z, [parts |-> <<>>, count |-> Len(msgs)])
  BY DEF Pipe
<1>2. /\ Contents(q) \in Seq(Piece) /\ Contents(q) # <<>> /\ Contents(q)[1] = Content(q[1])
      /\ Contents(Tail(q)) = Tail(Contents(q))
  BY ContentsOf
<1>3. PICK u \in State :
        Moves(Contents(q)[1], e, msgs, y, u) /\ Leads(Tail(Contents(q)), e, msgs, u, z)
  BY <1>1, <1>2, LeadsTail
<1>4. Content(q[1]) \in Piece
  BY <1>2, FirstOf
<1>5. Leads(Append(w, Content(q[1])), e, msgs, x, u)
  BY <1>1, <1>2, <1>3, <1>4, LeadsOn
<1>. QED  BY <1>1, <1>2, <1>3, <1>5 DEF Pipe

(* The strand runs a send.                                                 *)
LEMMA PipeRuns ==
  ASSUME NEW w, NEW q \in Seq(AnyFrame), NEW p \in Seq(AnyFrame), p # <<>>, NEW e, NEW msgs, NEW x,
         Pipe(w, q, p, e, msgs, x)
  PROVE  Pipe(w, Append(q, p[1]), Tail(p), e, msgs, x)
<1>. DEFINE last == [parts |-> <<>>, count |-> Len(msgs)]
<1>1. PICK y \in State, z \in State :
        /\ Leads(w, e, msgs, x, y)
        /\ Leads(Contents(q), e, msgs, y, z)
        /\ Leads(Contents(p), e, msgs, z, last)
  BY DEF Pipe
<1>. HIDE DEF last
<1>2. /\ Contents(p) \in Seq(Piece) /\ Contents(p) # <<>> /\ Contents(p)[1] = Content(p[1])
      /\ Contents(Tail(p)) = Tail(Contents(p))
  BY ContentsOf
<1>3. PICK u \in State :
        Moves(Contents(p)[1], e, msgs, z, u) /\ Leads(Tail(Contents(p)), e, msgs, u, last)
  BY <1>1, <1>2, LeadsTail
<1>4. p[1] \in AnyFrame
  BY FirstOf
<1>5. Content(p[1]) \in Piece /\ Contents(q) \in Seq(Piece)
      /\ Contents(Append(q, p[1])) = Append(Contents(q), Content(p[1]))
  BY <1>2, <1>4, FirstOf, ContentsOf
<1>6. Leads(Contents(Append(q, p[1])), e, msgs, y, u)
  BY <1>1, <1>2, <1>3, <1>5, LeadsOn
<1>. QED  BY <1>1, <1>2, <1>3, <1>6 DEF Pipe, last

(* The writer posts a control frame.                                       *)
LEMMA PipePosts ==
  ASSUME NEW w, NEW q, NEW p \in Seq(AnyFrame), NEW e, NEW msgs, NEW x,
         NEW f \in AnyFrame, ~IsPart(Content(f), e), Pipe(w, q, p, e, msgs, x)
  PROVE  Pipe(w, q, Append(p, f), e, msgs, x)
<1>1. /\ Contents(p) \in Seq(Piece) /\ Content(f) \in Piece
      /\ Contents(Append(p, f)) = Append(Contents(p), Content(f))
  BY ContentsOf, Pieces
<1>2. \A y, z : Leads(Contents(p), e, msgs, y, z) => Leads(Contents(Append(p, f)), e, msgs, y, z)
  BY <1>1, LeadsOnIdle
<1>. QED  BY <1>2 DEF Pipe

(* The writer's application sends a message.                               *)
LEMMA PipeSends ==
  ASSUME NEW w, NEW q, NEW p \in Seq(AnyFrame), NEW e, NEW msgs \in Messages, NEW x,
         NEW f \in AnyFrame, f.opcode = "text", f.fin = TRUE, f.payload \in Seq(Part),
         Pipe(w, q, p, e, msgs, x), IsPart(Content(f), e)
  PROVE  Pipe(w, q, Append(p, f), e, Append(msgs, f.payload), x)
<1>. DEFINE m == f.payload
            last == [parts |-> <<>>, count |-> Len(msgs)]
            more == Append(msgs, m)
            next == [parts |-> <<>>, count |-> Len(more)]
<1>1. PICK y \in State, z \in State :
        /\ Leads(w, e, msgs, x, y)
        /\ Leads(Contents(q), e, msgs, y, z)
        /\ Leads(Contents(p), e, msgs, z, last)
  BY DEF Pipe
<1>2. /\ Leads(w, e, more, x, y)
      /\ Leads(Contents(q), e, more, y, z)
      /\ Leads(Contents(p), e, more, z, last)
  BY <1>1, LeadsMore
<1>3. Len(msgs) \in Nat /\ Len(more) = Len(msgs) + 1 /\ more[Len(msgs) + 1] = m /\ <<>> \o m = m
  BY DEF Messages
<1>4. next \in State
  BY <1>3 DEF State
<1>5. Moves(Content(f), e, more, last, next)
  <2>1. Content(f).frame = f
    BY DEF Content
  <2>2. Len(msgs) + 1 \in 1..Len(more)
    BY <1>3
  <2>. HIDE DEF more
  <2>. QED  BY <1>3, <2>1, <2>2 DEF Moves
<1>. HIDE DEF last, next, more
<1>6. /\ Contents(p) \in Seq(Piece) /\ Content(f) \in Piece
      /\ Contents(Append(p, f)) = Append(Contents(p), Content(f))
  BY ContentsOf, Pieces
<1>7. Leads(Contents(Append(p, f)), e, more, z, next)
  BY <1>2, <1>4, <1>5, <1>6, LeadsOn
<1>. QED  BY <1>2, <1>7 DEF Pipe, next, more

-----------------------------------------------------------------------------
(* What a connection has put together, and what it has yet to write.       *)
Told(c) == [parts |-> c.fragmented_message, count |-> Len(c.received)]
Unwritten(c) == IF c.writing \in {"content", "frame"} THEN Tail(c.send_queue) ELSE c.send_queue

(* Connection c at end e becomes d and takes a piece, or none.             *)
Takes(e, c, d, w, v) ==
  \/ v = w /\ d.received = c.received /\ d.fragmented_message = c.fragmented_message
  \/ /\ w # <<>> /\ v = Tail(w)
     /\ \A msgs \in Messages : Prefix(c.received, msgs) =>
          \A y \in State : Moves(w[1], e, msgs, Told(c), y) => y = Told(d) /\ Prefix(d.received, msgs)

(* Connection c at e's peer becomes d and writes to e, or gets on with it. *)
Gives(e, c, d, w, v) ==
  \/ /\ v = w /\ Unwritten(d) = Unwritten(c) /\ d.sent = c.sent /\ d.posted = c.posted
  \/ /\ v = w /\ Unwritten(d) = Unwritten(c) /\ d.sent = c.sent
     /\ \E f \in AnyFrame : ~IsPart(Content(f), e) /\ d.posted = Append(c.posted, f)
  \/ /\ v = w /\ Unwritten(d) = Unwritten(c)
     /\ \E f \in AnyFrame :
          /\ f.opcode = "text" /\ f.fin = TRUE /\ IsPart(Content(f), e)
          /\ d.posted = Append(c.posted, f) /\ d.sent = Append(c.sent, f.payload)
  \/ /\ v = w /\ c.posted # <<>> /\ d.sent = c.sent
     /\ Unwritten(d) = Append(Unwritten(c), c.posted[1]) /\ d.posted = Tail(c.posted)
  \/ /\ \E h \in Piece : ~IsPart(h, e) /\ v = Append(w, h)
     /\ Unwritten(d) = Unwritten(c) /\ d.sent = c.sent /\ d.posted = c.posted

(* The frame it writes, with its header or after it.                       *)
GivesContent(c, d, w, v) ==
  /\ Unwritten(c) # <<>>
  /\ LET f == Unwritten(c)[1]
     IN v \in {Append(w, Content(f)), Append(Append(w, Header(f)), Content(f))}
  /\ Unwritten(d) = Tail(Unwritten(c)) /\ d.sent = c.sent /\ d.posted = c.posted

LEMMA FlowTakes ==
  ASSUME NEW w \in Seq(Piece), NEW v, NEW e, NEW c, NEW d, Takes(e, c, d, w, v),
         NEW msgs \in Messages, Prefix(c.received, msgs), Arriving(w, e, msgs, Told(c))
  PROVE  /\ Prefix(d.received, msgs) /\ Arriving(v, e, msgs, Told(d))
         /\ \A q, p : Pipe(w, q, p, e, msgs, Told(c)) => Pipe(v, q, p, e, msgs, Told(d))
         /\ \A y : Leads(w, e, msgs, Told(c), y) => Leads(v, e, msgs, Told(d), y)
<1>1. CASE v = w /\ d.received = c.received /\ d.fragmented_message = c.fragmented_message
  BY <1>1 DEF Told
<1>2. ASSUME w # <<>>, v = Tail(w),
             \A y \in State : Moves(w[1], e, msgs, Told(c), y) => y = Told(d) /\ Prefix(d.received, msgs)
      PROVE  /\ Prefix(d.received, msgs) /\ Arriving(v, e, msgs, Told(d))
             /\ \A q, p : Pipe(w, q, p, e, msgs, Told(c)) => Pipe(v, q, p, e, msgs, Told(d))
             /\ \A y : Leads(w, e, msgs, Told(c), y) => Leads(v, e, msgs, Told(d), y)
  <2>1. \A y \in State : Moves(w[1], e, msgs, Told(c), y) => y = Told(d)
    BY <1>2
  <2>2. Prefix(d.received, msgs)
    <3>1. PICK y \in State : Leads(w, e, msgs, Told(c), y)
      BY DEF Arriving
    <3>2. \E z \in State : Moves(w[1], e, msgs, Told(c), z)
      BY <1>2, <3>1, LeadsTail
    <3>. QED  BY <1>2, <3>2
  <2>3. Arriving(v, e, msgs, Told(d))
    BY <1>2, <2>1, PipeReads
  <2>4. \A q, p : Pipe(w, q, p, e, msgs, Told(c)) => Pipe(v, q, p, e, msgs, Told(d))
    BY <1>2, <2>1, PipeReads
  <2>5. \A y : Leads(w, e, msgs, Told(c), y) => Leads(v, e, msgs, Told(d), y)
    BY <1>2, <2>1, PipeReads
  <2>. QED  BY <2>2, <2>3, <2>4, <2>5
<1>3. CASE v = Tail(w) /\ w # <<>> /\
           \A y \in State : Moves(w[1], e, msgs, Told(c), y) => y = Told(d) /\ Prefix(d.received, msgs)
  BY <1>2, <1>3
<1>. QED  BY <1>1, <1>3 DEF Takes

LEMMA FlowGives ==
  ASSUME NEW w \in Seq(Piece), NEW v, NEW e, NEW c, NEW d, NEW x,
         c.sent \in Messages, c.posted \in Seq(AnyFrame), Unwritten(c) \in Seq(AnyFrame),
         Gives(e, c, d, w, v)
  PROVE  /\ Arriving(w, e, c.sent, x) => Arriving(v, e, d.sent, x)
         /\ Pipe(w, Unwritten(c), c.posted, e, c.sent, x) => Pipe(v, Unwritten(d), d.posted, e, d.sent, x)
         /\ \A s \in Messages : Prefix(s, c.sent) => Prefix(s, d.sent)
<1>. DEFINE Goal ==
       /\ Arriving(w, e, c.sent, x) => Arriving(v, e, d.sent, x)
       /\ Pipe(w, Unwritten(c), c.posted, e, c.sent, x) => Pipe(v, Unwritten(d), d.posted, e, d.sent, x)
       /\ \A s \in Messages : Prefix(s, c.sent) => Prefix(s, d.sent)
<1>1. CASE /\ v = w /\ Unwritten(d) = Unwritten(c) /\ d.sent = c.sent /\ d.posted = c.posted
  BY <1>1
<1>2. ASSUME v = w, Unwritten(d) = Unwritten(c), d.sent = c.sent,
             NEW f \in AnyFrame, ~IsPart(Content(f), e), d.posted = Append(c.posted, f)
      PROVE  Goal
  BY <1>2, PipePosts
<1>3. ASSUME v = w, Unwritten(d) = Unwritten(c),
             NEW f \in AnyFrame, f.opcode = "text", f.fin = TRUE, IsPart(Content(f), e),
             d.posted = Append(c.posted, f), d.sent = Append(c.sent, f.payload)
      PROVE  Goal
  <2>1. f.payload \in Seq(Part)
    BY DEF AnyFrame
  <2>2. Arriving(w, e, c.sent, x) => Arriving(v, e, d.sent, x)
    BY <1>3, <2>1, ArrivingOn
  <2>3. Pipe(w, Unwritten(c), c.posted, e, c.sent, x) => Pipe(v, Unwritten(d), d.posted, e, d.sent, x)
    BY <1>3, <2>1, PipeSends
  <2>4. \A s \in Messages : Prefix(s, c.sent) => Prefix(s, d.sent)
    BY <1>3, <2>1, PrefixMore
  <2>. QED  BY <2>2, <2>3, <2>4
<1>4. CASE /\ v = w /\ c.posted # <<>> /\ d.sent = c.sent
           /\ Unwritten(d) = Append(Unwritten(c), c.posted[1]) /\ d.posted = Tail(c.posted)
  BY <1>4, PipeRuns
<1>5. ASSUME NEW h \in Piece, ~IsPart(h, e), v = Append(w, h),
             Unwritten(d) = Unwritten(c), d.sent = c.sent, d.posted = c.posted
      PROVE  Goal
  BY <1>5, ArrivingOn, PipeIdle
<1>. QED  BY <1>1, <1>2, <1>3, <1>4, <1>5 DEF Gives

LEMMA FlowGivesContent ==
  ASSUME NEW w \in Seq(Piece), NEW v, NEW e, NEW c, NEW d, NEW x,
         Unwritten(c) \in Seq(AnyFrame), GivesContent(c, d, w, v),
         Pipe(w, Unwritten(c), c.posted, e, c.sent, x)
  PROVE  Pipe(v, Unwritten(d), d.posted, e, d.sent, x)
<1>. DEFINE q == Unwritten(c)
            f == q[1]
<1>1. q \in Seq(AnyFrame) /\ q # <<>>
  BY DEF GivesContent
<1>2. f \in AnyFrame
  BY <1>1, FirstOf
<1>3. Header(f) \in Piece /\ Append(w, Header(f)) \in Seq(Piece)
  BY <1>2, Pieces, Appended
<1>4. ~IsPart(Header(f), e)
  BY DEF IsPart, Header
<1>5. /\ Unwritten(d) = Tail(q) /\ d.sent = c.sent /\ d.posted = c.posted
      /\ v = Append(w, Content(f)) \/ v = Append(Append(w, Header(f)), Content(f))
  BY DEF GivesContent
<1>. HIDE DEF q
<1>6. Pipe(w, q, c.posted, e, c.sent, x)
  BY DEF q
<1>7. CASE v = Append(w, Content(f))
  BY <1>1, <1>5, <1>6, <1>7, PipeWrites
<1>8. CASE v = Append(Append(w, Header(f)), Content(f))
  <2>1. Pipe(Append(w, Header(f)), q, c.posted, e, c.sent, x)
    BY <1>3, <1>4, <1>6, PipeIdle
  <2>. QED  BY <1>1, <1>3, <1>5, <1>8, <2>1, PipeWrites
<1>. QED  BY <1>5, <1>7, <1>8

LEMMA TakesIdle ==
  ASSUME NEW w \in Seq(Piece), w # <<>>, NEW e, NEW c, NEW d, ~IsPart(w[1], e),
         d.received = c.received, d.fragmented_message = c.fragmented_message
  PROVE  Takes(e, c, d, w, Tail(w))
<1>1. Told(d) = Told(c)
  BY DEF Told
<1>2. \A msgs : \A y \in State : Moves(w[1], e, msgs, Told(c), y) => y = Told(c)
  BY DEF Moves
<1>. QED  BY <1>1, <1>2 DEF Takes, Prefix

LEMMA TakesFragment ==
  ASSUME NEW w \in Seq(Piece), w # <<>>, NEW e, NEW c, NEW d, NEW f \in AnyFrame, w[1] = Content(f),
         IsPart(Content(f), e), f.fin = FALSE, d.received = c.received,
         d.fragmented_message = c.fragmented_message \o f.payload
  PROVE  Takes(e, c, d, w, Tail(w))
<1>1. \A msgs, y : Moves(Content(f), e, msgs, Told(c), y) => y = Told(d)
  BY DEF Moves, Told, Content
<1>. QED  BY <1>1 DEF Takes, Prefix

LEMMA TakesMessage ==
  ASSUME NEW w \in Seq(Piece), w # <<>>, NEW e, NEW c, NEW d, NEW f \in AnyFrame, w[1] = Content(f),
         IsPart(Content(f), e), f.fin = TRUE,
         c.received \in Messages, c.fragmented_message \in Seq(Part),
         d.fragmented_message = <<>>,
         NEW m \in Seq(Part), d.received = Append(c.received, m),
         m = c.fragmented_message \o f.payload \/ (f.opcode = "text" /\ m = f.payload)
  PROVE  Takes(e, c, d, w, Tail(w))
<1>1. SUFFICES ASSUME NEW msgs \in Messages, Prefix(c.received, msgs), NEW y \in State,
                      Moves(Content(f), e, msgs, Told(c), y)
               PROVE  y = Told(d) /\ Prefix(d.received, msgs)
  BY DEF Takes
<1>2. /\ f.opcode = "text" => c.fragmented_message = <<>>
      /\ y = [parts |-> <<>>, count |-> Len(c.received) + 1]
      /\ Len(c.received) + 1 \in 1..Len(msgs)
      /\ msgs[Len(c.received) + 1] = c.fragmented_message \o f.payload
  <2>1. Content(f).frame = f
    BY DEF Content
  <2>. QED  BY <1>1, <2>1 DEF Moves, Told
<1>3. m = c.fragmented_message \o f.payload
  <2>1. f.payload \in Seq(Part)
    BY DEF AnyFrame
  <2>2. \A t \in Seq(Part) : <<>> \o t = t
    OBVIOUS
  <2>. QED  BY <1>2, <2>1, <2>2
<1>4. Prefix(d.received, msgs)
  BY <1>1, <1>2, <1>3, PrefixNext
<1>5. Len(d.received) = Len(c.received) + 1
  BY DEF Messages
<1>. QED  BY <1>2, <1>4, <1>5 DEF Told

LEMMA ServerTakes ==
  ASSUME TcpOK, ServerOK, S!Next, ServerReading, ServerLife, link # "server"
  PROVE  Takes("server", server, server', wire["server"], wire'["server"])
<1>. DEFINE w == wire["server"]
<1>1. w \in Seq(Piece)
  BY DEF TcpOK, End
<1>2. CASE \/ S!Start \/ S!Stop \/ S!StopService \/ S!TimerExpires \/ S!TimerCloses \/ S!AppSends
           \/ S!Exit \/ S!Release \/ S!Accept \/ S!ReadHandshakeFails \/ S!WriteHandshakeFails
           \/ S!ReadFails \/ S!Open \/ S!ReadLength
  <2>1. wire' = wire
    BY <1>2, ServerStarts, ServerStops, ServerStopsService, ServerTimerExpires, ServerTimerCloses,
       ServerSends, ServerExits, ServerReleases, ServerAccepts, ServerReadHandshakeFails, ServerErrs,
       ServerOpens, ServerReadsLength DEF WireKept
  <2>2. Kept(server, server', {"service", "connection", "armed", "queued", "posted", "sent",
                               "phase", "opened", "ended"})
    <3>1. CASE \/ S!Start \/ S!Stop \/ S!StopService \/ S!TimerExpires \/ S!TimerCloses \/ S!AppSends
               \/ S!Exit \/ S!Release
      BY <3>1, ServerStarts, ServerStops, ServerStopsService, ServerTimerExpires, ServerTimerCloses,
         ServerSends, ServerExits, ServerReleases DEF Kept
    <3>2. CASE \/ S!Accept \/ S!ReadHandshakeFails \/ S!WriteHandshakeFails
               \/ S!ReadFails \/ S!Open \/ S!ReadLength
      BY <3>2, ServerAccepts, ServerReadHandshakeFails, ServerErrs, ServerOpens, ServerReadsLength
         DEF Kept
    <3>. QED  BY <1>2, <3>1, <3>2
  <2>3. server'.received = server.received /\ server'.fragmented_message = server.fragmented_message
    BY <2>2, ServerKeeps
  <2>. QED  BY <2>1, <2>3 DEF Takes
<1>3. CASE \/ S!RunSend \/ S!FinishWrite \/ S!WriteFails
           \/ S!WriteHandshake \/ S!WriteHeader \/ S!WriteContent
  <2>1. Kept(server, server', {"posted", "send_queue", "writing", "phase"})
    BY <1>3, ServerRunsSend, ServerFinishesWrite, ServerWriteFails, ServerWritesHandshake,
       ServerWritesHeader, ServerWritesContent DEF Kept
  <2>2. server'.received = server.received /\ server'.fragmented_message = server.fragmented_message
    BY <2>1, ServerKeeps
  <2>3. wire' = wire \/ \E pieces : Writes("server", pieces)
    BY <1>3, ServerRunsSend, ServerFinishesWrite, ServerWriteFails, ServerWritesHandshake,
       ServerWritesHeader, ServerWritesContent DEF WireKept
  <2>4. wire'["server"] = w
    BY <2>3 DEF Writes, Peer, TcpOK, End
  <2>. QED  BY <2>2, <2>4 DEF Takes
<1>4. ASSUME NEW kind, Reads("server", kind)
      PROVE  w # <<>> /\ wire'["server"] = Tail(w) /\ w[1].piece = kind
  BY <1>4 DEF Reads, TcpOK, End
<1>5. ASSUME server' = S!ConnectionClose(S!SendClose(server))
      PROVE  server'.received = server.received /\ server'.fragmented_message = server.fragmented_message
  BY <1>5, ServerSendsClose, ServerKeeps
<1>6. CASE S!ReadHandshake \/ S!ReadHeader
  <2>1. PICK kind \in {"request", "header"} : Reads("server", kind)
    BY <1>6, ServerReadsHandshake, ServerReadsHeader
  <2>2. Kept(server, server', {"phase", "armed", "frame"}) \/ server' = S!ConnectionClose(S!SendClose(server))
    BY <1>6, ServerReadsHandshake, ServerReadsHeader DEF Kept
  <2>3. server'.received = server.received /\ server'.fragmented_message = server.fragmented_message
    BY <1>5, <2>2, ServerKeeps
  <2>4. w # <<>> /\ wire'["server"] = Tail(w) /\ ~IsPart(w[1], "server")
    BY <1>4, <2>1 DEF IsPart
  <2>. QED  BY <1>1, <2>3, <2>4, TakesIdle
<1>7. ASSUME server.phase = "content", Reads("server", "content")
      PROVE  /\ w # <<>> /\ wire'["server"] = Tail(w) /\ w[1] = Content(server.frame)
             /\ server.frame \in AnyFrame /\ server.frame.masked = TRUE
             /\ IsPart(w[1], "server") <=> server.frame.opcode \in {"text", "continuation"}
  <2>1. w[1] = Content(server.frame) /\ server.frame.masked = TRUE
    BY <1>7 DEF ServerReading
  <2>2. server.frame \in AnyFrame
    BY DEF ServerOK, ConnectionOK
  <2>3. Content(server.frame).frame = server.frame /\ Content(server.frame).piece = "content"
    BY DEF Content
  <2>. QED  BY <1>4, <1>7, <2>1, <2>2, <2>3 DEF IsPart
<1>8. CASE S!ReadClose \/ S!ReadPing \/ S!ReadPong
  <2>1. /\ server.phase = "content" /\ Reads("server", "content")
        /\ server.frame.opcode \in {"close", "ping", "pong"}
    BY <1>8, ServerReadsClose, ServerReadsPing, ServerReadsPong
  <2>2. Kept(server, server', {"phase", "posted"}) \/ server' = S!ConnectionClose(S!SendClose(server))
    BY <1>8, ServerReadsClose, ServerReadsPing, ServerReadsPong DEF Kept
  <2>3. server'.received = server.received /\ server'.fragmented_message = server.fragmented_message
    BY <1>5, <2>2, ServerKeeps
  <2>4. w # <<>> /\ wire'["server"] = Tail(w) /\ ~IsPart(w[1], "server")
    BY <1>7, <2>1
  <2>. QED  BY <1>1, <2>3, <2>4, TakesIdle
<1>9. server.received \in Messages /\ server.fragmented_message \in Seq(Part)
  BY DEF ServerOK, ConnectionOK, Messages
<1>10. CASE S!ReadFragment
  <2>1. /\ server.phase = "content" /\ w # <<>>
        /\ server.frame.opcode \in {"text", "continuation"} /\ ~server.frame.fin
        /\ Kept(server, server', {"phase", "fragmented_message"})
        /\ server'.fragmented_message = server.fragmented_message \o server.frame.payload
        /\ Reads("server", "content")
    BY <1>10, ServerReadsFragment DEF Reads
  <2>2. Kept(server, server', {"phase", "fragmented_message"})
    BY <2>1
  <2>3. server'.received = server.received
    BY <2>2, ServerKeeps
  <2>4. /\ w # <<>> /\ wire'["server"] = Tail(w) /\ w[1] = Content(server.frame)
        /\ server.frame \in AnyFrame /\ IsPart(Content(server.frame), "server")
    BY <1>7, <2>1
  <2>5. server.frame.fin = FALSE
    BY <2>1, <2>4 DEF AnyFrame
  <2>. QED  BY <1>1, <2>1, <2>3, <2>4, <2>5, TakesFragment
<1>11. CASE S!ReadMessage
  <2>. DEFINE joined == server.fragmented_message \o server.frame.payload
              m == IF server.frame.opcode = "continuation" THEN joined ELSE server.frame.payload
  <2>1. /\ server.phase = "content" /\ w # <<>>
        /\ server.frame.opcode \in {"text", "continuation"} /\ server.frame.fin
        /\ server'.fragmented_message = <<>>
        /\ server'.received = Append(server.received, m)
        /\ Reads("server", "content")
    BY <1>11, ServerReadsMessage DEF Reads
  <2>2. /\ w # <<>> /\ wire'["server"] = Tail(w) /\ w[1] = Content(server.frame)
        /\ server.frame \in AnyFrame /\ IsPart(Content(server.frame), "server")
    BY <1>7, <2>1
  <2>3. server.frame.fin = TRUE /\ server.frame.payload \in Seq(Part)
    BY <2>1, <2>2 DEF AnyFrame
  <2>4. joined \in Seq(Part)
    BY <1>9, <2>3, JoinedSeq
  <2>5. m \in Seq(Part) /\ (m = joined \/ (server.frame.opcode = "text" /\ m = server.frame.payload))
    BY <2>1, <2>3, <2>4
  <2>6. server'.fragmented_message = <<>> /\ server'.received = Append(server.received, m)
    BY <2>1
  <2>. HIDE DEF m
  <2>. QED  BY <1>1, <1>9, <2>2, <2>3, <2>5, <2>6, TakesMessage
<1>. QED
  BY <1>2, <1>3, <1>6, <1>8, <1>10, <1>11 DEF S!Next, S!Handlers, S!Handshake, S!Read, S!Writing

LEMMA ClientTakes ==
  ASSUME TcpOK, ClientOK, C!Next, ClientReading, ClientLife, link # "client"
  PROVE  Takes("client", client, client', wire["client"], wire'["client"])
<1>. DEFINE w == wire["client"]
<1>1. w \in Seq(Piece)
  BY DEF TcpOK, End
<1>2. CASE \/ C!Start \/ C!Stop \/ C!AppSends \/ C!Resolve \/ C!Connect \/ C!ConnectFails \/ C!Fails
           \/ C!ReadLength \/ C!RunSend \/ C!FinishWrite \/ C!WriteFails
  <2>1. wire' = wire
    BY <1>2, ClientStarts, ClientStops, ClientSends, ClientResolves, ClientConnects, ClientErrs,
       ClientReadsLength, ClientRunsSend, ClientFinishesWrite, ClientWriteFails DEF WireKept
  <2>2. Kept(client, client', {"service", "phase", "posted", "sent", "closed", "ended",
                               "send_queue", "writing"})
    <3>1. CASE C!Start \/ C!Stop \/ C!AppSends \/ C!Resolve \/ C!Connect
      BY <3>1, ClientStarts, ClientStops, ClientSends, ClientResolves, ClientConnects DEF Kept
    <3>2. CASE C!ConnectFails \/ C!Fails \/ C!ReadLength \/ C!RunSend \/ C!FinishWrite \/ C!WriteFails
      BY <3>2, ClientErrs, ClientReadsLength, ClientRunsSend, ClientFinishesWrite, ClientWriteFails
         DEF Kept
    <3>. QED  BY <1>2, <3>1, <3>2
  <2>3. client'.received = client.received /\ client'.fragmented_message = client.fragmented_message
    BY <2>2, ClientKeeps
  <2>. QED  BY <2>1, <2>3 DEF Takes
<1>3. CASE C!WriteHandshake \/ C!WriteFrame
  <2>1. Kept(client, client', {"writing", "phase"})
    BY <1>3, ClientWritesHandshake, ClientWritesFrame DEF Kept
  <2>2. client'.received = client.received /\ client'.fragmented_message = client.fragmented_message
    BY <2>1, ClientKeeps
  <2>3. wire'["client"] = w
    <3>1. CASE C!WriteHandshake
      BY <3>1, ClientWritesHandshake DEF TcpOK, End
    <3>2. CASE C!WriteFrame
      <4>1. \E pieces : Writes("client", pieces)
        BY <3>2, ClientWritesFrame
      <4>. QED  BY <4>1 DEF Writes, Peer, TcpOK, End
    <3>. QED  BY <1>3, <3>1, <3>2
  <2>. QED  BY <2>2, <2>3 DEF Takes
<1>4. ASSUME wire' = [wire EXCEPT !["client"] = Tail(@)]
      PROVE  wire'["client"] = Tail(w)
  BY <1>4 DEF TcpOK, End
<1>5. CASE C!ReadHeader
  <2>1. /\ w # <<>> /\ w[1].piece = "header" /\ wire'["client"] = Tail(w)
        /\ Kept(client, client', {"service", "phase", "posted", "closed", "ended", "frame"})
    BY <1>4, <1>5, ClientReadsHeader DEF ClientCloses, Kept
  <2>2. client'.received = client.received /\ client'.fragmented_message = client.fragmented_message
    BY <2>1, ClientKeeps
  <2>3. ~IsPart(w[1], "client")
    BY <2>1 DEF IsPart
  <2>. QED  BY <1>1, <2>1, <2>2, <2>3, TakesIdle
<1>6. CASE C!ReadHandshake
  <2>1. /\ w # <<>> /\ wire'["client"] = Tail(w)
        /\ Kept(client, client', {"service", "phase", "posted", "closed", "ended", "opened"})
    BY <1>4, <1>6, ClientReadsHandshake DEF Kept
  <2>2. client'.received = client.received /\ client'.fragmented_message = client.fragmented_message
    BY <2>1, ClientKeeps
  <2>3. w[1].piece = "response"
    BY <1>1, <1>6 DEF C!ReadHandshake, C!Arrived
  <2>4. ~IsPart(w[1], "client")
    BY <2>3 DEF IsPart
  <2>. QED  BY <1>1, <2>1, <2>2, <2>4, TakesIdle
<1>7. ASSUME client.phase = "content", w # <<>>, wire' = [wire EXCEPT !["client"] = Tail(@)]
      PROVE  /\ w # <<>> /\ wire'["client"] = Tail(w) /\ w[1] = Content(client.frame)
             /\ client.frame \in AnyFrame /\ client.frame.masked = FALSE
             /\ IsPart(w[1], "client") <=> client.frame.opcode \in {"text", "continuation"}
  <2>1. w[1] = Content(client.frame) /\ client.frame.masked = FALSE
    BY <1>7 DEF ClientReading
  <2>2. client.frame \in AnyFrame
    BY DEF ClientOK, ConnectionOK
  <2>3. Content(client.frame).frame = client.frame /\ Content(client.frame).piece = "content"
    BY DEF Content
  <2>. QED  BY <1>4, <1>7, <2>1, <2>2, <2>3 DEF IsPart
<1>8. CASE C!ReadClose \/ C!ReadPing \/ C!ReadPong
  <2>1. /\ client.phase = "content" /\ client.frame.opcode \in {"close", "ping", "pong"}
        /\ w # <<>> /\ wire' = [wire EXCEPT !["client"] = Tail(@)]
    BY <1>8, ClientReadsClose, ClientReadsPing, ClientReadsPong DEF Reads
  <2>2. Kept(client, client', {"service", "phase", "posted", "closed", "ended"})
    BY <1>8, ClientReadsClose, ClientReadsPing, ClientReadsPong DEF Kept, ClientCloses
  <2>3. client'.received = client.received /\ client'.fragmented_message = client.fragmented_message
    BY <2>2, ClientKeeps
  <2>4. wire'["client"] = Tail(w) /\ ~IsPart(w[1], "client")
    BY <1>7, <2>1
  <2>. QED  BY <1>1, <2>1, <2>3, <2>4, TakesIdle
<1>9. client.received \in Messages /\ client.fragmented_message \in Seq(Part)
  BY DEF ClientOK, ConnectionOK, Messages
<1>10. CASE C!ReadFragment
  <2>1. /\ client.phase = "content" /\ w # <<>>
        /\ client.frame.opcode \in {"text", "continuation"} /\ ~client.frame.fin
        /\ Kept(client, client', {"phase", "fragmented_message"})
        /\ client'.fragmented_message = client.fragmented_message \o client.frame.payload
        /\ wire' = [wire EXCEPT !["client"] = Tail(@)]
    BY <1>10, ClientReadsFragment DEF Reads
  <2>2. Kept(client, client', {"phase", "fragmented_message"})
    BY <2>1
  <2>3. client'.received = client.received
    BY <2>2, ClientKeeps
  <2>4. /\ w # <<>> /\ wire'["client"] = Tail(w) /\ w[1] = Content(client.frame)
        /\ client.frame \in AnyFrame /\ IsPart(Content(client.frame), "client")
    BY <1>7, <2>1
  <2>5. client.frame.fin = FALSE
    BY <2>1, <2>4 DEF AnyFrame
  <2>. QED  BY <1>1, <2>1, <2>3, <2>4, <2>5, TakesFragment
<1>11. CASE C!ReadMessage
  <2>. DEFINE joined == client.fragmented_message \o client.frame.payload
              m == joined
  <2>1. /\ client.phase = "content" /\ w # <<>>
        /\ client.frame.opcode \in {"text", "continuation"} /\ client.frame.fin
        /\ client'.fragmented_message = <<>>
        /\ client'.received = Append(client.received, m)
        /\ wire' = [wire EXCEPT !["client"] = Tail(@)]
    BY <1>11, ClientReadsMessage DEF Reads
  <2>2. /\ w # <<>> /\ wire'["client"] = Tail(w) /\ w[1] = Content(client.frame)
        /\ client.frame \in AnyFrame /\ IsPart(Content(client.frame), "client")
    BY <1>7, <2>1
  <2>3. client.frame.fin = TRUE /\ client.frame.payload \in Seq(Part)
    BY <2>1, <2>2 DEF AnyFrame
  <2>4. joined \in Seq(Part)
    BY <1>9, <2>3, JoinedSeq
  <2>5. m \in Seq(Part) /\ (m = joined \/ (client.frame.opcode = "text" /\ m = client.frame.payload))
    BY <2>1, <2>3, <2>4
  <2>6. client'.fragmented_message = <<>> /\ client'.received = Append(client.received, m)
    BY <2>1
  <2>. HIDE DEF m
  <2>. QED  BY <1>1, <1>9, <2>2, <2>3, <2>5, <2>6, TakesMessage
<1>. QED
  BY <1>2, <1>3, <1>5, <1>6, <1>8, <1>10, <1>11 DEF C!Next, C!Handlers, C!Handshake, C!Read, C!Writing

(* What e writes to its peer arrives, or is lost on a peer that has gone.  *)
LEMMA EndWrites ==
  ASSUME TcpOK, Connected, NEW e \in End, NEW pieces, Writes(e, pieces)
  PROVE  /\ socket' = socket /\ wire'[e] = wire[e]
         /\ \/ Severed' /\ wire'[Peer(e)] = wire[Peer(e)]
            \/ ~Severed' /\ ~Severed /\ wire'[Peer(e)] = wire[Peer(e)] \o pieces
  BY DEF TcpOK, Connected, Writes, Peer, Severed, End

LEMMA AppendIsJoin ==
  ASSUME NEW w \in Seq(Piece), NEW p \in Piece
  PROVE  /\ w \o <<p>> = Append(w, p)
         /\ \A q \in Piece : w \o <<p, q>> = Append(Append(w, p), q)
  OBVIOUS

LEMMA OwnQueues ==
  /\ ServerOK => server.posted \in Seq(AnyFrame) /\ server.send_queue \in Seq(AnyFrame)
  /\ ClientOK => client.posted \in Seq(AnyFrame) /\ client.send_queue \in Seq(AnyFrame)
<1>1. /\ \A s \in Seq(ServerFrame) : s \in Seq(AnyFrame)
      /\ \A s \in Seq(ClientFrame) : s \in Seq(AnyFrame)
  BY OwnFrames
<1>. QED  BY <1>1 DEF ServerOK, ClientOK, ConnectionOK

LEMMA OwnParts ==
  /\ \A m \in Seq(Part) :
       /\ Frame(TRUE, "text", FALSE, m) \in AnyFrame /\ IsPart(Content(Frame(TRUE, "text", FALSE, m)), "client")
       /\ Frame(TRUE, "text", TRUE, m) \in AnyFrame /\ IsPart(Content(Frame(TRUE, "text", TRUE, m)), "server")
  /\ \A opcode \in {"close", "pong"} :
       /\ Frame(TRUE, opcode, FALSE, <<>>) \in AnyFrame /\ ~IsPart(Content(Frame(TRUE, opcode, FALSE, <<>>)), "client")
       /\ Frame(TRUE, opcode, TRUE, <<>>) \in AnyFrame /\ ~IsPart(Content(Frame(TRUE, opcode, TRUE, <<>>)), "server")
<1>1. <<>> \in Seq(Part)
  OBVIOUS
<1>. QED  BY <1>1 DEF AnyFrame, Frame, IsPart, Content

LEMMA IdlePieces ==
  /\ \A f \in AnyFrame : \A e : Header(f) \in Piece /\ ~IsPart(Header(f), e)
  /\ \A good \in BOOLEAN : \A e : /\ Request(good) \in Piece /\ ~IsPart(Request(good), e)
                                  /\ Response(good) \in Piece /\ ~IsPart(Response(good), e)
<1>1. /\ \A f \in AnyFrame : Header(f) \in Piece
      /\ \A good \in BOOLEAN : Request(good) \in Piece /\ Response(good) \in Piece
  BY Pieces
<1>. QED  BY <1>1 DEF IsPart, Header, Request, Response

(* A write that goes nowhere.                                              *)
Lost(c, d, w, v) == Severed' /\ v = w /\ d.sent = c.sent

LEMMA QueueRuns ==
  ASSUME NEW c, NEW d, NEW f \in AnyFrame, c.send_queue \in Seq(AnyFrame),
         c.writing = "none" <=> c.send_queue = <<>>,
         d.send_queue = Append(c.send_queue, f),
         d.writing = IF c.send_queue = <<>> THEN "posted" ELSE c.writing
  PROVE  Unwritten(d) = Append(Unwritten(c), f)
<1>1. \A q \in Seq(AnyFrame) : q # <<>> => Tail(Append(q, f)) = Append(Tail(q), f)
  OBVIOUS
<1>. QED  BY <1>1 DEF Unwritten

LEMMA ServerGives ==
  ASSUME TcpOK, ServerOK, S!Next, ServerLife, link # "server", Severed => Severed'
  PROVE  \/ Gives("client", server, server', wire["client"], wire'["client"])
         \/ ~Severed' /\ GivesContent(server, server', wire["client"], wire'["client"])
         \/ Lost(server, server', wire["client"], wire'["client"])
<1>. DEFINE w == wire["client"]
<1>1. /\ w \in Seq(Piece)
      /\ server.posted \in Seq(AnyFrame) /\ server.send_queue \in Seq(AnyFrame)
      /\ server.writing = "none" <=> server.send_queue = <<>>
  BY OwnQueues DEF TcpOK, End, ServerOK, ConnectionOK
<1>2. ASSUME wire'["client"] = w, server'.send_queue = server.send_queue,
             server'.writing = server.writing, server'.sent = server.sent,
             \/ server'.posted = server.posted
             \/ \E f \in AnyFrame : ~IsPart(Content(f), "client") /\ server'.posted = Append(server.posted, f)
      PROVE  Gives("client", server, server', w, wire'["client"])
  <2>1. Unwritten(server') = Unwritten(server)
    BY <1>2 DEF Unwritten
  <2>. QED  BY <1>2, <2>1 DEF Gives
<1>3. ASSUME NEW kind, Reads("server", kind)
      PROVE  wire'["client"] = w
  BY <1>3 DEF Reads, TcpOK, End
<1>4. CASE \/ S!Start \/ S!Stop \/ S!StopService \/ S!TimerExpires \/ S!TimerCloses
           \/ S!Exit \/ S!Release \/ S!Accept \/ S!ReadHandshakeFails \/ S!WriteHandshakeFails
           \/ S!ReadFails \/ S!Open \/ S!ReadLength
  <2>1. wire' = wire
    BY <1>4, ServerStarts, ServerStops, ServerStopsService, ServerTimerExpires, ServerTimerCloses,
       ServerExits, ServerReleases, ServerAccepts, ServerReadHandshakeFails, ServerErrs,
       ServerOpens, ServerReadsLength DEF WireKept
  <2>2. Kept(server, server', {"service", "connection", "armed", "queued", "phase", "opened", "ended"})
    <3>1. CASE \/ S!Start \/ S!Stop \/ S!StopService \/ S!TimerExpires \/ S!TimerCloses
               \/ S!Exit \/ S!Release
      BY <3>1, ServerStarts, ServerStops, ServerStopsService, ServerTimerExpires, ServerTimerCloses,
         ServerExits, ServerReleases DEF Kept
    <3>2. CASE \/ S!Accept \/ S!ReadHandshakeFails \/ S!WriteHandshakeFails
               \/ S!ReadFails \/ S!Open \/ S!ReadLength
      BY <3>2, ServerAccepts, ServerReadHandshakeFails, ServerErrs, ServerOpens, ServerReadsLength
         DEF Kept
    <3>. QED  BY <1>4, <3>1, <3>2
  <2>3. /\ server'.send_queue = server.send_queue /\ server'.writing = server.writing
        /\ server'.sent = server.sent /\ server'.posted = server.posted
    BY <2>2, ServerKeeps
  <2>. QED  BY <1>2, <2>1, <2>3
<1>5. ASSUME server' = S!ConnectionClose(S!SendClose(server)), wire'["client"] = w
      PROVE  Gives("client", server, server', w, wire'["client"])
  <2>1. /\ Kept(server, server', {"phase", "posted", "closed", "armed", "connection", "ended"})
        /\ server'.posted \in {server.posted,
                               Append(server.posted, Frame(TRUE, "close", FALSE, <<>>))}
    BY <1>5, ServerSendsClose
  <2>2. /\ server'.send_queue = server.send_queue /\ server'.writing = server.writing
        /\ server'.sent = server.sent
    BY <2>1, ServerKeeps
  <2>. QED  BY <1>2, <1>5, <2>1, <2>2, OwnParts
<1>6. CASE S!ReadHandshake \/ S!ReadPong \/ S!ReadFragment \/ S!ReadMessage
  <2>1. /\ wire'["client"] = w
        /\ Kept(server, server', {"phase", "armed", "fragmented_message", "received"})
    BY <1>3, <1>6, ServerReadsHandshake, ServerReadsPong, ServerReadsFragment, ServerReadsMessage DEF Kept
  <2>2. /\ server'.send_queue = server.send_queue /\ server'.writing = server.writing
        /\ server'.sent = server.sent /\ server'.posted = server.posted
    BY <2>1, ServerKeeps
  <2>. QED  BY <1>2, <2>1, <2>2
<1>7. CASE S!ReadClose
  BY <1>3, <1>5, <1>7, ServerReadsClose
<1>8. CASE S!ReadHeader
  <2>1. wire'["client"] = w
    BY <1>3, <1>8, ServerReadsHeader
  <2>2. CASE Kept(server, server', {"phase", "frame"})
    <3>1. /\ server'.send_queue = server.send_queue /\ server'.writing = server.writing
          /\ server'.sent = server.sent /\ server'.posted = server.posted
      BY <2>2, ServerKeeps
    <3>. QED  BY <1>2, <2>1, <3>1
  <2>. QED  BY <1>5, <1>8, <2>1, <2>2, ServerReadsHeader
<1>9. CASE S!ReadPing
  <2>1. /\ wire'["client"] = w
        /\ Kept(server, server', {"phase", "posted"})
        /\ server'.posted = Append(server.posted, Frame(TRUE, "pong", FALSE, <<>>))
    BY <1>3, <1>9, ServerReadsPing
  <2>3. Kept(server, server', {"phase", "posted"})
    BY <2>1
  <2>2. /\ server'.send_queue = server.send_queue /\ server'.writing = server.writing
        /\ server'.sent = server.sent
    BY <2>3, ServerKeeps
  <2>. QED  BY <1>2, <2>1, <2>2, OwnParts
<1>10. CASE S!AppSends
  <2>1. /\ wire' = wire /\ Kept(server, server', {"posted", "sent"})
        /\ \E m \in Seq(Part) :
             /\ server'.posted = Append(server.posted, Frame(TRUE, "text", FALSE, m))
             /\ server'.sent = Append(server.sent, m)
    BY <1>10, ServerSends DEF WireKept
  <2>2. PICK m \in Seq(Part) :
             /\ server'.posted = Append(server.posted, Frame(TRUE, "text", FALSE, m))
             /\ server'.sent = Append(server.sent, m)
    BY <2>1
  <2>. DEFINE f == Frame(TRUE, "text", FALSE, m)
  <2>7. Kept(server, server', {"posted", "sent"})
    BY <2>1
  <2>3. Unwritten(server') = Unwritten(server)
    BY <2>7, ServerKeeps DEF Unwritten
  <2>4. f \in AnyFrame /\ IsPart(Content(f), "client")
    BY OwnParts
  <2>5. f.opcode = "text" /\ f.fin = TRUE /\ f.payload = m
    BY DEF Frame
  <2>6. server'.posted = Append(server.posted, f) /\ server'.sent = Append(server.sent, f.payload)
    BY <2>2, <2>5
  <2>. HIDE DEF f
  <2>. QED  BY <2>1, <2>3, <2>4, <2>5, <2>6 DEF Gives
<1>11. CASE S!RunSend
  <2>1. /\ wire' = wire /\ Kept(server, server', {"posted", "send_queue", "writing"})
        /\ server.posted # <<>> /\ server'.posted = Tail(server.posted)
        /\ server'.send_queue = Append(server.send_queue, server.posted[1])
        /\ server'.writing = IF server.send_queue = <<>> THEN "posted" ELSE server.writing
    BY <1>11, ServerRunsSend DEF WireKept
  <2>2. server.posted[1] \in AnyFrame
    BY <1>1, <2>1, FirstOf
  <2>3. Unwritten(server') = Append(Unwritten(server), server.posted[1])
    BY <1>1, <2>1, <2>2, QueueRuns
  <2>4. server'.sent = server.sent
    BY <2>1, ServerKeeps
  <2>. QED  BY <2>1, <2>3, <2>4 DEF Gives
<1>12. CASE S!FinishWrite
  <2>1. /\ wire' = wire /\ Kept(server, server', {"send_queue", "writing"})
        /\ server.writing = "content" /\ server'.send_queue = Tail(server.send_queue)
        /\ server'.writing \in {"posted", "none"}
    BY <1>12, ServerFinishesWrite DEF WireKept
  <2>2. Unwritten(server') = Unwritten(server)
    BY <2>1 DEF Unwritten
  <2>3. server'.sent = server.sent /\ server'.posted = server.posted
    BY <2>1, ServerKeeps
  <2>. QED  BY <2>1, <2>2, <2>3 DEF Gives
<1>13. server.writing # "none" \/ server.phase # "none" => Connected
  BY DEF ServerLife, ServerQuiet
<1>14. CASE S!WriteFails
  <2>1. /\ wire' = wire /\ Kept(server, server', {"send_queue", "writing"})
        /\ server.writing # "none"
        /\ socket["server"] # "open" \/ socket["client"] \in {"closed", "broken"}
    BY <1>14, ServerWriteFails DEF WireKept
  <2>2. Severed
    BY <1>13, <2>1 DEF Connected, Severed, TcpOK, End
  <2>3. server'.sent = server.sent
    BY <2>1, ServerKeeps
  <2>. QED  BY <2>1, <2>2, <2>3 DEF Lost
<1>15. ASSUME Connected, NEW h \in Piece, Writes("server", <<h>>), ~IsPart(h, "client"),
              Kept(server, server', {"phase", "writing"}), Unwritten(server') = Unwritten(server)
       PROVE  Gives("client", server, server', w, wire'["client"]) \/ Lost(server, server', w, wire'["client"])
  <2>1. server'.sent = server.sent /\ server'.posted = server.posted
    BY <1>15, ServerKeeps
  <2>2. (Severed' /\ wire'["client"] = w) \/ wire'["client"] = w \o <<h>>
    BY <1>15, EndWrites DEF End, Peer
  <2>3. w \o <<h>> = Append(w, h)
    BY <1>1, <1>15, AppendIsJoin
  <2>. QED  BY <1>15, <2>1, <2>2, <2>3 DEF Gives, Lost
<1>16. CASE S!WriteHandshake
  <2>1. /\ Kept(server, server', {"phase"}) /\ server.phase = "writeHandshake"
        /\ Writes("server", <<Response(TRUE)>>)
    BY <1>16, ServerWritesHandshake
  <2>2. Unwritten(server') = Unwritten(server)
    BY <2>1, ServerKeeps DEF Unwritten
  <2>3. Response(TRUE) \in Piece /\ ~IsPart(Response(TRUE), "client")
    BY IdlePieces
  <2>4. Kept(server, server', {"phase", "writing"})
    BY <2>1 DEF Kept
  <2>. QED  BY <1>13, <1>15, <2>1, <2>2, <2>3, <2>4
<1>17. CASE S!WriteHeader
  <2>1. /\ Kept(server, server', {"writing"})
        /\ server.writing = "posted" /\ server'.writing = "header"
        /\ Writes("server", <<Header(server.send_queue[1])>>)
    BY <1>17, ServerWritesHeader
  <2>2. server.send_queue[1] \in AnyFrame
    BY <1>1, <2>1, FirstOf
  <2>3. Unwritten(server') = Unwritten(server)
    BY <2>1, ServerKeeps DEF Unwritten
  <2>4. Header(server.send_queue[1]) \in Piece /\ ~IsPart(Header(server.send_queue[1]), "client")
    BY <2>2, IdlePieces
  <2>5. Kept(server, server', {"phase", "writing"})
    BY <2>1 DEF Kept
  <2>. QED  BY <1>13, <1>15, <2>1, <2>3, <2>4, <2>5
<1>18. CASE S!WriteContent
  <2>. DEFINE f == server.send_queue[1]
  <2>1. /\ Kept(server, server', {"writing"})
        /\ server.writing = "header" /\ server'.writing = "content"
        /\ Writes("server", <<Content(f)>>)
    BY <1>18, ServerWritesContent
  <2>2. server.send_queue # <<>> /\ f \in AnyFrame
    BY <1>1, <2>1, FirstOf
  <2>3. /\ server'.sent = server.sent /\ server'.posted = server.posted
        /\ server'.send_queue = server.send_queue
    BY <2>1, ServerKeeps
  <2>4. /\ Unwritten(server) = server.send_queue
        /\ Unwritten(server') = Tail(server.send_queue)
    BY <2>1, <2>3 DEF Unwritten
  <2>5. \/ Severed' /\ wire'["client"] = w
        \/ ~Severed' /\ wire'["client"] = w \o <<Content(f)>>
    BY <1>13, <2>1, EndWrites DEF End, Peer
  <2>6. w \o <<Content(f)>> = Append(w, Content(f))
    BY <1>1, <2>2, Pieces, AppendIsJoin
  <2>. QED  BY <2>2, <2>3, <2>4, <2>5, <2>6 DEF Lost, GivesContent
<1>. QED
  BY <1>4, <1>6, <1>7, <1>8, <1>9, <1>10, <1>11, <1>12, <1>14, <1>16, <1>17, <1>18
     DEF S!Next, S!Handlers, S!Handshake, S!Read, S!Writing

LEMMA ClientGives ==
  ASSUME TcpOK, ClientOK, C!Next, ClientLife, link # "client", Severed => Severed'
  PROVE  \/ Gives("server", client, client', wire["server"], wire'["server"])
         \/ ~Severed' /\ GivesContent(client, client', wire["server"], wire'["server"])
         \/ Lost(client, client', wire["server"], wire'["server"])
<1>. DEFINE w == wire["server"]
<1>1. /\ w \in Seq(Piece)
      /\ client.posted \in Seq(AnyFrame) /\ client.send_queue \in Seq(AnyFrame)
      /\ client.writing = "none" <=> client.send_queue = <<>>
  BY OwnQueues DEF TcpOK, End, ClientOK, ConnectionOK
<1>2. ASSUME wire'["server"] = w, client'.send_queue = client.send_queue,
             client'.writing = client.writing, client'.sent = client.sent,
             \/ client'.posted = client.posted
             \/ \E f \in AnyFrame : ~IsPart(Content(f), "server") /\ client'.posted = Append(client.posted, f)
      PROVE  Gives("server", client, client', w, wire'["server"])
  <2>1. Unwritten(client') = Unwritten(client)
    BY <1>2 DEF Unwritten
  <2>. QED  BY <1>2, <2>1 DEF Gives
<1>3. ASSUME wire' = [wire EXCEPT !["client"] = Tail(@)]
      PROVE  wire'["server"] = w
  BY <1>3 DEF TcpOK, End
<1>4. CASE \/ C!Start \/ C!Stop \/ C!Resolve \/ C!Connect \/ C!ConnectFails \/ C!Fails \/ C!ReadLength
  <2>1. wire' = wire
    BY <1>4, ClientStarts, ClientStops, ClientResolves, ClientConnects, ClientErrs, ClientReadsLength
       DEF WireKept
  <2>2. /\ Kept(client, client', {"service", "phase", "posted", "closed", "ended"})
        /\ client'.posted = client.posted
    <3>1. CASE C!Start \/ C!Stop \/ C!Resolve \/ C!Connect \/ C!ReadLength
      <4>1. Kept(client, client', {"service", "phase"})
        BY <3>1, ClientStarts, ClientStops, ClientResolves, ClientConnects, ClientReadsLength DEF Kept
      <4>. QED  BY <4>1, ClientKeeps DEF Kept
    <3>2. CASE C!ConnectFails \/ C!Fails
      BY <3>2, ClientErrs
    <3>. QED  BY <1>4, <3>1, <3>2
  <2>3. /\ client'.send_queue = client.send_queue /\ client'.writing = client.writing
        /\ client'.sent = client.sent
    BY <2>2, ClientKeeps
  <2>. QED  BY <1>2, <2>1, <2>2, <2>3
<1>5. ASSUME Kept(client, client', {"service", "phase", "posted", "closed", "ended"}),
             client'.posted \in {client.posted, Append(client.posted, Frame(TRUE, "close", TRUE, <<>>))},
             wire'["server"] = w
      PROVE  Gives("server", client, client', w, wire'["server"])
  <2>1. /\ client'.send_queue = client.send_queue /\ client'.writing = client.writing
        /\ client'.sent = client.sent
    BY <1>5, ClientKeeps
  <2>. QED  BY <1>2, <1>5, <2>1, OwnParts
<1>6. CASE C!ReadPong \/ C!ReadFragment \/ C!ReadMessage
  <2>1. /\ wire' = [wire EXCEPT !["client"] = Tail(@)]
        /\ Kept(client, client', {"phase", "fragmented_message", "received"})
    BY <1>6, ClientReadsPong, ClientReadsFragment, ClientReadsMessage DEF Kept, Reads
  <2>2. /\ client'.send_queue = client.send_queue /\ client'.writing = client.writing
        /\ client'.sent = client.sent /\ client'.posted = client.posted
    BY <2>1, ClientKeeps
  <2>. QED  BY <1>2, <1>3, <2>1, <2>2
<1>7. CASE C!ReadClose
  BY <1>3, <1>5, <1>7, ClientReadsClose DEF ClientCloses
<1>8. CASE C!ReadHeader
  <2>1. wire'["server"] = w
    BY <1>3, <1>8, ClientReadsHeader
  <2>2. CASE Kept(client, client', {"phase", "frame"})
    <3>1. /\ client'.send_queue = client.send_queue /\ client'.writing = client.writing
          /\ client'.sent = client.sent /\ client'.posted = client.posted
      BY <2>2, ClientKeeps
    <3>. QED  BY <1>2, <2>1, <3>1
  <2>3. CASE ClientCloses
    BY <1>5, <2>1, <2>3 DEF ClientCloses
  <2>. QED  BY <1>8, <2>2, <2>3, ClientReadsHeader
<1>9. CASE C!ReadPing
  <2>1. /\ wire' = [wire EXCEPT !["client"] = Tail(@)]
        /\ Kept(client, client', {"phase", "posted"})
        /\ client'.posted = Append(client.posted, Frame(TRUE, "pong", TRUE, <<>>))
    BY <1>9, ClientReadsPing DEF Reads
  <2>3. Kept(client, client', {"phase", "posted"})
    BY <2>1
  <2>2. /\ client'.send_queue = client.send_queue /\ client'.writing = client.writing
        /\ client'.sent = client.sent
    BY <2>3, ClientKeeps
  <2>. QED  BY <1>2, <1>3, <2>1, <2>2, OwnParts
<1>19. CASE C!ReadHandshake
  <2>1. wire'["server"] = w
    BY <1>3, <1>19, ClientReadsHandshake
  <2>2. CASE Kept(client, client', {"phase", "opened"})
    <3>1. /\ client'.send_queue = client.send_queue /\ client'.writing = client.writing
          /\ client'.sent = client.sent /\ client'.posted = client.posted
      BY <2>2, ClientKeeps
    <3>. QED  BY <1>2, <2>1, <3>1
  <2>. QED  BY <1>5, <1>19, <2>1, <2>2, ClientReadsHandshake
<1>10. CASE C!AppSends
  <2>1. /\ wire' = wire /\ Kept(client, client', {"posted", "sent"})
        /\ \E m \in Seq(Part) :
             /\ client'.posted = Append(client.posted, Frame(TRUE, "text", TRUE, m))
             /\ client'.sent = Append(client.sent, m)
    BY <1>10, ClientSends DEF WireKept
  <2>2. PICK m \in Seq(Part) :
             /\ client'.posted = Append(client.posted, Frame(TRUE, "text", TRUE, m))
             /\ client'.sent = Append(client.sent, m)
    BY <2>1
  <2>. DEFINE f == Frame(TRUE, "text", TRUE, m)
  <2>7. Kept(client, client', {"posted", "sent"})
    BY <2>1
  <2>3. Unwritten(client') = Unwritten(client)
    BY <2>7, ClientKeeps DEF Unwritten
  <2>4. f \in AnyFrame /\ IsPart(Content(f), "server")
    BY OwnParts
  <2>5. f.opcode = "text" /\ f.fin = TRUE /\ f.payload = m
    BY DEF Frame
  <2>6. client'.posted = Append(client.posted, f) /\ client'.sent = Append(client.sent, f.payload)
    BY <2>2, <2>5
  <2>. HIDE DEF f
  <2>. QED  BY <2>1, <2>3, <2>4, <2>5, <2>6 DEF Gives
<1>11. CASE C!RunSend
  <2>1. /\ wire' = wire /\ Kept(client, client', {"posted", "send_queue", "writing"})
        /\ client.posted # <<>> /\ client'.posted = Tail(client.posted)
        /\ client'.send_queue = Append(client.send_queue, client.posted[1])
        /\ client'.writing = IF client.send_queue = <<>> THEN "posted" ELSE client.writing
    BY <1>11, ClientRunsSend DEF WireKept
  <2>2. client.posted[1] \in AnyFrame
    BY <1>1, <2>1, FirstOf
  <2>3. Unwritten(client') = Append(Unwritten(client), client.posted[1])
    BY <1>1, <2>1, <2>2, QueueRuns
  <2>4. client'.sent = client.sent
    BY <2>1, ClientKeeps
  <2>. QED  BY <2>1, <2>3, <2>4 DEF Gives
<1>12. CASE C!FinishWrite
  <2>1. /\ wire' = wire /\ Kept(client, client', {"send_queue", "writing"})
        /\ client.writing = "frame" /\ client'.send_queue = Tail(client.send_queue)
        /\ client'.writing \in {"posted", "none"}
    BY <1>12, ClientFinishesWrite DEF WireKept
  <2>2. Unwritten(client') = Unwritten(client)
    BY <2>1 DEF Unwritten
  <2>3. client'.sent = client.sent /\ client'.posted = client.posted
    BY <2>1, ClientKeeps
  <2>. QED  BY <2>1, <2>2, <2>3 DEF Gives
<1>13. client.writing # "none" => Connected
  BY DEF ClientLife, ClientQuiet
<1>14. CASE C!WriteFails
  <2>1. /\ wire' = wire /\ Kept(client, client', {"send_queue", "writing"})
        /\ client.writing # "none"
        /\ socket["client"] # "open" \/ socket["server"] \in {"closed", "broken"}
    BY <1>14, ClientWriteFails DEF WireKept
  <2>2. Severed
    BY <1>13, <2>1 DEF Connected, Severed, TcpOK, End
  <2>3. client'.sent = client.sent
    BY <2>1, ClientKeeps
  <2>. QED  BY <2>1, <2>2, <2>3 DEF Lost
<1>16. CASE C!WriteHandshake
  <2>1. /\ Kept(client, client', {"phase"})
        /\ wire' = [wire EXCEPT !["server"] = Append(@, Request(TRUE))]
    BY <1>16, ClientWritesHandshake
  <2>2. Unwritten(client') = Unwritten(client) /\ client'.sent = client.sent /\ client'.posted = client.posted
    BY <2>1, ClientKeeps DEF Unwritten
  <2>3. Request(TRUE) \in Piece /\ ~IsPart(Request(TRUE), "server")
    BY IdlePieces
  <2>4. wire'["server"] = Append(w, Request(TRUE))
    BY <2>1 DEF TcpOK, End
  <2>. QED  BY <2>2, <2>3, <2>4 DEF Gives
<1>18. CASE C!WriteFrame
  <2>. DEFINE f == client.send_queue[1]
  <2>1. /\ Kept(client, client', {"writing"})
        /\ client.writing = "posted" /\ client'.writing = "frame"
        /\ Writes("client", <<Header(f), Content(f)>>)
    BY <1>18, ClientWritesFrame
  <2>2. client.send_queue # <<>> /\ f \in AnyFrame
    BY <1>1, <2>1, FirstOf
  <2>3. /\ client'.sent = client.sent /\ client'.posted = client.posted
        /\ client'.send_queue = client.send_queue
    BY <2>1, ClientKeeps
  <2>4. /\ Unwritten(client) = client.send_queue
        /\ Unwritten(client') = Tail(client.send_queue)
    BY <2>1, <2>3 DEF Unwritten
  <2>5. \/ Severed' /\ wire'["server"] = w
        \/ ~Severed' /\ wire'["server"] = w \o <<Header(f), Content(f)>>
    BY <1>13, <2>1, EndWrites DEF End, Peer
  <2>6. w \o <<Header(f), Content(f)>> = Append(Append(w, Header(f)), Content(f))
    BY <1>1, <2>2, Pieces, AppendIsJoin
  <2>. QED  BY <2>2, <2>3, <2>4, <2>5, <2>6 DEF Lost, GivesContent
<1>. QED
  BY <1>4, <1>6, <1>7, <1>8, <1>9, <1>10, <1>11, <1>12, <1>14, <1>16, <1>18, <1>19
     DEF C!Next, C!Handlers, C!Handshake, C!Read, C!Writing

(* What c at end e has delivered is what d has sent, and what is on the    *)
(* wire w to it is so far; with what d has to write it is all of it.       *)
Reached(w, e, c, d) == Prefix(c.received, d.sent) /\ Arriving(w, e, d.sent, Told(c))
Flowing(w, e, c, d) == Pipe(w, Unwritten(d), d.posted, e, d.sent, Told(c))

(* A foreign d writes as it sends: what is on the wire ends where d is.    *)
Sending(w, e, c, d) ==
  Leads(w, e, d.sent, Told(c), [parts |-> d.parts, count |-> Len(d.sent)])

LEMMA ReachedTakes ==
  ASSUME NEW w \in Seq(Piece), NEW v, NEW e, NEW c, NEW d, NEW b, Takes(e, c, b, w, v),
         d.sent \in Messages, Reached(w, e, c, d)
  PROVE  /\ Reached(v, e, b, d)
         /\ Flowing(w, e, c, d) => Flowing(v, e, b, d)
         /\ Sending(w, e, c, d) => Sending(v, e, b, d)
<1>1. Prefix(c.received, d.sent) /\ Arriving(w, e, d.sent, Told(c))
  BY DEF Reached
<1>2. /\ Prefix(b.received, d.sent) /\ Arriving(v, e, d.sent, Told(b))
      /\ \A q, p : Pipe(w, q, p, e, d.sent, Told(c)) => Pipe(v, q, p, e, d.sent, Told(b))
      /\ \A y : Leads(w, e, d.sent, Told(c), y) => Leads(v, e, d.sent, Told(b), y)
  BY <1>1, FlowTakes
<1>3. Reached(v, e, b, d)
  BY <1>2 DEF Reached
<1>4. Flowing(w, e, c, d) => Flowing(v, e, b, d)
  BY <1>2 DEF Flowing
<1>5. Sending(w, e, c, d) => Sending(v, e, b, d)
  BY <1>2 DEF Sending
<1>. QED  BY <1>3, <1>4, <1>5

LEMMA ReachedGives ==
  ASSUME NEW w \in Seq(Piece), NEW v, NEW e, NEW c, NEW d, NEW b, Gives(e, d, b, w, v),
         c.received \in Messages, d.sent \in Messages, d.posted \in Seq(AnyFrame),
         Unwritten(d) \in Seq(AnyFrame), Reached(w, e, c, d)
  PROVE  /\ Reached(v, e, c, b)
         /\ Flowing(w, e, c, d) => Flowing(v, e, c, b)
<1>. DEFINE x == Told(c)
<1>1. Prefix(c.received, d.sent) /\ Arriving(w, e, d.sent, x)
  BY DEF Reached
<1>2. /\ Arriving(w, e, d.sent, x) => Arriving(v, e, b.sent, x)
      /\ Pipe(w, Unwritten(d), d.posted, e, d.sent, x) => Pipe(v, Unwritten(b), b.posted, e, b.sent, x)
      /\ \A s \in Messages : Prefix(s, d.sent) => Prefix(s, b.sent)
  <2>. HIDE DEF x
  <2>. QED  BY FlowGives
<1>3. Reached(v, e, c, b)
  BY <1>1, <1>2 DEF Reached
<1>4. Flowing(w, e, c, d) => Flowing(v, e, c, b)
  BY <1>2 DEF Flowing
<1>. QED  BY <1>3, <1>4

LEMMA ReachedContent ==
  ASSUME NEW w \in Seq(Piece), NEW v, NEW e, NEW c, NEW d, NEW b, GivesContent(d, b, w, v),
         Unwritten(d) \in Seq(AnyFrame), Reached(w, e, c, d), Flowing(w, e, c, d)
  PROVE  Reached(v, e, c, b) /\ Flowing(v, e, c, b)
<1>. DEFINE x == Told(c)
<1>1. Pipe(w, Unwritten(d), d.posted, e, d.sent, x)
  BY DEF Flowing
<1>2. Pipe(v, Unwritten(b), b.posted, e, b.sent, x)
  <2>. HIDE DEF x
  <2>. QED  BY <1>1, FlowGivesContent
<1>3. Arriving(v, e, b.sent, x)
  BY <1>2, PipeArrives
<1>4. b.sent = d.sent
  BY DEF GivesContent
<1>. QED  BY <1>2, <1>3, <1>4 DEF Reached, Flowing

(* Nothing is on its way, and nothing to be sent.                          *)
LEMMA FlowStarts ==
  ASSUME NEW e, NEW c, NEW d, c.received = <<>>, c.fragmented_message = <<>>, d.sent = <<>>
  PROVE  /\ Reached(<<>>, e, c, d)
         /\ d.writing = "none" /\ d.send_queue = <<>> /\ d.posted = <<>> => Flowing(<<>>, e, c, d)
         /\ d.parts = <<>> => Sending(<<>>, e, c, d)
<1>1. <<>> \in Seq(Part) /\ Len(<<>>) = 0
  OBVIOUS
<1>2. Told(c) = [parts |-> <<>>, count |-> 0] /\ Told(c) \in State
  BY <1>1 DEF Told, State
<1>3. Leads(<<>>, e, <<>>, Told(c), Told(c))
  BY <1>2, LeadsNowhere
<1>4. Prefix(<<>>, <<>>)
  BY <1>1 DEF Prefix
<1>5. Reached(<<>>, e, c, d)
  BY <1>2, <1>3, <1>4 DEF Reached, Arriving
<1>6. ASSUME d.writing = "none" /\ d.send_queue = <<>> /\ d.posted = <<>>
      PROVE  Flowing(<<>>, e, c, d)
  <2>1. Unwritten(d) = <<>>
    BY <1>6 DEF Unwritten
  <2>2. [parts |-> <<>>, count |-> Len(d.sent)] = Told(c)
    BY <1>1, <1>2
  <2>3. Pipe(<<>>, <<>>, <<>>, e, <<>>, Told(c))
    BY <1>2, <1>3, <2>2, NoContents DEF Pipe
  <2>. QED  BY <1>6, <2>1, <2>3 DEF Flowing
<1>7. ASSUME d.parts = <<>>
      PROVE  Sending(<<>>, e, c, d)
  BY <1>1, <1>2, <1>3, <1>7 DEF Sending
<1>. QED  BY <1>5, <1>6, <1>7

(* The foreign end writes a frame, with a mask that its reader takes.      *)
LEMMA SendingFrame ==
  ASSUME NEW w \in Seq(Piece), NEW e, NEW c, NEW d, NEW b, NEW f \in AnyFrame,
         IsPart(Content(f), e), d.sent \in Messages, d.parts \in Seq(Part),
         f.opcode = "text" => d.parts = <<>>,
         b.parts = IF f.fin THEN <<>> ELSE d.parts \o f.payload,
         b.sent = IF f.fin THEN Append(d.sent, d.parts \o f.payload) ELSE d.sent,
         Sending(w, e, c, d)
  PROVE  Sending(Append(Append(w, Header(f)), Content(f)), e, c, b)
<1>. DEFINE x == Told(c)
            y == [parts |-> d.parts, count |-> Len(d.sent)]
            z == [parts |-> b.parts, count |-> Len(b.sent)]
            h == Append(w, Header(f))
<1>1. /\ f.payload \in Seq(Part) /\ f.fin \in BOOLEAN
      /\ Content(f).frame = f
  BY DEF AnyFrame, Content
<1>2. d.parts \o f.payload \in Seq(Part) /\ <<>> \in Seq(Part)
  BY <1>1
<1>3. Header(f) \in Piece /\ Content(f) \in Piece /\ ~IsPart(Header(f), e)
  BY Pieces, IdlePieces
<1>4. h \in Seq(Piece)
  BY <1>3, Appended
<1>5. Leads(w, e, d.sent, x, y)
  BY DEF Sending
<1>6. Leads(w, e, b.sent, x, y)
  <2>1. CASE f.fin = TRUE
    <3>1. b.sent = Append(d.sent, d.parts \o f.payload)
      BY <2>1
    <3>. HIDE DEF x, y
    <3>. QED  BY <1>2, <1>5, <3>1, LeadsMore
  <2>2. CASE f.fin = FALSE
    BY <1>5, <2>2
  <2>. QED  BY <1>1, <2>1, <2>2
<1>7. z \in State /\ Moves(Content(f), e, b.sent, y, z)
  <2>1. CASE f.fin = TRUE
    <3>1. b.sent = Append(d.sent, d.parts \o f.payload) /\ b.parts = <<>>
      BY <2>1
    <3>2. /\ Len(d.sent) \in Nat /\ Len(b.sent) = Len(d.sent) + 1
          /\ b.sent[Len(d.sent) + 1] = d.parts \o f.payload
      <4>1. \A s \in Messages, m \in Seq(Part) :
              Len(s) \in Nat /\ Len(Append(s, m)) = Len(s) + 1 /\ Append(s, m)[Len(s) + 1] = m
        BY DEF Messages
      <4>. DEFINE m == d.parts \o f.payload
                  s == d.sent
      <4>2. m \in Seq(Part) /\ s \in Messages /\ b.sent = Append(s, m)
        BY <1>2, <3>1
      <4>. HIDE DEF m, s
      <4>3. Len(s) \in Nat /\ Len(b.sent) = Len(s) + 1 /\ b.sent[Len(s) + 1] = m
        BY <4>1, <4>2
      <4>. QED  BY <4>3 DEF m, s
    <3>3. Len(d.sent) + 1 \in 1..Len(b.sent) /\ Len(b.sent) \in Nat
      BY <3>2
    <3>. QED  BY <1>1, <1>2, <2>1, <3>1, <3>2, <3>3 DEF Moves, State
  <2>2. CASE f.fin = FALSE
    <3>1. b.sent = d.sent /\ b.parts = d.parts \o f.payload
      BY <2>2
    <3>2. Len(d.sent) \in Nat
      BY DEF Messages
    <3>. QED  BY <1>1, <1>2, <2>2, <3>1, <3>2 DEF Moves, State
  <2>. QED  BY <1>1, <2>1, <2>2
<1>. HIDE DEF x, y, z, h
<1>8. Leads(h, e, b.sent, x, y)
  BY <1>3, <1>6, LeadsOnIdle DEF h
<1>9. Leads(Append(h, Content(f)), e, b.sent, x, z)
  BY <1>3, <1>4, <1>7, <1>8, LeadsOn
<1>. QED  BY <1>9 DEF Sending, x, z, h

(* Pieces that are no part of a message.                                   *)
LEMMA ReachedIdle ==
  ASSUME NEW w \in Seq(Piece), NEW e, NEW c, NEW d, NEW p \in Piece, ~IsPart(p, e),
         d.sent \in Messages, Reached(w, e, c, d)
  PROVE  /\ Reached(Append(w, p), e, c, d)
         /\ Sending(w, e, c, d) => Sending(Append(w, p), e, c, d)
<1>1. Arriving(Append(w, p), e, d.sent, Told(c))
  BY ArrivingOn DEF Reached
<1>2. \A y : Leads(w, e, d.sent, Told(c), y) => Leads(Append(w, p), e, d.sent, Told(c), y)
  BY LeadsOnIdle
<1>. QED  BY <1>1, <1>2 DEF Reached, Sending

(* d has sent one more, or none, and what it wrote is lost.                *)
LEMMA ReachedMore ==
  ASSUME NEW w \in Seq(Piece), NEW e, NEW c, NEW d, NEW b, Reached(w, e, c, d),
         c.received \in Messages, d.sent \in Messages,
         NEW m \in Seq(Part), b.sent \in {d.sent, Append(d.sent, m)}
  PROVE  Reached(w, e, c, b)
<1>1. CASE b.sent = d.sent
  BY <1>1 DEF Reached
<1>2. CASE b.sent = Append(d.sent, m)
  BY <1>2, ArrivingOn, PrefixMore DEF Reached
<1>. QED  BY <1>1, <1>2

-----------------------------------------------------------------------------
(***************************************************************************)
(* The invariant of what is on its way, between two ends of SimpleWeb and  *)
(* from a foreign one; while no socket is closed, nothing of it is missing.*)
(***************************************************************************)
ForeignFlows(e, c) ==
  /\ Reached(wire[e], e, c, foreign)
  /\ ~Severed /\ foreign.over = FALSE => Sending(wire[e], e, c, foreign)

Flows ==
  /\ link = "simple" =>
       /\ Reached(wire["server"], "server", server, client)
       /\ Reached(wire["client"], "client", client, server)
       /\ ~Severed => /\ Flowing(wire["server"], "server", server, client)
                      /\ Flowing(wire["client"], "client", client, server)
  /\ link = "client" => ForeignFlows("server", server)
  /\ link = "server" => ForeignFlows("client", client)
  /\ foreign.cut = FALSE => foreign.parts = <<>>

LEMMA FlowsInit ==
  ASSUME Init
  PROVE  Flows
<1>1. wire["server"] = <<>> /\ wire["client"] = <<>>
  BY DEF Init, TcpInit, End
<1>2. /\ server.received = <<>> /\ server.fragmented_message = <<>> /\ server.sent = <<>>
      /\ server.writing = "none" /\ server.send_queue = <<>> /\ server.posted = <<>>
  BY DEF Init, S!Init
<1>3. /\ client.received = <<>> /\ client.fragmented_message = <<>> /\ client.sent = <<>>
      /\ client.writing = "none" /\ client.send_queue = <<>> /\ client.posted = <<>>
  BY DEF Init, C!Init
<1>4. foreign.sent = <<>> /\ foreign.parts = <<>>
  BY DEF Init
<1>5. /\ Reached(<<>>, "server", server, client) /\ Flowing(<<>>, "server", server, client)
      /\ Reached(<<>>, "client", client, server) /\ Flowing(<<>>, "client", client, server)
  BY <1>2, <1>3, FlowStarts
<1>6. /\ Reached(<<>>, "server", server, foreign) /\ Sending(<<>>, "server", server, foreign)
      /\ Reached(<<>>, "client", client, foreign) /\ Sending(<<>>, "client", client, foreign)
  BY <1>2, <1>3, <1>4, FlowStarts
<1>. QED  BY <1>1, <1>4, <1>5, <1>6 DEF Flows, ForeignFlows

(* What the types say of the queues and the messages.                      *)
LEMMA FlowTypes ==
  /\ TcpOK => wire["server"] \in Seq(Piece) /\ wire["client"] \in Seq(Piece)
  /\ ServerOK => /\ server.received \in Messages /\ server.sent \in Messages
                 /\ server.posted \in Seq(AnyFrame) /\ Unwritten(server) \in Seq(AnyFrame)
  /\ ClientOK => /\ client.received \in Messages /\ client.sent \in Messages
                 /\ client.posted \in Seq(AnyFrame) /\ Unwritten(client) \in Seq(AnyFrame)
  /\ ForeignOK => foreign.sent \in Messages /\ foreign.parts \in Seq(Part)
<1>1. TcpOK => wire["server"] \in Seq(Piece) /\ wire["client"] \in Seq(Piece)
  BY DEF TcpOK, End
<1>2. \A q \in Seq(AnyFrame) : q # <<>> => Tail(q) \in Seq(AnyFrame)
  OBVIOUS
<1>3. ServerOK => Unwritten(server) \in Seq(AnyFrame)
  BY <1>2, OwnQueues DEF ServerOK, ConnectionOK, Unwritten
<1>4. ClientOK => Unwritten(client) \in Seq(AnyFrame)
  BY <1>2, OwnQueues DEF ClientOK, ConnectionOK, Unwritten
<1>. QED
  BY <1>1, <1>3, <1>4, OwnQueues DEF Messages, ServerOK, ClientOK, ConnectionOK, ForeignOK

LEMMA ServerFlows ==
  ASSUME TcpOK, ServerOK, ClientOK, ForeignOK, S!Next, link # "server", Control, Shape, Flows,
         client' = client, foreign' = foreign, link' = link
  PROVE  Flows'
<1>1. /\ wire["server"] \in Seq(Piece) /\ wire["client"] \in Seq(Piece)
      /\ server.received \in Messages /\ server.sent \in Messages
      /\ server.posted \in Seq(AnyFrame) /\ Unwritten(server) \in Seq(AnyFrame)
      /\ client.received \in Messages /\ client.sent \in Messages /\ foreign.sent \in Messages
  BY FlowTypes
<1>2. Severed => Severed'
  BY ServerSevers
<1>3. Takes("server", server, server', wire["server"], wire'["server"])
  BY ServerTakes DEF Control, Shape
<1>4. \/ Gives("client", server, server', wire["client"], wire'["client"])
      \/ ~Severed' /\ GivesContent(server, server', wire["client"], wire'["client"])
      \/ Lost(server, server', wire["client"], wire'["client"])
  BY <1>2, ServerGives DEF Control
<1>5. ASSUME link = "simple"
      PROVE  /\ Reached(wire'["server"], "server", server', client)
             /\ Reached(wire'["client"], "client", client, server')
             /\ ~Severed' => /\ Flowing(wire'["server"], "server", server', client)
                             /\ Flowing(wire'["client"], "client", client, server')
  <2>1. /\ Reached(wire["server"], "server", server, client)
        /\ Reached(wire["client"], "client", client, server)
    BY <1>5 DEF Flows
  <2>2. ASSUME ~Severed'
        PROVE  /\ Flowing(wire["server"], "server", server, client)
               /\ Flowing(wire["client"], "client", client, server)
    BY <1>2, <1>5, <2>2 DEF Flows
  <2>3. /\ Reached(wire'["server"], "server", server', client)
        /\ Flowing(wire["server"], "server", server, client) =>
             Flowing(wire'["server"], "server", server', client)
    BY <1>1, <1>3, <2>1, ReachedTakes
  <2>4. CASE Gives("client", server, server', wire["client"], wire'["client"])
    <3>1. /\ Reached(wire'["client"], "client", client, server')
          /\ Flowing(wire["client"], "client", client, server) =>
               Flowing(wire'["client"], "client", client, server')
      BY <1>1, <2>1, <2>4, ReachedGives
    <3>. QED  BY <2>2, <2>3, <3>1
  <2>5. CASE ~Severed' /\ GivesContent(server, server', wire["client"], wire'["client"])
    <3>1. Flowing(wire["client"], "client", client, server)
      BY <2>2, <2>5
    <3>2. /\ Reached(wire'["client"], "client", client, server')
          /\ Flowing(wire'["client"], "client", client, server')
      BY <1>1, <2>1, <2>5, <3>1, ReachedContent
    <3>. QED  BY <2>2, <2>3, <3>2
  <2>6. CASE Lost(server, server', wire["client"], wire'["client"])
    <3>1. Severed' /\ wire'["client"] = wire["client"] /\ server'.sent = server.sent
      BY <2>6 DEF Lost
    <3>2. Reached(wire'["client"], "client", client, server')
      BY <2>1, <3>1 DEF Reached
    <3>. QED  BY <2>3, <3>1, <3>2
  <2>. QED  BY <1>4, <2>4, <2>5, <2>6
<1>6. ASSUME link = "client"
      PROVE  /\ Reached(wire'["server"], "server", server', foreign)
             /\ ~Severed' /\ foreign.over = FALSE =>
                  Sending(wire'["server"], "server", server', foreign)
  <2>1. /\ Reached(wire["server"], "server", server, foreign)
        /\ ~Severed /\ foreign.over = FALSE => Sending(wire["server"], "server", server, foreign)
    BY <1>6 DEF Flows, ForeignFlows
  <2>2. /\ Reached(wire'["server"], "server", server', foreign)
        /\ Sending(wire["server"], "server", server, foreign) =>
             Sending(wire'["server"], "server", server', foreign)
    BY <1>1, <1>3, <2>1, ReachedTakes
  <2>. QED  BY <1>2, <2>1, <2>2
<1>7. foreign.cut = FALSE => foreign.parts = <<>>
  BY DEF Flows
<1>. QED  BY <1>5, <1>6, <1>7 DEF Flows, ForeignFlows

LEMMA ClientFlows ==
  ASSUME TcpOK, ServerOK, ClientOK, ForeignOK, C!Next, link # "client", Control, Shape, Flows,
         server' = server, foreign' = foreign, link' = link
  PROVE  Flows'
<1>1. /\ wire["server"] \in Seq(Piece) /\ wire["client"] \in Seq(Piece)
      /\ client.received \in Messages /\ client.sent \in Messages
      /\ client.posted \in Seq(AnyFrame) /\ Unwritten(client) \in Seq(AnyFrame)
      /\ server.received \in Messages /\ server.sent \in Messages /\ foreign.sent \in Messages
  BY FlowTypes
<1>2. Severed => Severed'
  BY ClientSevers
<1>3. Takes("client", client, client', wire["client"], wire'["client"])
  BY ClientTakes DEF Control, Shape
<1>4. \/ Gives("server", client, client', wire["server"], wire'["server"])
      \/ ~Severed' /\ GivesContent(client, client', wire["server"], wire'["server"])
      \/ Lost(client, client', wire["server"], wire'["server"])
  BY <1>2, ClientGives DEF Control
<1>5. ASSUME link = "simple"
      PROVE  /\ Reached(wire'["client"], "client", client', server)
             /\ Reached(wire'["server"], "server", server, client')
             /\ ~Severed' => /\ Flowing(wire'["client"], "client", client', server)
                             /\ Flowing(wire'["server"], "server", server, client')
  <2>1. /\ Reached(wire["client"], "client", client, server)
        /\ Reached(wire["server"], "server", server, client)
    BY <1>5 DEF Flows
  <2>2. ASSUME ~Severed'
        PROVE  /\ Flowing(wire["client"], "client", client, server)
               /\ Flowing(wire["server"], "server", server, client)
    BY <1>2, <1>5, <2>2 DEF Flows
  <2>3. /\ Reached(wire'["client"], "client", client', server)
        /\ Flowing(wire["client"], "client", client, server) =>
             Flowing(wire'["client"], "client", client', server)
    BY <1>1, <1>3, <2>1, ReachedTakes
  <2>4. CASE Gives("server", client, client', wire["server"], wire'["server"])
    <3>1. /\ Reached(wire'["server"], "server", server, client')
          /\ Flowing(wire["server"], "server", server, client) =>
               Flowing(wire'["server"], "server", server, client')
      BY <1>1, <2>1, <2>4, ReachedGives
    <3>. QED  BY <2>2, <2>3, <3>1
  <2>5. CASE ~Severed' /\ GivesContent(client, client', wire["server"], wire'["server"])
    <3>1. Flowing(wire["server"], "server", server, client)
      BY <2>2, <2>5
    <3>2. /\ Reached(wire'["server"], "server", server, client')
          /\ Flowing(wire'["server"], "server", server, client')
      BY <1>1, <2>1, <2>5, <3>1, ReachedContent
    <3>. QED  BY <2>2, <2>3, <3>2
  <2>6. CASE Lost(client, client', wire["server"], wire'["server"])
    <3>1. Severed' /\ wire'["server"] = wire["server"] /\ client'.sent = client.sent
      BY <2>6 DEF Lost
    <3>2. Reached(wire'["server"], "server", server, client')
      BY <2>1, <3>1 DEF Reached
    <3>. QED  BY <2>3, <3>1, <3>2
  <2>. QED  BY <1>4, <2>4, <2>5, <2>6
<1>6. ASSUME link = "server"
      PROVE  /\ Reached(wire'["client"], "client", client', foreign)
             /\ ~Severed' /\ foreign.over = FALSE =>
                  Sending(wire'["client"], "client", client', foreign)
  <2>1. /\ Reached(wire["client"], "client", client, foreign)
        /\ ~Severed /\ foreign.over = FALSE => Sending(wire["client"], "client", client, foreign)
    BY <1>6 DEF Flows, ForeignFlows
  <2>2. /\ Reached(wire'["client"], "client", client', foreign)
        /\ Sending(wire["client"], "client", client, foreign) =>
             Sending(wire'["client"], "client", client', foreign)
    BY <1>1, <1>3, <2>1, ReachedTakes
  <2>. QED  BY <1>2, <2>1, <2>2
<1>7. foreign.cut = FALSE => foreign.parts = <<>>
  BY DEF Flows
<1>. QED  BY <1>5, <1>6, <1>7 DEF Flows, ForeignFlows

(* What the foreign end writes to e, where c reads.                        *)
LEMMA ForeignFlowsOn ==
  ASSUME TcpOK, ForeignOK, Asked, Spoken, Foreign, link = Other, Severed => Severed',
         NEW e \in End, e = Peer(Other), NEW c, c.received \in Messages,
         foreign.cut = FALSE => foreign.parts = <<>>,
         Reached(wire[e], e, c, foreign),
         ~Severed /\ foreign.over = FALSE => Sending(wire[e], e, c, foreign)
  PROVE  /\ Reached(wire'[e], e, c, foreign')
         /\ ~Severed' /\ foreign'.over = FALSE => Sending(wire'[e], e, c, foreign')
         /\ foreign'.cut = FALSE => foreign'.parts = <<>>
<1>. DEFINE w == wire[e]
            Goal == /\ Reached(wire'[e], e, c, foreign')
                    /\ ~Severed' /\ foreign'.over = FALSE => Sending(wire'[e], e, c, foreign')
                    /\ foreign'.cut = FALSE => foreign'.parts = <<>>
<1>1. /\ w \in Seq(Piece) /\ Other \in End /\ e # Other
      /\ foreign.sent \in Messages /\ foreign.parts \in Seq(Part) /\ foreign.cut \in BOOLEAN
  BY FlowTypes DEF TcpOK, Other, End, Peer, ForeignOK
(* Nothing that counts, or one piece that is no part of a message.         *)
<1>2. ASSUME wire'[e] = w \/ (\E p \in Piece : ~IsPart(p, e) /\ wire'[e] = Append(w, p)),
             foreign'.sent = foreign.sent, foreign'.parts = foreign.parts,
             foreign'.cut = foreign.cut, foreign'.over = foreign.over
      PROVE  Goal
  <2>1. /\ Reached(wire'[e], e, c, foreign)
        /\ Sending(w, e, c, foreign) => Sending(wire'[e], e, c, foreign)
    BY <1>1, <1>2, ReachedIdle
  <2>2. /\ Reached(wire'[e], e, c, foreign')
        /\ Sending(w, e, c, foreign) => Sending(wire'[e], e, c, foreign')
    BY <1>2, <2>1 DEF Reached, Sending
  <2>. QED  BY <1>2, <2>2
<1>3. CASE ForeignSilent
  BY <1>2, <1>3, ForeignIsSilent DEF WireKept
<1>4. CASE ForeignRequests /\ link = "client"
  <2>1. PICK request \in {Request(TRUE), Request(FALSE)} :
          wire' = [wire EXCEPT !["server"] = Append(@, request)]
    BY <1>4, ForeignRequestsOnce
  <2>2. request \in Piece /\ ~IsPart(request, e)
    BY IdlePieces
  <2>3. wire'[e] = Append(w, request)
    BY <1>4, <2>1 DEF TcpOK, End, Peer
  <2>4. Kept(foreign, foreign', {"used"})
    BY <1>4, ForeignRequestsOnce
  <2>5. /\ foreign'.sent = foreign.sent /\ foreign'.parts = foreign.parts
        /\ foreign'.cut = foreign.cut /\ foreign'.over = foreign.over
    BY <2>4, ForeignKeeps
  <2>. QED  BY <1>2, <2>2, <2>3, <2>5
<1>5. CASE ForeignTakes
  <2>1. Kept(foreign, foreign', {"may"})
    BY <1>5, ForeignTakesAll
  <2>2. /\ foreign'.sent = foreign.sent /\ foreign'.parts = foreign.parts
        /\ foreign'.cut = foreign.cut /\ foreign'.over = foreign.over
    BY <2>1, ForeignKeeps
  <2>3. CASE wire' = [wire EXCEPT ![Other] = <<>>]
    <3>1. wire'[e] = w
      BY <1>1, <2>3 DEF TcpOK
    <3>. QED  BY <1>2, <2>2, <3>1
  <2>4. ASSUME NEW response \in {Response(TRUE), Response(FALSE)},
               wire' = [Written(Other, <<response>>) EXCEPT ![Other] = Tail(@)]
        PROVE  Goal
    <3>1. response \in Piece /\ ~IsPart(response, e)
      BY IdlePieces
    <3>2. wire'[e] = w \/ wire'[e] = w \o <<response>>
      BY <1>1, <2>4 DEF Written, TcpOK
    <3>3. w \o <<response>> = Append(w, response)
      BY <1>1, <3>1, AppendIsJoin
    <3>. QED  BY <1>2, <2>2, <3>1, <3>2, <3>3
  <2>. QED  BY <1>5, <2>3, <2>4, ForeignTakesAll
<1>6. foreign.may = TRUE => Connected
  BY DEF Spoken
<1>7. CASE ForeignSendsControl
  <2>1. /\ foreign.may /\ ~foreign.over
        /\ Kept(foreign, foreign', {"controls", "over"})
    BY <1>7, ForeignControl
  <2>2. PICK f \in AnyFrame :
          /\ f.opcode \in {"ping", "pong", "close"}
          /\ Writes(Other, <<Header(f), Content(f)>>)
    BY <1>7, ForeignControl
  <2>3. /\ foreign'.sent = foreign.sent /\ foreign'.parts = foreign.parts
        /\ foreign'.cut = foreign.cut
    <3>1. Kept(foreign, foreign', {"controls", "over"})
      BY <2>1
    <3>. QED  BY <3>1, ForeignKeeps
  <2>4. foreign.may = TRUE /\ foreign.over = FALSE
    BY <2>1 DEF ForeignOK
  <2>5. Header(f) \in Piece /\ Content(f) \in Piece /\ ~IsPart(Header(f), e)
    BY Pieces, IdlePieces
  <2>6. ~IsPart(Content(f), e)
    BY <2>2 DEF IsPart, Content
  <2>. DEFINE h == Append(w, Header(f))
  <2>7. h \in Seq(Piece)
    BY <1>1, <2>5, Appended
  <2>8. /\ Reached(h, e, c, foreign)
        /\ Sending(w, e, c, foreign) => Sending(h, e, c, foreign)
    BY <1>1, <2>5, ReachedIdle
  <2>9. /\ Reached(Append(h, Content(f)), e, c, foreign)
        /\ Sending(h, e, c, foreign) => Sending(Append(h, Content(f)), e, c, foreign)
    <3>. HIDE DEF h
    <3>. QED  BY <1>1, <2>5, <2>6, <2>7, <2>8, ReachedIdle
  <2>10. \/ Severed' /\ wire'[e] = w
         \/ ~Severed' /\ ~Severed /\ wire'[e] = Append(h, Content(f))
    <3>1. \/ Severed' /\ wire'[e] = w
          \/ ~Severed' /\ ~Severed /\ wire'[e] = w \o <<Header(f), Content(f)>>
      BY <1>1, <1>6, <2>2, <2>4, EndWrites
    <3>2. w \o <<Header(f), Content(f)>> = Append(h, Content(f))
      BY <1>1, <2>5, AppendIsJoin
    <3>. QED  BY <3>1, <3>2
  <2>11. /\ Reached(wire'[e], e, c, foreign)
         /\ ~Severed' => Sending(wire'[e], e, c, foreign)
    BY <2>4, <2>8, <2>9, <2>10
  <2>12. /\ Reached(wire'[e], e, c, foreign')
         /\ ~Severed' => Sending(wire'[e], e, c, foreign')
    BY <2>3, <2>11 DEF Reached, Sending
  <2>. QED  BY <2>3, <2>12
<1>8. CASE ForeignSendsData
  <2>0. Used \in Nat
    BY <1>8, ForeignCounts, <1>1 DEF Foreign, Other
  <2>1. /\ foreign.may /\ ~foreign.over
        /\ Kept(foreign, foreign', {"parts", "cut", "used", "over", "sent"})
    BY <1>8, <2>0, ForeignData
  <2>2. PICK f \in AnyFrame :
          /\ f.opcode = IF foreign.cut THEN "continuation" ELSE "text"
          /\ foreign'.cut = ~f.fin
          /\ foreign'.over = (f.masked # MayMask)
          /\ foreign'.parts = IF f.fin THEN <<>> ELSE foreign.parts \o f.payload
          /\ foreign'.sent = IF f.fin /\ f.masked = MayMask
                             THEN Append(foreign.sent, foreign.parts \o f.payload)
                             ELSE foreign.sent
          /\ Writes(Other, <<Header(f), Content(f)>>)
    BY <1>8, <2>0, ForeignData
  <2>3. foreign.may = TRUE /\ foreign.over = FALSE
    BY <2>1 DEF ForeignOK
  <2>4. /\ f.payload \in Seq(Part) /\ f.fin \in BOOLEAN /\ f.masked \in BOOLEAN /\ MayMask \in BOOLEAN
        /\ foreign.parts \o f.payload \in Seq(Part)
    <3>1. f.payload \in Seq(Part) /\ f.fin \in BOOLEAN /\ f.masked \in BOOLEAN /\ MayMask \in BOOLEAN
      BY DEF AnyFrame, MayMask
    <3>. QED  BY <1>1, <3>1, JoinedSeq
  <2>5. foreign'.cut = FALSE => foreign'.parts = <<>>
    BY <2>2, <2>4
  <2>6. Header(f) \in Piece /\ Content(f) \in Piece /\ ~IsPart(Header(f), e)
    BY Pieces, IdlePieces
  <2>. DEFINE h == Append(w, Header(f))
              v == Append(h, Content(f))
  <2>7. h \in Seq(Piece)
    BY <1>1, <2>6, Appended
  <2>8. \/ Severed' /\ wire'[e] = w
        \/ ~Severed' /\ ~Severed /\ wire'[e] = v
    <3>1. \/ Severed' /\ wire'[e] = w
          \/ ~Severed' /\ ~Severed /\ wire'[e] = w \o <<Header(f), Content(f)>>
      BY <1>1, <1>6, <2>2, <2>3, EndWrites
    <3>2. w \o <<Header(f), Content(f)>> = v
      BY <1>1, <2>6, AppendIsJoin
    <3>. QED  BY <3>1, <3>2
  <2>9. foreign'.sent \in {foreign.sent, Append(foreign.sent, foreign.parts \o f.payload)}
    BY <2>2
  <2>10. CASE Severed' /\ wire'[e] = w
    <3>1. Reached(w, e, c, foreign')
      BY <1>1, <2>4, <2>9, ReachedMore
    <3>. QED  BY <2>5, <2>10, <3>1
  <2>11. ASSUME ~Severed, wire'[e] = v, f.masked = MayMask
         PROVE  Goal
    <3>1. IsPart(Content(f), e)
      <4>1. f.masked = TRUE <=> e = "server"
        BY <1>1, <2>4, <2>11 DEF MayMask, Peer, Other, End
      <4>2. f.masked = TRUE \/ f.masked = FALSE
        BY <2>4
      <4>3. f.opcode \in {"text", "continuation"}
        BY <2>2
      <4>. QED  BY <4>1, <4>2, <4>3 DEF IsPart, Content
    <3>2. f.opcode = "text" => foreign.parts = <<>>
      <4>1. foreign.cut = TRUE \/ foreign.cut = FALSE
        BY <1>1
      <4>. QED  BY <2>2, <4>1
    <3>3. foreign'.sent = IF f.fin THEN Append(foreign.sent, foreign.parts \o f.payload) ELSE foreign.sent
      BY <2>2, <2>11
    <3>4. foreign'.parts = IF f.fin THEN <<>> ELSE foreign.parts \o f.payload
      BY <2>2
    <3>5. Sending(w, e, c, foreign)
      BY <2>3, <2>11
    <3>6. Sending(v, e, c, foreign')
      BY <1>1, <3>1, <3>2, <3>3, <3>4, <3>5, SendingFrame
    <3>7. Reached(v, e, c, foreign')
      <4>1. Arriving(v, e, foreign'.sent, Told(c))
        <5>. DEFINE x == Told(c)
                    y == [parts |-> foreign'.parts, count |-> Len(foreign'.sent)]
                    msgs == foreign'.sent
        <5>1. Leads(v, e, msgs, x, y)
          BY <3>6 DEF Sending
        <5>2. v \in Seq(Piece)
          BY <2>6, <2>7, Appended
        <5>. HIDE DEF v, x, y, msgs
        <5>3. y \in State
          BY <5>1, <5>2, LeadsTyped
        <5>4. Arriving(v, e, msgs, x)
          BY <5>1, <5>3 DEF Arriving
        <5>. QED  BY <5>4 DEF x, msgs
      <4>2. Prefix(c.received, foreign'.sent)
        BY <1>1, <2>4, <2>9, ReachedMore DEF Reached
      <4>. QED  BY <4>1, <4>2 DEF Reached
    <3>. QED  BY <2>5, <2>11, <3>6, <3>7
(* The wrong mask: its reader will not take it, and it is the last.        *)
  <2>12. ASSUME wire'[e] = v, f.masked # MayMask
         PROVE  Goal
    <3>1. foreign'.over = TRUE
      BY <2>2, <2>12
    <3>2. ~IsPart(Content(f), e)
      <4>1. f.masked = FALSE <=> e = "server"
        BY <1>1, <2>4, <2>12 DEF MayMask, Peer, Other, End
      <4>2. f.masked = TRUE \/ f.masked = FALSE
        BY <2>4
      <4>. QED  BY <4>1, <4>2 DEF IsPart, Content
    <3>3. Reached(h, e, c, foreign)
      BY <1>1, <2>6, ReachedIdle
    <3>4. Reached(v, e, c, foreign)
      <4>. HIDE DEF h
      <4>. QED  BY <1>1, <2>6, <2>7, <3>2, <3>3, ReachedIdle
    <3>5. foreign'.sent = foreign.sent
      BY <2>2, <2>12
    <3>6. Reached(v, e, c, foreign')
      BY <3>4, <3>5 DEF Reached
    <3>. QED  BY <2>5, <2>12, <3>1, <3>6
  <2>. QED  BY <2>8, <2>10, <2>11, <2>12
<1>. QED  BY <1>3, <1>4, <1>5, <1>7, <1>8 DEF Foreign, ForeignSilent, Other

LEMMA ForeignFlowsKept ==
  ASSUME TcpOK, ServerOK, ClientOK, ForeignOK, Foreign, Control, Flows
  PROVE  Flows'
<1>1. /\ server' = server /\ client' = client /\ link' = link
      /\ server.received \in Messages /\ client.received \in Messages
  BY FlowTypes DEF Foreign
<1>2. Asked /\ Spoken /\ (Severed => Severed')
  BY ForeignSevers DEF Control
<1>3. foreign.cut = FALSE => foreign.parts = <<>>
  BY DEF Flows
<1>4. CASE link = "client"
  <2>1. /\ Reached(wire["server"], "server", server, foreign)
        /\ ~Severed /\ foreign.over = FALSE => Sending(wire["server"], "server", server, foreign)
    BY <1>4 DEF Flows, ForeignFlows
  <2>2. link = Other /\ "server" \in End /\ "server" = Peer(Other)
    BY <1>4 DEF Other, End, Peer
  <2>3. /\ Reached(wire'["server"], "server", server, foreign')
        /\ ~Severed' /\ foreign'.over = FALSE => Sending(wire'["server"], "server", server, foreign')
        /\ foreign'.cut = FALSE => foreign'.parts = <<>>
    BY <1>1, <1>2, <1>3, <2>1, <2>2, ForeignFlowsOn
  <2>. QED  BY <1>1, <1>4, <2>3 DEF Flows, ForeignFlows
<1>5. CASE link = "server"
  <2>1. /\ Reached(wire["client"], "client", client, foreign)
        /\ ~Severed /\ foreign.over = FALSE => Sending(wire["client"], "client", client, foreign)
    BY <1>5 DEF Flows, ForeignFlows
  <2>2. link = Other /\ "client" \in End /\ "client" = Peer(Other)
    BY <1>5 DEF Other, End, Peer
  <2>3. /\ Reached(wire'["client"], "client", client, foreign')
        /\ ~Severed' /\ foreign'.over = FALSE => Sending(wire'["client"], "client", client, foreign')
        /\ foreign'.cut = FALSE => foreign'.parts = <<>>
    BY <1>1, <1>2, <1>3, <2>1, <2>2, ForeignFlowsOn
  <2>. QED  BY <1>1, <1>5, <2>3 DEF Flows, ForeignFlows
<1>. QED  BY <1>4, <1>5 DEF Foreign, TcpOK, Link

(* While nothing is written or read, whether a socket is closed or not.    *)
LEMMA FlowsStill ==
  ASSUME Flows, Severed => Severed', wire' = wire,
         server' = server, client' = client, foreign' = foreign, link' = link
  PROVE  Flows'
<1>1. link = "simple" =>
        /\ Reached(wire["server"], "server", server, client)
        /\ Reached(wire["client"], "client", client, server)
        /\ ~Severed' => /\ Flowing(wire["server"], "server", server, client)
                        /\ Flowing(wire["client"], "client", client, server)
  BY DEF Flows
<1>2. /\ link = "client" => ForeignFlows("server", server)'
      /\ link = "server" => ForeignFlows("client", client)'
  BY DEF Flows, ForeignFlows
<1>. QED  BY <1>1, <1>2 DEF Flows

LEMMA FlowsNext ==
  ASSUME LinkInv, Flows, [Next]_vars
  PROVE  Flows'
<1>1. TcpOK /\ ServerOK /\ ClientOK /\ ForeignOK /\ Control /\ Shape
  BY DEF LinkInv, LinkTypeOK
<1>2. CASE ServerSteps(S!Next)
  BY <1>1, <1>2, ServerFlows DEF ServerSteps
<1>3. CASE ClientSteps(C!Next)
  BY <1>1, <1>3, ClientFlows DEF ClientSteps
<1>4. CASE Foreign
  BY <1>1, <1>4, ForeignFlowsKept
<1>5. CASE Break
  BY <1>1, <1>5, ForeignSevers, FlowsStill DEF Break
<1>6. CASE UNCHANGED vars
  <2>1. /\ server' = server /\ client' = client /\ foreign' = foreign /\ link' = link
        /\ wire' = wire /\ socket' = socket
    BY <1>6 DEF vars, tcp
  <2>. QED  BY <2>1, FlowsStill DEF Severed
<1>. QED  BY <1>2, <1>3, <1>4, <1>5, <1>6 DEF Next

(* What an end delivers is what the other end sent, message by message,    *)
(* each put together from its own fragments: whatever the lengths of       *)
(* Pushes, Requests and Parts and however they are cut into frames.        *)
THEOREM LinkInOrder == Spec => []InOrder
<1>1. LinkInv /\ Flows => InOrder
  <2>1. SUFFICES ASSUME LinkInv, Flows PROVE InOrder
    OBVIOUS
  <2>2. /\ server.received \in Messages /\ server.sent \in Messages
        /\ client.received \in Messages /\ client.sent \in Messages
        /\ foreign.sent \in Messages
    BY <2>1, FlowTypes DEF LinkInv, LinkTypeOK
  <2>3. \A msgs \in Messages : Prefix(<<>>, msgs)
    <3>1. \A msgs \in Messages : Len(msgs) \in Nat /\ Len(<<>>) = 0 /\ Len(<<>>) <= Len(msgs)
      BY DEF Messages
    <3>. QED  BY <3>1 DEF Prefix
  <2>4. CASE link = "simple"
    <3>1. Prefix(server.received, client.sent) /\ Prefix(client.received, server.sent)
      BY <2>1, <2>4 DEF Flows, Reached
    <3>. QED  BY <2>2, <2>4, <3>1, PrefixIsPrefix DEF InOrder
  <2>5. CASE link = "client"
    <3>1. client.received = <<>>
      BY <2>1, <2>5 DEF LinkInv, Control, ClientLife, C!Init
    <3>2. Prefix(server.received, foreign.sent) /\ Prefix(client.received, foreign.sent)
      BY <2>1, <2>2, <2>3, <2>5, <3>1 DEF Flows, ForeignFlows, Reached
    <3>. QED  BY <2>2, <2>5, <3>2, PrefixIsPrefix DEF InOrder
  <2>6. CASE link = "server"
    <3>1. server.received = <<>>
      BY <2>1, <2>6 DEF LinkInv, Control, ServerLife, S!Init
    <3>2. Prefix(server.received, foreign.sent) /\ Prefix(client.received, foreign.sent)
      BY <2>1, <2>2, <2>3, <2>6, <3>1 DEF Flows, ForeignFlows, Reached
    <3>. QED  BY <2>2, <2>6, <3>2, PrefixIsPrefix DEF InOrder
  <2>. QED  BY <2>1, <2>4, <2>5, <2>6 DEF LinkInv, LinkTypeOK, TcpOK, Link
<1>. QED  BY <1>1, LinkInvInit, FlowsInit, LinkInvNext, FlowsNext, PTL DEF Spec

-----------------------------------------------------------------------------
(***************************************************************************)
(* What one side of the network writes, the other reads as it was.         *)
(***************************************************************************)
LEMMA NumeralRead ==
  ASSUME NEW n \in Number
  PROVE  ToNumber(Numeral(n)) = n
<1>1. Numeral(n).data = ToString(n)
  BY DEF Numeral, Text
<1>2. \A m \in Number : ToString(m) = ToString(n) <=> m = n
  BY NumeralsAssumption
<1>. HIDE DEF Number
<1>3. \E m \in Number : ToString(m) = ToString(n)
  OBVIOUS
<1>4. (CHOOSE m \in Number : ToString(m) = ToString(n)) = n
  BY <1>2, <1>3
<1>. QED  BY <1>1, <1>4 DEF ToNumber

LEMMA TextRead == \A text : Text(text).data = text
  BY DEF Text

LEMMA TypeRead ==
  ASSUME NEW type \in DOMAIN MessageTypeText
  PROVE  ToEnum(MessageTypeText, MessageTypeText[type]) = type
<1>1. \A value \in DOMAIN MessageTypeText :
        MessageTypeText[value] = MessageTypeText[type] => value = type
  BY DEF MessageTypeText
<1>. DEFINE texts == MessageTypeText
<1>2. type \in DOMAIN texts /\ \A value \in DOMAIN texts : texts[value] = texts[type] => value = type
  BY <1>1
<1>. HIDE DEF texts
<1>3. (CHOOSE value \in DOMAIN texts : texts[value] = texts[type]) = type
  BY <1>2
<1>. QED  BY <1>3 DEF ToEnum, texts

(* Messages of the client, by their fields.                                *)
IsUserInformation(v) == v.id \in Number /\ v = UserInformation(v.id, v.name)
IsUserIdInformation(v) == v.id \in Number /\ v = UserIdInformation(v.id)
IsDeal(v) ==
  /\ v.userId \in Number /\ v.timestamp \in Number /\ v.amount \in Number
  /\ v = DealInformation(v.userId, v.timestamp, v.amount)

LEMMA UserInformationRead ==
  ASSUME NEW v, IsUserInformation(v)
  PROVE  ToUserInformation(FromUserInformation(v)) = v
<1>1. Child(FromUserInformation(v), "id") = Numeral(v.id) /\ Child(FromUserInformation(v), "name") = Text(v.name)
  BY DEF Child, FromUserInformation, Node
<1>2. ToNumber(Numeral(v.id)) = v.id
  BY NumeralRead DEF IsUserInformation
<1>. QED  BY <1>1, <1>2, TextRead DEF ToUserInformation, NumberOf, TextOf, IsUserInformation

LEMMA UserIdInformationRead ==
  ASSUME NEW v, IsUserIdInformation(v)
  PROVE  ToUserIdInformation(FromUserIdInformation(v)) = v
<1>1. Child(FromUserIdInformation(v), "id") = Numeral(v.id)
  BY DEF Child, FromUserIdInformation, Node
<1>2. ToNumber(Numeral(v.id)) = v.id
  BY NumeralRead DEF IsUserIdInformation
<1>. QED  BY <1>1, <1>2 DEF ToUserIdInformation, NumberOf, IsUserIdInformation

LEMMA DealRead ==
  ASSUME NEW v, IsDeal(v)
  PROVE  ToDealInformation(FromDealInformation(v)) = v
<1>1. /\ Child(FromDealInformation(v), "userId") = Numeral(v.userId)
      /\ Child(FromDealInformation(v), "timestamp") = Numeral(v.timestamp)
      /\ Child(FromDealInformation(v), "amount") = Numeral(v.amount)
  BY DEF Child, FromDealInformation, Node
<1>2. /\ ToNumber(Numeral(v.userId)) = v.userId
      /\ ToNumber(Numeral(v.timestamp)) = v.timestamp
      /\ ToNumber(Numeral(v.amount)) = v.amount
  BY NumeralRead DEF IsDeal
<1>. QED  BY <1>1, <1>2 DEF ToDealInformation, NumberOf, IsDeal

LEMMA PositionFields ==
  ASSUME NEW p \in Position
  PROVE  /\ IsUserInformation(p.userInformation) /\ p.position \in Number /\ p.amount \in Number
         /\ p = UserPosition(p.userInformation, p.position, p.amount)
  BY DEF Position, IsUserInformation, UserInformation, UserPosition

LEMMA PositionRead ==
  ASSUME NEW p \in Position
  PROVE  ToUserPosition(FromUserPosition(p)) = p
<1>1. /\ Child(FromUserPosition(p), "userInfo") = FromUserInformation(p.userInformation)
      /\ Child(FromUserPosition(p), "position") = Numeral(p.position)
      /\ Child(FromUserPosition(p), "amount") = Numeral(p.amount)
  BY DEF Child, FromUserPosition, Node
<1>2. /\ ToUserInformation(FromUserInformation(p.userInformation)) = p.userInformation
      /\ ToNumber(Numeral(p.position)) = p.position
      /\ ToNumber(Numeral(p.amount)) = p.amount
  BY PositionFields, UserInformationRead, NumeralRead
<1>. QED  BY <1>1, <1>2, PositionFields DEF ToUserPosition, NumberOf

LEMMA PositionsRead ==
  ASSUME NEW ps \in Seq(Position)
  PROVE  ToUserPositions(FromUserPositions(ps)) = ps
<1>1. FromUserPositions(ps).children = [i \in DOMAIN ps |-> FromUserPosition(ps[i])]
  BY DEF FromUserPositions, Node
<1>2. ToUserPositions(FromUserPositions(ps)) =
        [i \in DOMAIN ps |-> ToUserPosition(FromUserPosition(ps[i]))]
  BY <1>1 DEF ToUserPositions
<1>3. \A i \in DOMAIN ps : ToUserPosition(FromUserPosition(ps[i])) = ps[i]
  BY PositionRead
<1>4. ps = [i \in DOMAIN ps |-> ps[i]]
  OBVIOUS
<1>. QED  BY <1>2, <1>3, <1>4

LEMMA RatingFields ==
  ASSUME NEW r \in RelativeRating
  PROVE  /\ r.userPosition \in Position /\ r.headPositions \in Seq(Position)
         /\ r.highPositions \in Seq(Position) /\ r.lowPositions \in Seq(Position)
         /\ r = UserRelativeRating(r.userPosition, r.headPositions, r.highPositions, r.lowPositions)
  BY DEF RelativeRating, UserRelativeRating

LEMMA RatingRead ==
  ASSUME NEW r \in RelativeRating
  PROVE  ToUserRelativeRating(FromUserRelativeRating(r)) = r
<1>. DEFINE tree == FromUserRelativeRating(r)
<1>1. /\ Child(tree, "userPosition") = FromUserPosition(r.userPosition)
      /\ Child(tree, "headPositions") = FromUserPositions(r.headPositions)
      /\ Child(tree, "highPositions") = FromUserPositions(r.highPositions)
      /\ Child(tree, "lowPositions") = FromUserPositions(r.lowPositions)
  BY DEF Child, FromUserRelativeRating, Node
<1>2. /\ ToUserPosition(FromUserPosition(r.userPosition)) = r.userPosition
      /\ ToUserPositions(FromUserPositions(r.headPositions)) = r.headPositions
      /\ ToUserPositions(FromUserPositions(r.highPositions)) = r.highPositions
      /\ ToUserPositions(FromUserPositions(r.lowPositions)) = r.lowPositions
  BY RatingFields, PositionRead, PositionsRead
<1>. HIDE DEF tree
<1>. QED  BY <1>1, <1>2, RatingFields DEF ToUserRelativeRating, tree

(* Messages that are sent: from the client, and from the server.           *)
IsClientMessage(m) ==
  /\ m = Message(m.type, m.data)
  /\ \/ m.type \in OfUser /\ IsUserInformation(m.data)
     \/ m.type \in OfUserId /\ IsUserIdInformation(m.data)
     \/ m.type = "UserDealWon" /\ IsDeal(m.data)

IsServerMessage(m) ==
  m = Message("UserRelativeRating", m.data) /\ m.data \in RelativeRating

LEMMA BaseMessageRead ==
  ASSUME NEW m, IsClientMessage(m) \/ IsServerMessage(m)
  PROVE  ToBaseMessage(FromBaseMessage(m)) = m
<1>. DEFINE payload == CASE m.type \in OfUser -> FromUserInformation(m.data)
                         [] m.type \in OfUserId -> FromUserIdInformation(m.data)
                         [] m.type = "UserDealWon" -> FromDealInformation(m.data)
                         [] m.type = "UserRelativeRating" -> FromUserRelativeRating(m.data)
            tree == FromBaseMessage(m)
<1>1. m.type \in DOMAIN MessageTypeText /\ m = Message(m.type, m.data)
  BY DEF IsClientMessage, IsServerMessage, OfUser, OfUserId, MessageTypeText, Message
<1>2. TextOf(tree, "type") = MessageTypeText[m.type] /\ Child(tree, "payload") = payload
  BY DEF FromBaseMessage, TextOf, Child, Node, Text
<1>3. ToEnum(MessageTypeText, TextOf(tree, "type")) = m.type
  BY <1>1, <1>2, TypeRead
<1>. HIDE DEF tree, payload
<1>4. ToBaseMessage(tree) =
        Message(m.type, CASE m.type \in OfUser -> ToUserInformation(payload)
                          [] m.type \in OfUserId -> ToUserIdInformation(payload)
                          [] m.type = "UserDealWon" -> ToDealInformation(payload)
                          [] m.type = "UserRelativeRating" -> ToUserRelativeRating(payload))
  BY <1>2, <1>3 DEF ToBaseMessage
<1>5. CASE m.type \in OfUser /\ IsUserInformation(m.data)
  <2>1. payload = FromUserInformation(m.data)
    BY <1>5 DEF payload, OfUser, OfUserId
  <2>2. ToBaseMessage(tree) = Message(m.type, ToUserInformation(payload))
    BY <1>4, <1>5 DEF OfUser, OfUserId
  <2>. QED  BY <1>1, <1>5, <2>1, <2>2, UserInformationRead DEF tree
<1>6. CASE m.type \in OfUserId /\ IsUserIdInformation(m.data)
  <2>1. payload = FromUserIdInformation(m.data)
    BY <1>6 DEF payload, OfUser, OfUserId
  <2>2. ToBaseMessage(tree) = Message(m.type, ToUserIdInformation(payload))
    BY <1>4, <1>6 DEF OfUser, OfUserId
  <2>. QED  BY <1>1, <1>6, <2>1, <2>2, UserIdInformationRead DEF tree
<1>7. CASE m.type = "UserDealWon" /\ IsDeal(m.data)
  <2>1. payload = FromDealInformation(m.data)
    BY <1>7 DEF payload, OfUser, OfUserId
  <2>2. ToBaseMessage(tree) = Message(m.type, ToDealInformation(payload))
    BY <1>4, <1>7 DEF OfUser, OfUserId
  <2>. QED  BY <1>1, <1>7, <2>1, <2>2, DealRead DEF tree
<1>8. CASE IsServerMessage(m)
  <2>0. m.type = "UserRelativeRating" /\ m.data \in RelativeRating
    BY <1>8 DEF IsServerMessage, Message
  <2>1. payload = FromUserRelativeRating(m.data)
    BY <2>0 DEF payload, OfUser, OfUserId
  <2>2. ToBaseMessage(tree) = Message(m.type, ToUserRelativeRating(payload))
    BY <1>4, <2>0 DEF OfUser, OfUserId
  <2>. QED  BY <1>1, <2>0, <2>1, <2>2, RatingRead DEF tree
<1>. QED  BY <1>5, <1>6, <1>7, <1>8 DEF IsClientMessage

LEMMA WsDataRead ==
  ASSUME NEW id, NEW m, ToBaseMessage(FromBaseMessage(m)) = m
  PROVE  ToWsMessage(FromWsMessage(WsData(id, m))).data = m
<1>. DEFINE w == WsData(id, m)
            tree == FromWsMessage(w)
<1>1. w.type = "Data" /\ w.data = m
  BY DEF WsData
<1>2. tree = Node([id |-> Numeral(w.id), type |-> Text(WsMessageTypeText[w.type]),
                   data |-> FromBaseMessage(m)])
  BY <1>1 DEF FromWsMessage
<1>. HIDE DEF tree, w
<1>4. Child(tree, "data") = FromBaseMessage(m) /\ TextOf(tree, "type") = "data"
  <2>1. WsMessageTypeText[w.type] = "data"
    BY <1>1 DEF WsMessageTypeText
  <2>2. tree = Node([id |-> Numeral(w.id), type |-> Text("data"), data |-> FromBaseMessage(m)])
    BY <1>2, <2>1
  <2>. QED  BY <2>2 DEF Child, TextOf, Node, Text
<1>5. ToEnum(WsMessageTypeText, TextOf(tree, "type")) = "Data"
  BY <1>4 DEF ToEnum, WsMessageTypeText
<1>6. \E number : ToWsMessage(tree) = WsData(number, ToBaseMessage(Child(tree, "data")))
  BY <1>5 DEF ToWsMessage
<1>7. \E number : ToWsMessage(tree) = WsData(number, m)
  BY <1>4, <1>6
<1>8. \A number : WsData(number, m).data = m
  BY DEF WsData
<1>. QED  BY <1>7, <1>8 DEF tree, w

LEMMA ClientEventRead ==
  ASSUME NEW m, IsClientMessage(m)
  PROVE  parseClientEvent(toClientEvent(m)) = m
<1>. DEFINE event == toClientEvent(m)
<1>1. m = Message(m.type, m.data)
  BY DEF IsClientMessage
<1>2. CASE m.type = "UserRegistered" /\ IsUserInformation(m.data)
  BY <1>1, <1>2 DEF toClientEvent, parseClientEvent, IsUserInformation
<1>3. CASE m.type = "UserRenamed" /\ IsUserInformation(m.data)
  BY <1>1, <1>3 DEF toClientEvent, parseClientEvent, IsUserInformation
<1>4. CASE m.type = "UserConnected" /\ IsUserIdInformation(m.data)
  BY <1>1, <1>4 DEF toClientEvent, parseClientEvent, IsUserIdInformation
<1>5. CASE m.type = "UserDisconnected" /\ IsUserIdInformation(m.data)
  BY <1>1, <1>5 DEF toClientEvent, parseClientEvent, IsUserIdInformation
<1>6. CASE m.type = "UserDealWon" /\ IsDeal(m.data)
  BY <1>1, <1>6 DEF toClientEvent, parseClientEvent, IsDeal
<1>. QED  BY <1>2, <1>3, <1>4, <1>5, <1>6 DEF IsClientMessage, OfUser, OfUserId

LEMMA RpcPositionRead ==
  ASSUME NEW p \in Position
  PROVE  fromRpcPosition(fillRpcPosition(p)) = p
<1>1. /\ p = UserPosition(p.userInformation, p.position, p.amount)
      /\ p.userInformation = UserInformation(p.userInformation.id, p.userInformation.name)
  BY PositionFields DEF IsUserInformation
<1>. QED  BY <1>1 DEF fromRpcPosition, fillRpcPosition

LEMMA RpcPositionsRead ==
  ASSUME NEW ps \in Seq(Position)
  PROVE  fromRpcPositions(fillRpcPositions(ps)) = ps
<1>1. fillRpcPositions(ps) = [i \in DOMAIN ps |-> fillRpcPosition(ps[i])]
  BY DEF fillRpcPositions
<1>2. fromRpcPositions(fillRpcPositions(ps)) =
        [i \in DOMAIN ps |-> fromRpcPosition(fillRpcPosition(ps[i]))]
  BY <1>1 DEF fromRpcPositions
<1>3. \A i \in DOMAIN ps : fromRpcPosition(fillRpcPosition(ps[i])) = ps[i]
  BY RpcPositionRead
<1>4. ps = [i \in DOMAIN ps |-> ps[i]]
  OBVIOUS
<1>. QED  BY <1>2, <1>3, <1>4

LEMMA ServerEventRead ==
  ASSUME NEW m, IsServerMessage(m)
  PROVE  fromServerEvent(toServerEvent(m)) = m
<1>. DEFINE r == m.data
            event == toServerEvent(m)
<1>1. r \in RelativeRating /\ m = Message("UserRelativeRating", r) /\ m.type = "UserRelativeRating"
  BY DEF IsServerMessage, Message
<1>2. /\ event.payload_case = "user_relative_rating"
      /\ event.user_position = fillRpcPosition(r.userPosition)
      /\ event.head_positions = fillRpcPositions(r.headPositions)
      /\ event.high_positions = fillRpcPositions(r.highPositions)
      /\ event.low_positions = fillRpcPositions(r.lowPositions)
  BY <1>1 DEF toServerEvent
<1>. HIDE DEF event, r
<1>3. fromServerEvent(event) =
        Message("UserRelativeRating",
          UserRelativeRating(fromRpcPosition(event.user_position),
                             fromRpcPositions(event.head_positions),
                             fromRpcPositions(event.high_positions),
                             fromRpcPositions(event.low_positions)))
  BY <1>2 DEF fromServerEvent
<1>4. /\ fromRpcPosition(event.user_position) = r.userPosition
      /\ fromRpcPositions(event.head_positions) = r.headPositions
      /\ fromRpcPositions(event.high_positions) = r.highPositions
      /\ fromRpcPositions(event.low_positions) = r.lowPositions
  BY <1>1, <1>2, RatingFields, RpcPositionRead, RpcPositionsRead
<1>. QED  BY <1>1, <1>3, <1>4, RatingFields DEF event

-----------------------------------------------------------------------------
(***************************************************************************)
(* The two threads of the client.                                          *)
(***************************************************************************)
IsSequence(s) == Len(s) \in Nat /\ s = [i \in 1..Len(s) |-> s[i]]

LEMMA SequenceGrows ==
  ASSUME NEW s, NEW x, IsSequence(s)
  PROVE  IsSequence(Append(s, x)) /\ Len(Append(s, x)) = Len(s) + 1
<1>. DEFINE Values == {s[i] : i \in 1..Len(s)} \cup {x}
<1>1. s \in Seq(Values) /\ x \in Values
  <2>1. \E n \in Nat : s \in [1..n -> Values]
    BY DEF IsSequence
  <2>. QED  BY <2>1
<1>. HIDE DEF Values
<1>2. /\ Append(s, x) \in Seq(Values) /\ Len(Append(s, x)) = Len(s) + 1
  BY <1>1
<1>3. \A t \in Seq(Values) : Len(t) \in Nat /\ t = [i \in 1..Len(t) |-> t[i]]
  OBVIOUS
<1>. QED  BY <1>2, <1>3 DEF IsSequence

LEMMA SequenceChanges ==
  ASSUME NEW s, NEW k, NEW x, IsSequence(s)
  PROVE  IsSequence([s EXCEPT ![k] = x]) /\ Len([s EXCEPT ![k] = x]) = Len(s)
<1>. DEFINE Values == {s[i] : i \in 1..Len(s)} \cup {x}
            t == [s EXCEPT ![k] = x]
<1>1. /\ Len(s) \in Nat /\ DOMAIN t = 1..Len(s)
      /\ \A i \in 1..Len(s) : t[i] \in Values
      /\ t = [i \in 1..Len(s) |-> t[i]]
  BY DEF IsSequence
<1>. HIDE DEF t, Values
<1>2. t \in Seq(Values)
  BY <1>1
<1>3. \A u \in Seq(Values) : Len(u) \in Nat /\ DOMAIN u = 1..Len(u)
  OBVIOUS
<1>4. Len(t) = Len(s)
  <2>1. Len(t) \in Nat /\ 1..Len(t) = 1..Len(s)
    BY <1>1, <1>2, <1>3
  <2>2. \A m, n \in Nat : 1..m = 1..n => m = n
    OBVIOUS
  <2>. QED  BY <1>1, <2>1, <2>2
<1>. QED  BY <1>1, <1>4 DEF IsSequence, t

(* The user that a client's message is about.                              *)
Subject(m) == IF m.type = "UserDealWon" THEN m.data.userId ELSE m.data.id

IsPending(p) == p = <<>> \/ \E m : p = <<m>> /\ IsClientMessage(m)

(* Users are added up to their number, by a thread that main starts when   *)
(* it is connected; requests are made for users that there are.            *)
Registered ==
  /\ IsSequence(users) /\ announced \in Nat
  /\ nUsers \in UserNumbers /\ Len(users) <= nUsers
  /\ registrar \in {"none", "next", "send"}
  /\ main \in {"connect", "connecting", "waitForConnection", "waiting"} => registrar = "none"
  /\ registrar = "none" => Len(users) = 0 /\ announced = 0 /\ pending["main"] = <<>>

Waiting ==
  /\ pending \in [Thread -> {pending["main"], pending["registrar"]}]
  /\ IsPending(pending["main"]) /\ IsPending(pending["registrar"])
  /\ pending["registrar"] # <<>> => registrar = "send"
  /\ \A m : pending["main"] = <<m>> => Subject(m) \in Nat

Crossed == transport \in {"ws", "grpc"} /\ WireMeansMessage

(* A transport that cannot send any more never sends again: its connection *)
(* has been made, and is made once.                                        *)
WsState ==
  [thread : {"none", "starting", "connecting", "open", "returning", "ended"},
   assigned : BOOLEAN, stopRequested : BOOLEAN, connected : BOOLEAN, connection : BOOLEAN,
   wait : {"no", "check", "toBlock", "blocked", "connected", "givenUp"}]

WsUp ==
  /\ ws \in WsState
  /\ ws.connected => ws.thread \notin {"none", "starting", "connecting"}
  /\ ws.wait = "connected" => ws.connected

RpcUp ==
  rpc \in [channel : {"none", "connecting", "ready"},
          stream : {"none", "pending", "alive", "over"},
          receiveThread : {"none", "reading", "ended"},
          stopped : BOOLEAN, wait : {"no", "blocked", "connected", "givenUp"}]

LinkUp ==
  /\ WsUp /\ RpcUp
  /\ transport = "ws" /\ registrar # "none" => ws.connected
  /\ transport = "grpc" /\ main \notin {"connect", "connecting"} => rpc.stream # "pending"

(* While it can send: a user is announced before the next one is added.    *)
Announced ==
  registrar # "none" /\ CanSend =>
    /\ Len(users) = IF registrar = "send" THEN announced + 1 ELSE announced
    /\ \A m : pending["main"] = <<m>> => Subject(m) <= announced

ClientInv == Registered /\ Waiting /\ Crossed /\ LinkUp /\ Announced

LEMMA ClientInvInit ==
  ASSUME ClientInit
  PROVE  ClientInv
<1>1. /\ users = <<>> /\ announced = 0 /\ registrar = "none" /\ nUsers \in UserNumbers
      /\ pending = [t \in Thread |-> <<>>] /\ crossing = <<>> /\ transport \in {"ws", "grpc"}
  BY DEF ClientInit, GeneratorInit
<1>2. IsSequence(<<>>) /\ Len(<<>>) = 0
  BY DEF IsSequence
<1>3. \A n \in UserNumbers : 0 <= n
  BY ClientAssumption, NumeralsAssumption DEF Number
<1>4. pending["main"] = <<>> /\ pending["registrar"] = <<>>
  BY <1>1 DEF Thread
<1>5. Registered
  BY <1>1, <1>2, <1>3, <1>4 DEF Registered
<1>6. \A m : <<m>> # <<>>
  OBVIOUS
<1>7. Waiting
  BY <1>1, <1>4, <1>6 DEF Waiting, IsPending, Thread
<1>8. WsUp /\ RpcUp
  <2>1. W!Init /\ R!Init
    BY DEF ClientInit
  <2>2. WsUp
    BY <2>1 DEF W!Init, WsUp, WsState
  <2>3. RpcUp
    BY <2>1 DEF R!Init, RpcUp
  <2>. QED  BY <2>2, <2>3
<1>9. main = "connect"
  BY DEF ClientInit
<1>10. LinkUp
  BY <1>1, <1>8, <1>9 DEF LinkUp
<1>11. Announced
  BY <1>1 DEF Announced
<1>. QED  BY <1>1, <1>5, <1>7, <1>10, <1>11 DEF ClientInv, Crossed, WireMeansMessage

(* A stop ends the client's thread and wakes who waits for it.             *)
LEMMA WsStops ==
  ASSUME WsUp
  PROVE  LET w == W!RequestStop(ws)
         IN /\ w \in WsState
            /\ w.connected = ws.connected /\ w.connection = ws.connection
            /\ w.wait = "connected" => ws.connected
            /\ w.thread = ws.thread \/ w.thread = "returning"
<1>1. CASE ws.stopRequested
  BY <1>1 DEF WsUp, WsState, W!RequestStop
<1>2. CASE ~ws.stopRequested
  <2>. DEFINE w == [ws EXCEPT !.stopRequested = TRUE]
              thread == IF w.thread \in {"connecting", "open"} THEN "returning" ELSE w.thread
              wait == W!Notified(w.wait)
  <2>1. W!RequestStop(ws) = [w EXCEPT !.thread = thread, !.wait = wait]
    BY <1>2 DEF W!RequestStop, W!StopCallback
  <2>2. /\ w \in WsState
        /\ w.thread = ws.thread /\ w.connected = ws.connected /\ w.wait = ws.wait
        /\ w.connection = ws.connection
    BY DEF WsUp, WsState
  <2>3. thread \in {"none", "starting", "connecting", "open", "returning", "ended"} /\ (thread = ws.thread \/ thread = "returning")
    BY <2>2 DEF WsState
  <2>4. wait \in {"no", "check", "toBlock", "blocked", "connected", "givenUp"} /\ (wait = "connected" => ws.connected)
    BY <2>2 DEF W!Notified, WsUp, WsState
  <2>. HIDE DEF w, thread, wait
  <2>. QED  BY <2>1, <2>2, <2>3, <2>4 DEF WsState
<1>. QED  BY <1>1, <1>2

LEMMA WsStep ==
  ASSUME WsUp,
         W!Connect \/ W!Connected \/ W!WaitForConnection \/ W!Disconnect \/ W!Scheduled \/ W!Network
  PROVE  /\ WsUp'
         /\ ws.connected => ws'.connected /\ (W!CanSend' => W!CanSend)
<1>. USE DEF WsUp, WsState, W!CanSend
<1>1. CASE W!Connect
  BY <1>1 DEF W!Connect
<1>2. CASE W!Connected \/ W!WaitForConnection
  BY <1>2 DEF W!Connected, W!WaitForConnection
<1>3. CASE W!Disconnect
  BY <1>3, WsStops DEF W!Disconnect
<1>4. CASE W!ThreadStarts \/ W!Returns
  BY <1>4 DEF W!ThreadStarts, W!Returns
<1>5. CASE W!Check
  <2>1. PICK wait \in {"no", "check", "toBlock", "blocked", "connected", "givenUp"} : ws' = [ws EXCEPT !.wait = wait] /\ (wait = "connected" => ws.connected)
    BY <1>5 DEF W!Check, W!Answer
  <2>. QED  BY <2>1
<1>6. CASE W!Block
  BY <1>6 DEF W!Block
<1>7. CASE W!TimesOut
  <2>1. PICK wait \in {"no", "check", "toBlock", "blocked", "connected", "givenUp"} : ws' = [ws EXCEPT !.wait = wait] /\ (wait = "connected" => ws.connected)
    BY <1>7 DEF W!TimesOut, W!Answer
  <2>. QED  BY <2>1
<1>8. CASE W!Open
  <2>1. ws.thread = "connecting" /\ ~ws.connected
    BY <1>8 DEF W!Open
  <2>2. PICK wait \in {"no", "check", "toBlock", "blocked", "connected", "givenUp"} : ws' = [ws EXCEPT !.thread = "open", !.connection = TRUE,
                                              !.connected = TRUE, !.wait = wait]
    BY <1>8 DEF W!Open, W!Notified
  <2>. QED  BY <2>1, <2>2
<1>9. CASE W!Ends
  <2>1. PICK w : /\ w = ws \/ w = W!RequestStop(ws)
                 /\ ws' = [w EXCEPT !.thread = "returning"]
    BY <1>9 DEF W!Ends
  <2>2. /\ w \in WsState
        /\ w.connected = ws.connected
        /\ w.wait = "connected" => ws.connected
    BY <2>1, WsStops
  <2>. QED  BY <2>1, <2>2
<1>. QED  BY <1>1, <1>2, <1>3, <1>4, <1>5, <1>6, <1>7, <1>8, <1>9 DEF W!Scheduled, W!Network

LEMMA RpcStep ==
  ASSUME RpcUp,
         R!Connected \/ R!WaitForConnection \/ R!Disconnect \/ R!Scheduled \/ R!Network
  PROVE  /\ RpcUp'
         /\ rpc.stream # "pending" => rpc'.stream # "pending" /\ (R!CanSend' => R!CanSend)
<1>. USE DEF RpcUp, R!CanSend
<1>1. CASE R!Connected \/ R!WaitForConnection \/ R!Disconnect
  BY <1>1 DEF R!Connected, R!WaitForConnection, R!Disconnect
<1>2. CASE R!ChannelReady \/ R!ChannelFails \/ R!CallEnds
  BY <1>2 DEF R!ChannelReady, R!ChannelFails, R!CallEnds
<1>3. CASE R!ReadFails \/ R!WaitReturns
  BY <1>3 DEF R!ReadFails, R!WaitReturns
<1>. QED  BY <1>1, <1>2, <1>3 DEF R!Scheduled, R!AttemptEnds, R!Network

LEMMA ToServerRead ==
  ASSUME NEW m, IsClientMessage(m), transport \in {"ws", "grpc"}
  PROVE  ToServer(m).message = m /\ Understood(ToServer(m)) = m
<1>1. ToBaseMessage(FromBaseMessage(m)) = m
  BY BaseMessageRead
<1>2. ToServer(m).from = "client" /\ ToServer(m).message = m
  BY DEF ToServer
<1>3. CASE transport = "ws"
  <2>1. ToServer(m).wire = FromWsMessage(WsData(announced + requests, m))
    BY <1>3 DEF ToServer
  <2>2. ToWsMessage(FromWsMessage(WsData(announced + requests, m))).data = m
    BY <1>1, WsDataRead
  <2>. QED  BY <1>2, <1>3, <2>1, <2>2 DEF Understood
<1>4. CASE transport = "grpc"
  <2>1. ToServer(m).wire = toClientEvent(m)
    BY <1>4 DEF ToServer
  <2>2. parseClientEvent(toClientEvent(m)) = m
    BY ClientEventRead
  <2>. QED  BY <1>2, <1>4, <2>1, <2>2 DEF Understood
<1>. QED  BY <1>3, <1>4

LEMMA ToClientRead ==
  ASSUME NEW m, IsServerMessage(m), transport \in {"ws", "grpc"}
  PROVE  ToClient(m).message = m /\ Understood(ToClient(m)) = m
<1>1. ToBaseMessage(FromBaseMessage(m)) = m
  BY BaseMessageRead
<1>2. ToClient(m).from = "server" /\ ToClient(m).message = m
  BY DEF ToClient
<1>3. CASE transport = "ws"
  <2>1. ToClient(m).wire = FromWsMessage(WsData(0, m))
    BY <1>3 DEF ToClient
  <2>2. ToWsMessage(FromWsMessage(WsData(0, m))).data = m
    BY <1>1, WsDataRead
  <2>. QED  BY <1>2, <1>3, <2>1, <2>2 DEF Understood
<1>4. CASE transport = "grpc"
  <2>1. ToClient(m).wire = toServerEvent(m)
    BY <1>4 DEF ToClient
  <2>2. fromServerEvent(toServerEvent(m)) = m
    BY ServerEventRead
  <2>. QED  BY <1>2, <1>4, <2>1, <2>2 DEF Understood
<1>. QED  BY <1>3, <1>4

(* What is sent is read as it was.                                         *)
LEMMA CrossedNext ==
  ASSUME Crossed, transport' = transport,
         \/ crossing' = crossing
         \/ \E m : IsClientMessage(m) /\ crossing' = <<ToServer(m)>>
         \/ \E m : IsServerMessage(m) /\ crossing' = <<ToClient(m)>>
  PROVE  Crossed'
<1>1. transport \in {"ws", "grpc"} /\ \A c : Understood(c)' = Understood(c)
  BY DEF Crossed, Understood
<1>2. CASE crossing' = crossing
  BY <1>2 DEF Crossed, WireMeansMessage, Understood
<1>3. ASSUME NEW m, IsClientMessage(m), crossing' = <<ToServer(m)>>
      PROVE  Crossed'
  <2>1. crossing'[1] = ToServer(m)
    BY <1>3
  <2>2. ToServer(m).message = m /\ Understood(ToServer(m)) = m
    BY <1>1, <1>3, ToServerRead
  <2>. DEFINE c == ToServer(m)
  <2>. HIDE DEF c
  <2>3. crossing'[1] = c /\ c.message = m /\ Understood(c) = m
    BY <2>1, <2>2 DEF c
  <2>. QED  BY <1>1, <2>3 DEF Crossed, WireMeansMessage, Understood
<1>4. ASSUME NEW m, IsServerMessage(m), crossing' = <<ToClient(m)>>
      PROVE  Crossed'
  <2>1. crossing'[1] = ToClient(m)
    BY <1>4
  <2>2. ToClient(m).message = m /\ Understood(ToClient(m)) = m
    BY <1>1, <1>4, ToClientRead
  <2>. DEFINE c == ToClient(m)
  <2>. HIDE DEF c
  <2>3. crossing'[1] = c /\ c.message = m /\ Understood(c) = m
    BY <2>1, <2>2 DEF c
  <2>. QED  BY <1>1, <2>3 DEF Crossed, WireMeansMessage, Understood
<1>. QED  BY <1>2, <1>3, <1>4

(* What the client makes is a message, about a user that there is.         *)
LEMMA RegistrationIsMessage ==
  ASSUME Registered, Len(users) # nUsers
  PROVE  IsClientMessage(generateUserRegisteredMessage)
<1>. DEFINE n == Len(users)
            data == UserInformation(n, UserName(n))
<1>1. n \in Number
  <2>1. n \in Nat /\ n <= nUsers /\ n # nUsers /\ nUsers \in Number
    BY ClientAssumption DEF Registered
  <2>. HIDE DEF n
  <2>. QED  BY <2>1, NumeralsAssumption DEF Number
<1>2. generateUserRegisteredMessage = Message("UserRegistered", data)
  BY DEF generateUserRegisteredMessage
<1>3. IsUserInformation(data)
  <2>. HIDE DEF n
  <2>. QED  BY <1>1 DEF IsUserInformation, UserInformation
<1>. HIDE DEF data
<1>. QED  BY <1>2, <1>3 DEF IsClientMessage, Message, OfUser

LEMMA RequestIsMessage ==
  ASSUME Registered,
         NEW type \in DOMAIN MessageTypeText \ {"UserRegistered", "UserRelativeRating"},
         NEW u \in UserIds, NEW timestamp \in 0..1, NEW amount \in 0..1
  PROVE  /\ IsClientMessage(generateUserCommonMessage(type, u, timestamp, amount))
         /\ Subject(generateUserCommonMessage(type, u, timestamp, amount)) = u
         /\ u \in Nat /\ u < Len(users)
<1>. DEFINE m == generateUserCommonMessage(type, u, timestamp, amount)
<1>1. u \in Nat /\ u < Len(users)
  BY DEF Registered, UserIds, IsSequence
<1>2. u \in Number /\ timestamp \in Number /\ amount \in Number
  <2>1. /\ Len(users) \in Nat /\ u \in 0..(Len(users) - 1) /\ Len(users) <= nUsers
        /\ nUsers \in Number /\ 1 \in Number /\ MaxNumber \in Nat
    BY ClientAssumption, NumeralsAssumption DEF Registered, UserIds
  <2>. QED  BY <2>1 DEF Number
<1>3. type \in {"UserConnected", "UserDisconnected", "UserRenamed", "UserDealWon"}
  BY DEF MessageTypeText
<1>4. CASE type \in {"UserConnected", "UserDisconnected"}
  <2>1. \/ m = Message("UserDisconnected", UserIdInformation(u))
        \/ m = Message("UserConnected", UserIdInformation(u))
    BY <1>4 DEF generateUserCommonMessage
  <2>2. IsUserIdInformation(UserIdInformation(u)) /\ UserIdInformation(u).id = u
    BY <1>2 DEF IsUserIdInformation, UserIdInformation
  <2>. HIDE DEF m
  <2>3. /\ m.type \in {"UserDisconnected", "UserConnected"} /\ m.data = UserIdInformation(u)
        /\ m = Message(m.type, m.data)
    BY <2>1 DEF Message
  <2>. QED  BY <1>1, <2>2, <2>3 DEF IsClientMessage, Subject, OfUserId, m
<1>5. CASE type = "UserRenamed"
  <2>. DEFINE name == users[u + 1].name \o "_"
  <2>1. m = Message("UserRenamed", UserInformation(u, name))
    BY <1>5 DEF generateUserCommonMessage
  <2>. HIDE DEF m, name
  <2>2. IsUserInformation(UserInformation(u, name)) /\ UserInformation(u, name).id = u
    BY <1>2 DEF IsUserInformation, UserInformation
  <2>3. /\ m.type = "UserRenamed" /\ m.data = UserInformation(u, name)
        /\ m = Message(m.type, m.data)
    BY <2>1 DEF Message
  <2>. QED  BY <1>1, <2>2, <2>3 DEF IsClientMessage, Subject, OfUser, m
<1>6. CASE type = "UserDealWon"
  <2>1. m = Message("UserDealWon", DealInformation(u, timestamp, amount))
    BY <1>6 DEF generateUserCommonMessage
  <2>. HIDE DEF m
  <2>2. /\ IsDeal(DealInformation(u, timestamp, amount))
        /\ DealInformation(u, timestamp, amount).userId = u
    BY <1>2 DEF IsDeal, DealInformation
  <2>3. /\ m.type = "UserDealWon" /\ m.data = DealInformation(u, timestamp, amount)
        /\ m = Message(m.type, m.data)
    BY <2>1 DEF Message
  <2>. QED  BY <1>1, <2>2, <2>3 DEF IsClientMessage, Subject, m
<1>. QED  BY <1>3, <1>4, <1>5, <1>6

(* A request changes the user that it is about, and no other number.       *)
LEMMA RequestKeepsUsers ==
  ASSUME IsSequence(users), NEW type, NEW u, ApplyRequest(type, u),
         type \in {"UserConnected", "UserDisconnected", "UserRenamed", "UserDealWon"}
  PROVE  IsSequence(users') /\ Len(users') = Len(users)
<1>1. CASE type \in {"UserConnected", "UserDisconnected"}
  <2>1. PICK x : users' = [users EXCEPT ![u + 1] = x]
    BY <1>1 DEF ApplyRequest, Connects
  <2>. QED  BY <2>1, SequenceChanges
<1>2. CASE type = "UserRenamed"
  <2>1. PICK x : users' = [users EXCEPT ![u + 1] = x]
    BY <1>2 DEF ApplyRequest, Renames
  <2>. QED  BY <2>1, SequenceChanges
<1>3. CASE type = "UserDealWon"
  BY <1>3 DEF ApplyRequest
<1>. QED  BY <1>1, <1>2, <1>3

(* A thread's message is taken from where it waits, or put there.          *)
LEMMA WaitingSent ==
  ASSUME Waiting, NEW thread \in Thread, Send(thread)
  PROVE  /\ pending' \in [Thread -> {pending'["main"], pending'["registrar"]}]
         /\ pending'[thread] = <<>>
         /\ \A t \in Thread : t # thread => pending'[t] = pending[t]
         /\ \/ crossing' = crossing
            \/ \E m : IsClientMessage(m) /\ crossing' = <<ToServer(m)>>
         /\ users' = users
<1>1. pending[thread] # <<>> /\ pending' = [pending EXCEPT ![thread] = <<>>] /\ users' = users
  BY DEF Send
<1>2. PICK m : pending[thread] = <<m>> /\ IsClientMessage(m)
  BY <1>1 DEF Waiting, IsPending, Thread
<1>3. Head(pending[thread]) = m
  BY <1>2
<1>4. crossing' = crossing \/ crossing' = <<ToServer(m)>>
  BY <1>3 DEF Send
<1>5. /\ pending' \in [Thread -> {pending'["main"], pending'["registrar"]}]
      /\ pending'[thread] = <<>>
      /\ \A t \in Thread : t # thread => pending'[t] = pending[t]
  BY <1>1 DEF Waiting, Thread
<1>. QED  BY <1>1, <1>2, <1>4, <1>5

LEMMA WaitingPut ==
  ASSUME Waiting, NEW thread \in Thread, NEW m, pending' = [pending EXCEPT ![thread] = <<m>>]
  PROVE  /\ pending' \in [Thread -> {pending'["main"], pending'["registrar"]}]
         /\ pending'[thread] = <<m>>
         /\ \A t \in Thread : t # thread => pending'[t] = pending[t]
  BY DEF Waiting, Thread

(* Messages that cannot be sent stay unsent.                               *)
LEMMA LinkUpNext ==
  ASSUME ClientInv, [ClientNext]_clientVars
  PROVE  LinkUp' /\ (registrar # "none" /\ CanSend' => CanSend)
<1>1. Registered /\ LinkUp /\ transport \in {"ws", "grpc"}
  BY DEF ClientInv, Crossed
<1>2. transport' = transport
  BY DEF ClientNext, Given, clientVars
<1>3. ASSUME ws' = ws, rpc' = rpc,
             main' = main \/ main \notin {"connect", "connecting"} \/ registrar # "none",
             registrar' # "none" => registrar # "none" \/ Waited = "connected"
      PROVE  LinkUp' /\ (registrar # "none" /\ CanSend' => CanSend)
  <2>1. ws' = ws /\ rpc' = rpc
    BY <1>3
  <2>2. transport = "ws" /\ registrar' # "none" => ws.connected
    BY <1>1, <1>3 DEF LinkUp, WsUp, Waited
  <2>3. main \in {"connect", "connecting"} => registrar = "none" /\ main' = main
    BY <1>1, <1>3 DEF Registered
  <2>4. LinkUp'
    BY <1>1, <1>2, <1>3, <2>1, <2>2, <2>3 DEF LinkUp, WsUp, RpcUp
  <2>. QED  BY <1>2, <2>1, <2>4 DEF CanSend, W!CanSend, R!CanSend
<1>4. ASSUME Via(W!Connect, R!Connect) \/ Via(W!Connected, R!Connected)
               \/ Via(W!WaitForConnection, R!WaitForConnection) \/ Via(W!Disconnect, R!Disconnect)
               \/ Via(W!Scheduled, R!Scheduled) \/ Via(W!Network, R!Network),
             transport = "ws", registrar' = registrar
      PROVE  LinkUp' /\ (registrar # "none" /\ CanSend' => CanSend)
  <2>1. /\ rpc' = rpc
        /\ \/ W!Connect \/ W!Connected \/ W!WaitForConnection
           \/ W!Disconnect \/ W!Scheduled \/ W!Network
    BY <1>4 DEF Via
  <2>2. WsUp' /\ (ws.connected => ws'.connected /\ (W!CanSend' => W!CanSend))
    BY <1>1, <2>1, WsStep DEF LinkUp
  <2>3. LinkUp'
    BY <1>1, <1>2, <1>4, <2>1, <2>2 DEF LinkUp, RpcUp
  <2>. QED  BY <1>1, <1>2, <1>4, <2>2, <2>3 DEF LinkUp, CanSend
<1>5. ASSUME transport = "grpc", registrar' = registrar,
             \/ Via(W!Connect, R!Connect) /\ main = "connect" /\ main' = "connecting"
             \/ Via(W!Connected, R!Connected) /\ main = "connecting"
             \/ Via(W!WaitForConnection, R!WaitForConnection) /\ main = "waitForConnection"
             \/ Via(W!Disconnect, R!Disconnect) /\ main = "disconnect"
             \/ Via(W!Scheduled, R!Scheduled) /\ main' = main
             \/ Via(W!Network, R!Network) /\ main' = main
      PROVE  LinkUp' /\ (registrar # "none" /\ CanSend' => CanSend)
  <2>1. /\ ws' = ws
        /\ \/ R!Connect /\ main = "connect" /\ main' = "connecting"
           \/ R!Connected /\ main = "connecting"
           \/ R!WaitForConnection /\ main = "waitForConnection"
           \/ R!Disconnect /\ main = "disconnect"
           \/ R!Scheduled /\ main' = main
           \/ R!Network /\ main' = main
    BY <1>5 DEF Via
  <2>2. CASE R!Connect /\ main = "connect" /\ main' = "connecting"
    <3>1. RpcUp' /\ registrar = "none"
      BY <1>1, <2>2 DEF LinkUp, RpcUp, R!Connect, Registered
    <3>. QED  BY <1>1, <1>2, <1>5, <2>1, <2>2, <3>1 DEF LinkUp, WsUp
  <2>3. CASE R!Connected /\ main = "connecting"
    <3>1. rpc.stream # "pending" /\ registrar = "none"
      BY <1>1, <2>3 DEF R!Connected, Registered
    <3>2. RpcUp' /\ rpc'.stream # "pending"
      BY <1>1, <2>3, <3>1, RpcStep DEF LinkUp
    <3>. QED  BY <1>1, <1>2, <1>5, <2>1, <3>1, <3>2 DEF LinkUp, WsUp
  <2>4. CASE \/ R!WaitForConnection /\ main = "waitForConnection"
             \/ R!Disconnect /\ main = "disconnect"
             \/ R!Scheduled /\ main' = main
             \/ R!Network /\ main' = main
    <3>1. /\ RpcUp'
          /\ rpc.stream # "pending" => rpc'.stream # "pending" /\ (R!CanSend' => R!CanSend)
      BY <1>1, <2>4, RpcStep DEF LinkUp
    <3>2. rpc.stream = "pending" => main \in {"connect", "connecting"} /\ main' = main
      BY <1>1, <1>5, <2>4 DEF LinkUp
    <3>3. LinkUp'
      BY <1>1, <1>2, <1>5, <2>1, <3>1, <3>2 DEF LinkUp, WsUp
    <3>4. registrar # "none" => rpc.stream # "pending"
      BY <1>1, <3>2 DEF Registered
    <3>. QED  BY <1>2, <1>5, <3>1, <3>3, <3>4 DEF CanSend
  <2>. QED  BY <2>1, <2>2, <2>3, <2>4
<1>6. ASSUME registrar' = registrar,
             \/ Via(W!Connect, R!Connect) /\ main = "connect" /\ main' = "connecting"
             \/ Via(W!Connected, R!Connected) /\ main = "connecting"
             \/ Via(W!WaitForConnection, R!WaitForConnection) /\ main = "waitForConnection"
             \/ Via(W!Disconnect, R!Disconnect) /\ main = "disconnect"
             \/ Via(W!Scheduled, R!Scheduled) /\ main' = main
             \/ Via(W!Network, R!Network) /\ main' = main
      PROVE  LinkUp' /\ (registrar # "none" /\ CanSend' => CanSend)
  <2>1. CASE transport = "ws"
    BY <1>4, <1>6, <2>1
  <2>2. CASE transport = "grpc"
    BY <1>5, <1>6, <2>2
  <2>. QED  BY <1>1, <2>1, <2>2
<1>7. CASE UNCHANGED clientVars
  BY <1>3, <1>7 DEF clientVars, links, threads
<1>8. CASE Connect \/ ConnectReturns \/ WaitForConnection \/ Disconnect
  <2>1. CASE Connect
    BY <1>6, <2>1 DEF Connect, Goto
  <2>2. CASE ConnectReturns
    BY <1>6, <2>2 DEF ConnectReturns
  <2>3. CASE WaitForConnection
    BY <1>6, <2>3 DEF WaitForConnection
  <2>4. CASE Disconnect
    BY <1>6, <2>4 DEF Disconnect
  <2>. QED  BY <1>8, <2>1, <2>2, <2>3, <2>4
<1>9. CASE Scheduled \/ Network
  BY <1>6, <1>9 DEF Scheduled, Network, threads
<1>10. CASE ConnectionAwaited
  BY <1>3, <1>10 DEF ConnectionAwaited, Goto, links
<1>11. CASE RegisterUser \/ SendRegistration
  <2>1. registrar # "none"
    BY <1>11 DEF ClientInv, Waiting, RegisterUser, SendRegistration, Send
  <2>. QED  BY <1>3, <1>11, <2>1 DEF RegisterUser, SendRegistration, Send, links
<1>12. CASE Exit \/ WaitForUsers
  BY <1>3, <1>12 DEF Exit, WaitForUsers, Goto, links
<1>15. CASE MakeRequest
  <2>1. ws' = ws /\ rpc' = rpc /\ main = "request" /\ registrar' = registrar
    BY <1>15, Zenon DEF MakeRequest, links
  <2>. QED  BY <1>3, <2>1
<1>16. CASE SendRequest
  <2>1. ws' = ws /\ rpc' = rpc /\ registrar' = registrar /\ pending["main"] # <<>>
    BY <1>16, Zenon DEF SendRequest, Send, links
  <2>2. registrar # "none"
    BY <1>1, <2>1 DEF Registered
  <2>. QED  BY <1>3, <2>1, <2>2
<1>13. CASE MessageHandler \/ SpuriousWakeup
  BY <1>3, <1>13 DEF MessageHandler, SpuriousWakeup, threads, links
<1>. QED
  <2>1. CASE Main
    BY <1>8, <1>10, <1>12, <1>15, <1>16, <2>1 DEF Main
  <2>. QED  BY <1>7, <1>9, <1>11, <1>13, <2>1 DEF ClientNext, Given, Registrar

(* Steps of the transport, and of a thread that does not touch its message.*)
LEMMA ClientInvStill ==
  ASSUME ClientInv, transport' = transport, nUsers' = nUsers, users' = users,
         pending' = pending, announced' = announced, registrar' = registrar,
         \/ crossing' = crossing
         \/ \E m : IsServerMessage(m) /\ crossing' = <<ToClient(m)>>,
         main' \in {"connect", "connecting", "waitForConnection", "waiting"} => registrar = "none",
         LinkUp', registrar # "none" /\ CanSend' => CanSend
  PROVE  ClientInv'
<1>1. Registered'
  BY DEF ClientInv, Registered, IsSequence
<1>2. Waiting'
  BY DEF ClientInv, Waiting, IsPending
<1>3. Announced'
  BY DEF ClientInv, Announced
<1>. QED  BY <1>1, <1>2, <1>3, CrossedNext DEF ClientInv

LEMMA ClientInvNext ==
  ASSUME ClientInv, [ClientNext]_clientVars
  PROVE  ClientInv'
<1>1. Registered /\ Waiting /\ Crossed /\ Announced
  BY DEF ClientInv
<1>0. LinkUp' /\ (registrar # "none" /\ CanSend' => CanSend)
  BY LinkUpNext
<1>. USE DEF Given
<1>2. CASE UNCHANGED clientVars
  <2>1. /\ transport' = transport /\ nUsers' = nUsers /\ users' = users
        /\ pending' = pending /\ announced' = announced /\ registrar' = registrar
        /\ crossing' = crossing /\ main' = main
    BY <1>2 DEF clientVars, threads
  <2>. QED  BY <1>1, <2>1, <1>0, ClientInvStill DEF Registered
<1>3. ASSUME transport' = transport, nUsers' = nUsers, Connect \/ ConnectReturns \/ WaitForConnection
      PROVE  ClientInv'
  <2>1. /\ main \in {"connect", "connecting", "waitForConnection"}
        /\ users' = users /\ pending' = pending /\ announced' = announced /\ registrar' = registrar
        /\ crossing' = crossing
    BY <1>3 DEF Connect, ConnectReturns, WaitForConnection
  <2>. QED  BY <1>0, <1>1, <1>3, <2>1, ClientInvStill DEF Registered
<1>4. ASSUME transport' = transport, nUsers' = nUsers, Disconnect \/ Exit \/ WaitForUsers
      PROVE  ClientInv'
  <2>1. main' = main \/ main' \in {"join", "exited", "request"}
    BY <1>4 DEF Disconnect, Exit, WaitForUsers, Goto
  <2>2. /\ users' = users /\ pending' = pending /\ announced' = announced /\ registrar' = registrar
        /\ crossing' = crossing
    BY <1>4 DEF Disconnect, Exit, WaitForUsers
  <2>. QED  BY <1>1, <1>4, <2>1, <2>2, <1>0, ClientInvStill DEF Registered
<1>5. ASSUME transport' = transport, nUsers' = nUsers, SpuriousWakeup \/ Scheduled \/ Network
      PROVE  ClientInv'
  <2>1. /\ users' = users /\ pending' = pending /\ announced' = announced /\ registrar' = registrar
        /\ crossing' = crossing /\ main' = main
    BY <1>5 DEF SpuriousWakeup, Scheduled, Network, threads
  <2>. QED  BY <1>1, <1>5, <2>1, <1>0, ClientInvStill DEF Registered
<1>6. ASSUME transport' = transport, nUsers' = nUsers, MessageHandler
      PROVE  ClientInv'
  <2>1. PICK rating \in Ratings : crossing' = <<ToClient(Message("UserRelativeRating", rating))>>
    BY <1>6 DEF MessageHandler
  <2>2. IsServerMessage(Message("UserRelativeRating", rating))
    BY ClientAssumption DEF IsServerMessage, Message
  <2>3. /\ users' = users /\ pending' = pending /\ announced' = announced /\ registrar' = registrar
        /\ main' = main
    BY <1>6 DEF MessageHandler
  <2>. QED  BY <1>1, <1>6, <2>1, <2>2, <2>3, <1>0, ClientInvStill DEF Registered
<1>7. ASSUME transport' = transport, nUsers' = nUsers, ConnectionAwaited
      PROVE  ClientInv'
  <2>1. main = "waiting" /\ registrar = "none"
    BY <1>1, <1>7 DEF ConnectionAwaited, Registered
  <2>2. /\ users' = users /\ pending' = pending /\ announced' = announced /\ crossing' = crossing
        /\ main' \in {"waitForUsers", "disconnect"} /\ registrar' \in {"next", "none"}
    BY <1>7, <2>1 DEF ConnectionAwaited, Goto
  <2>3. Registered'
    BY <1>1, <1>7, <2>1, <2>2 DEF Registered, IsSequence
  <2>4. Waiting'
    BY <1>1, <2>1, <2>2 DEF Waiting, IsPending
  <2>5. Announced'
    BY <1>1, <2>1, <2>2 DEF Registered, Announced
  <2>. QED  BY <1>0, <1>1, <1>7, <2>2, <2>3, <2>4, <2>5, CrossedNext DEF ClientInv
<1>8. ASSUME transport' = transport, nUsers' = nUsers, RegisterUser
      PROVE  ClientInv'
  <2>. DEFINE m == generateUserRegisteredMessage
  <2>1. /\ registrar = "next" /\ Len(users) # nUsers /\ registrar' = "send"
        /\ pending' = [pending EXCEPT !["registrar"] = <<m>>]
        /\ \E x : users' = Append(users, x)
        /\ main' = main /\ announced' = announced /\ crossing' = crossing
    BY <1>8 DEF RegisterUser, Register
  <2>2. IsClientMessage(m)
    BY <1>1, <2>1, RegistrationIsMessage
  <2>. HIDE DEF m
  <2>3. /\ pending' \in [Thread -> {pending'["main"], pending'["registrar"]}]
        /\ pending'["registrar"] = <<m>> /\ pending'["main"] = pending["main"]
    BY <1>1, <2>1, WaitingPut DEF Thread
  <2>4. IsSequence(users') /\ Len(users') = Len(users) + 1
    BY <1>1, <2>1, SequenceGrows DEF Registered
  <2>5. /\ Len(users) \in Nat /\ nUsers \in Nat /\ Len(users) <= nUsers /\ Len(users) # nUsers
    BY <1>1, <2>1, ClientAssumption, NumeralsAssumption DEF Registered, Number
  <2>6. Len(users') <= nUsers'
    BY <1>8, <2>4, <2>5
  <2>7. Registered'
    BY <1>1, <1>8, <2>1, <2>4, <2>6 DEF Registered
  <2>8. Waiting'
    BY <1>1, <2>1, <2>2, <2>3 DEF Waiting, IsPending
  <2>9. Announced'
    BY <1>0, <1>1, <2>1, <2>3, <2>4 DEF Announced
  <2>. QED  BY <1>0, <1>1, <1>8, <2>1, <2>7, <2>8, <2>9, CrossedNext DEF ClientInv
<1>9. ASSUME transport' = transport, nUsers' = nUsers, SendRegistration
      PROVE  ClientInv'
  <2>1. /\ Send("registrar") /\ registrar' = "next" /\ main' = main
        /\ announced' = IF CanSend THEN announced + 1 ELSE announced
    BY <1>9 DEF SendRegistration
  <2>2. /\ pending' \in [Thread -> {pending'["main"], pending'["registrar"]}]
        /\ pending'["registrar"] = <<>> /\ pending'["main"] = pending["main"]
        /\ \/ crossing' = crossing
           \/ \E m : IsClientMessage(m) /\ crossing' = <<ToServer(m)>>
        /\ users' = users
    BY <1>1, <2>1, WaitingSent DEF Thread
  <2>3. registrar = "send"
    BY <1>1, <2>1 DEF Send, Waiting
  <2>4. announced' \in Nat /\ \A k \in Nat : k <= announced => k <= announced + 1
    BY <1>1, <2>1 DEF Registered
  <2>5. main \notin {"connect", "connecting", "waitForConnection", "waiting"}
    BY <1>1, <2>3 DEF Registered
  <2>6. Registered'
    BY <1>1, <1>9, <2>1, <2>2, <2>3, <2>4, <2>5 DEF Registered, IsSequence
  <2>7. Waiting'
    BY <1>1, <2>1, <2>2 DEF Waiting, IsPending
  <2>8. Announced'
    <3>1. SUFFICES ASSUME CanSend'
                   PROVE  /\ Len(users') = announced'
                          /\ \A m : pending'["main"] = <<m>> => Subject(m) <= announced'
      BY <2>1 DEF Announced
    <3>2. CanSend
      BY <1>0, <2>3, <3>1
    <3>3. /\ announced' = announced + 1 /\ Len(users) = announced + 1
          /\ \A m : pending["main"] = <<m>> => Subject(m) <= announced
      BY <1>1, <2>1, <2>3, <3>2 DEF Announced
    <3>4. \A m : pending["main"] = <<m>> => Subject(m) \in Nat
      BY <1>1 DEF Waiting
    <3>. QED  BY <2>2, <2>4, <3>3, <3>4
  <2>. QED  BY <1>0, <1>1, <1>9, <2>2, <2>6, <2>7, <2>8, CrossedNext DEF ClientInv
<1>10. ASSUME transport' = transport, nUsers' = nUsers, MakeRequest
       PROVE  ClientInv'
  <2>1. PICK type \in DOMAIN MessageTypeText \ {"UserRegistered", "UserRelativeRating"},
             u \in UserIds, timestamp \in 0..1, amount \in 0..1 :
          /\ pending' = [pending EXCEPT !["main"] =
                           <<generateUserCommonMessage(type, u, timestamp, amount)>>]
          /\ ApplyRequest(type, u)
    BY <1>10 DEF MakeRequest
  <2>2. /\ main' = "send" /\ registrar' = registrar /\ announced' = announced /\ crossing' = crossing
    BY <1>10 DEF MakeRequest, Goto
  <2>. DEFINE m == generateUserCommonMessage(type, u, timestamp, amount)
  <2>3. IsClientMessage(m) /\ Subject(m) = u /\ u \in Nat /\ u < Len(users)
    BY <1>1, RequestIsMessage
  <2>4. IsSequence(users') /\ Len(users') = Len(users)
    <3>1. type \in {"UserConnected", "UserDisconnected", "UserRenamed", "UserDealWon"}
      BY DEF MessageTypeText
    <3>. QED  BY <1>1, <2>1, <3>1, RequestKeepsUsers DEF Registered
  <2>5. pending' = [pending EXCEPT !["main"] = <<m>>]
    BY <2>1
  <2>. HIDE DEF m
  <2>6. /\ pending' \in [Thread -> {pending'["main"], pending'["registrar"]}]
        /\ pending'["main"] = <<m>> /\ pending'["registrar"] = pending["registrar"]
    BY <1>1, <2>5, WaitingPut DEF Thread
  <2>0. registrar # "none"
    BY <1>1, <2>3 DEF Registered
  <2>7. Registered'
    BY <1>1, <1>10, <2>0, <2>2, <2>4 DEF Registered
  <2>8. \A k : pending'["main"] = <<k>> => k = m
    BY <2>6
  <2>9. Waiting'
    BY <1>1, <2>2, <2>3, <2>6, <2>8 DEF Waiting, IsPending
  <2>10. Announced'
    <3>1. SUFFICES ASSUME CanSend'
                   PROVE  /\ Len(users') = IF registrar = "send" THEN announced + 1 ELSE announced
                          /\ Subject(m) <= announced
      BY <2>2, <2>8 DEF Announced
    <3>2. Len(users) = IF registrar = "send" THEN announced + 1 ELSE announced
      BY <1>0, <1>1, <2>0, <3>1 DEF Announced
    <3>. QED  BY <1>1, <2>3, <2>4, <3>2 DEF Registered
  <2>. QED  BY <1>0, <1>1, <1>10, <2>2, <2>7, <2>9, <2>10, CrossedNext DEF ClientInv
<1>11. ASSUME transport' = transport, nUsers' = nUsers, SendRequest
       PROVE  ClientInv'
  <2>1. Send("main") /\ main' = "waitForUsers" /\ registrar' = registrar /\ announced' = announced
    BY <1>11 DEF SendRequest, Goto
  <2>2. /\ pending' \in [Thread -> {pending'["main"], pending'["registrar"]}]
        /\ pending'["main"] = <<>> /\ pending'["registrar"] = pending["registrar"]
        /\ \/ crossing' = crossing
           \/ \E m : IsClientMessage(m) /\ crossing' = <<ToServer(m)>>
        /\ users' = users
    BY <1>1, <2>1, WaitingSent DEF Thread
  <2>3. Registered'
    BY <1>1, <1>11, <2>1, <2>2 DEF Registered, IsSequence
  <2>4. \A m : pending'["main"] # <<m>>
    BY <2>2
  <2>5. Waiting'
    BY <1>1, <2>1, <2>2, <2>4 DEF Waiting, IsPending
  <2>6. Announced'
    BY <1>0, <1>1, <2>1, <2>2, <2>4 DEF Announced
  <2>. QED  BY <1>0, <1>1, <1>11, <2>2, <2>3, <2>5, <2>6, CrossedNext DEF ClientInv
<1>12. ASSUME transport' = transport, nUsers' = nUsers, Main
       PROVE  ClientInv'
  BY <1>3, <1>4, <1>7, <1>10, <1>11, <1>12 DEF Main
<1>. QED  BY <1>2, <1>5, <1>6, <1>8, <1>9, <1>12 DEF ClientNext, Registrar

(* Whichever transport and whatever the message: what the far end reads is *)
(* what was sent.                                                          *)
THEOREM ClientWireMeansMessage == ClientSpec => []WireMeansMessage
<1>1. ClientInv => WireMeansMessage
  BY DEF ClientInv, Crossed
<1>. QED  BY <1>1, ClientInvInit, ClientInvNext, PTL DEF ClientSpec

(* While messages can be sent, a request is about a user that has been     *)
(* announced, or the newest.                                               *)
THEOREM ClientOnlyNewestUnannounced == ClientSpec => []OnlyNewestUnannounced
<1>1. ClientInv => OnlyNewestUnannounced
  <2>1. SUFFICES ASSUME ClientInv, CanSend, NEW i \in DOMAIN pending["main"]
                 PROVE  LET m == pending["main"][i]
                        IN (IF m.type = "UserDealWon" THEN m.data.userId ELSE m.data.id) <= announced
    BY DEF OnlyNewestUnannounced
  <2>2. PICK m : pending["main"] = <<m>>
    BY <2>1 DEF ClientInv, Waiting, IsPending
  <2>3. registrar # "none"
    BY <2>1, <2>2 DEF ClientInv, Registered
  <2>4. Subject(m) <= announced
    BY <2>1, <2>2, <2>3 DEF ClientInv, Announced
  <2>5. pending["main"][i] = m
    BY <2>1, <2>2
  <2>. QED  BY <2>4, <2>5 DEF Subject
<1>. QED  BY <1>1, ClientInvInit, ClientInvNext, PTL DEF ClientSpec
=============================================================================
