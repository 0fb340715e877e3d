---------------------------- MODULE SocketClient ---------------------------
(***************************************************************************)
(* The connection of SimpleWeb's WebSocket client (client_ws.hpp), from    *)
(* start to stop, as WsTransportClient uses it: its on_close and on_error  *)
(* stop the client.  One thread runs the io_service, every completion      *)
(* handler is one action.  Both timeouts of the client are 0: it has no    *)
(* timer, and waits for a silent server as long as nobody stops it.        *)
(*                                                                         *)
(* The bytes that follow the handshake's response in one read are not      *)
(* modelled: WsLink's FramesWhole says that there are none.                *)
(***************************************************************************)
EXTENDS WsFrames

CONSTANT Requests            \* the parts the application sends, in this order

VARIABLE client

(* The fields are those of SocketServer's connection.                      *)
Init ==
  client = [service |-> "new", phase |-> "none", frame |-> NoFrame,
            fragmented_message |-> <<>>, posted |-> <<>>, send_queue |-> <<>>,
            writing |-> "none", closed |-> FALSE, opened |-> 0, ended |-> 0,
            received |-> <<>>, sent |-> <<>>]

Running == client.service = "running"
In(phase) == Running /\ client.phase = phase

-----------------------------------------------------------------------------
(* Start, connect and stop.                                                *)
Start ==
  /\ client.service = "new"
  /\ client' = [client EXCEPT !.service = "running", !.phase = "resolve"]
  /\ UNCHANGED tcp

(* stop: the socket is closed and no handler runs any more.                *)
Stopped(c) == [c EXCEPT !.service = "stopped"]

Stop ==
  /\ Running
  /\ client' = Stopped(client)
  /\ socket' = Closed("client")
  /\ UNCHANGED <<wire, listening>>

-----------------------------------------------------------------------------
(* The application's side: connection_open, _close and _error, send.       *)
ConnectionOpen(c) == [c EXCEPT !.opened = @ + 1]

(* on_close and on_error request a stop, whose callback calls stop.        *)
ConnectionClose(c) ==
  /\ client' = Stopped([c EXCEPT !.ended = @ + 1, !.phase = "done"])
  /\ socket' = Closed("client")

ConnectionError == ConnectionClose(client)

Send(c, f) == [c EXCEPT !.posted = Append(@, f)]

SendClose(c) ==
  IF c.closed THEN c
  ELSE [Send(c, Frame(TRUE, "close", TRUE, <<>>)) EXCEPT !.closed = TRUE]

AppSends ==
  /\ client.opened > 0
  /\ Len(client.sent) < Len(Requests)
  /\ LET m == <<Requests[Len(client.sent) + 1]>>
     IN client' = [Send(client, Frame(TRUE, "text", TRUE, m)) EXCEPT !.sent = Append(@, m)]
  /\ UNCHANGED tcp

-----------------------------------------------------------------------------
(* connect and handshake.                                                  *)
Resolve ==
  /\ In("resolve")
  /\ client' = [client EXCEPT !.phase = "connect"]
  /\ UNCHANGED tcp

Connect ==
  /\ In("connect")
  /\ listening
  /\ socket' = [socket EXCEPT !["client"] = "open"]
  /\ client' = [client EXCEPT !.phase = "writeHandshake"]
  /\ UNCHANGED <<wire, listening>>

(* The name does not resolve, or nobody answers.                           *)
ConnectFails ==
  /\ In("resolve") \/ In("connect")
  /\ ConnectionError
  /\ UNCHANGED <<wire, listening>>

(* The request waits in the connection until the server accepts it.        *)
WriteHandshake ==
  /\ In("writeHandshake")
  /\ socket["client"] = "open"
  /\ wire' = [wire EXCEPT !["server"] = Append(@, Request(TRUE))]
  /\ client' = [client EXCEPT !.phase = "readHandshake"]
  /\ UNCHANGED <<socket, listening>>

(* The status must be 101 and the key the digest of the nonce.             *)
ReadHandshake ==
  /\ In("readHandshake")
  /\ Arrived("client", "response")
  /\ wire' = Taken("client")
  /\ UNCHANGED listening
  /\ IF Head(wire["client"]).good
     THEN /\ client' = [ConnectionOpen(client) EXCEPT !.phase = "header"]
          /\ UNCHANGED socket
     ELSE ConnectionError

Handshake == Resolve \/ Connect \/ ConnectFails \/ WriteHandshake \/ ReadHandshake

-----------------------------------------------------------------------------
(* The chain of reads, and every operation of it that fails.               *)

(* A slip the checks must catch: an error is not told.                     *)
FailsUntold ==
  /\ \E phase \in {"writeHandshake", "readHandshake", "header", "length", "content"} : In(phase)
  /\ CanFail("client")
  /\ client' = [client EXCEPT !.phase = "done"]
  /\ UNCHANGED tcp

Fails ==
  /\ \E phase \in {"writeHandshake", "readHandshake", "header", "length", "content"} : In(phase)
  /\ CanFail("client")
  /\ ConnectionError
  /\ UNCHANGED <<wire, listening>>

ReadHeader ==
  /\ In("header")
  /\ Arrived("client", "header")
  /\ wire' = Taken("client")
  /\ UNCHANGED listening
  /\ LET f == Head(wire["client"]).frame
     IN IF f.masked
        THEN ConnectionClose(SendClose(client))
        ELSE /\ client' = [client EXCEPT !.frame = f,
                             !.phase = IF HasLongLength(f) THEN "length" ELSE "content"]
             /\ UNCHANGED socket

ReadLength ==
  /\ In("length")
  /\ socket["client"] = "open"
  /\ client' = [client EXCEPT !.phase = "content"]
  /\ UNCHANGED tcp

ReadContent(opcodes) ==
  /\ In("content")
  /\ client.frame.opcode \in opcodes
  /\ Arrived("client", "content")
  /\ wire' = Taken("client")
  /\ UNCHANGED listening

ReadClose ==
  /\ ReadContent({"close"})
  /\ ConnectionClose(SendClose(client))

ReadPing ==
  /\ ReadContent({"ping"})
  /\ client' = [Send(client, Frame(TRUE, "pong", TRUE, <<>>)) EXCEPT !.phase = "header"]
  /\ UNCHANGED socket

ReadPong ==
  /\ ReadContent({"pong"})
  /\ client' = [client EXCEPT !.phase = "header"]
  /\ UNCHANGED socket

Joined == client.fragmented_message \o client.frame.payload

ReadFragment ==
  /\ ReadContent({"text", "continuation"})
  /\ ~client.frame.fin
  /\ client' = [client EXCEPT !.phase = "header", !.fragmented_message = Joined]
  /\ UNCHANGED socket

(* Here every final frame is joined to fragmented_message.                 *)
ReadMessage ==
  /\ ReadContent({"text", "continuation"})
  /\ client.frame.fin
  /\ client' = [client EXCEPT !.phase = "header", !.fragmented_message = <<>>,
                  !.received = Append(@, Joined)]
  /\ UNCHANGED socket

Read ==
  \/ Fails \/ ReadHeader \/ ReadLength \/ ReadClose \/ ReadPing
  \/ ReadPong \/ ReadFragment \/ ReadMessage

-----------------------------------------------------------------------------
(* The chain of writes: a frame is one operation here.                     *)
RunSend ==
  /\ Running
  /\ client.posted # <<>>
  /\ client' = [client EXCEPT !.posted = Tail(@),
                  !.send_queue = Append(@, Head(client.posted)),
                  !.writing = IF client.send_queue = <<>> THEN "posted" ELSE @]
  /\ UNCHANGED tcp

WriteFrame ==
  /\ Running
  /\ client.writing = "posted"
  /\ socket["client"] = "open"
  /\ LET f == Head(client.send_queue) IN wire' = Written("client", <<Header(f), Content(f)>>)
  /\ client' = [client EXCEPT !.writing = "frame"]
  /\ UNCHANGED <<socket, listening>>

FinishWrite ==
  /\ Running
  /\ client.writing = "frame"
  /\ client' = [client EXCEPT !.send_queue = Tail(@),
                  !.writing = IF Len(client.send_queue) > 1 THEN "posted" ELSE "none"]
  /\ UNCHANGED tcp

WriteFails ==
  /\ Running
  /\ client.writing \in {"posted", "frame"}
  /\ CanFail("client")
  /\ client' = [client EXCEPT !.send_queue = <<>>, !.writing = "none"]
  /\ UNCHANGED tcp

Writing == RunSend \/ WriteFrame \/ FinishWrite \/ WriteFails

(* What the thread of the io_service does without being asked.             *)
Handlers == Handshake \/ Read \/ Writing

Next == Start \/ Stop \/ AppSends \/ Handlers
=============================================================================
