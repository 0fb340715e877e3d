---------------------------- MODULE SocketServer ----------------------------
(***************************************************************************)
(* One connection of SimpleWeb's WebSocket server (server_ws.hpp), from    *)
(* accept to the release of its socket, as WsTransportServer uses it.      *)
(*                                                                         *)
(* Every completion handler is one action.  The chain of reads has one     *)
(* operation outstanding ("phase" says which); the chain of writes runs    *)
(* beside it on the connection's strand; the request timer's handler, once *)
(* it is queued, can no longer be cancelled.  The idle timeout is 0 and    *)
(* max_message_size the maximum, as the program leaves them.  Status and   *)
(* reason of a close frame are not kept.                                   *)
(***************************************************************************)
EXTENDS WsFrames

CONSTANT Pushes              \* the parts the application sends, in this order

VARIABLE server

(* phase: the read under way.  frame: the header read last.                *)
(* fragmented_message: what it has so far, empty for a null pointer.       *)
(* posted: sends the strand has yet to run.  writing: the write under way. *)
(* armed, queued: the request timer runs; its handler waits to be run.     *)
(* connection: is it in endpoint.connections?                              *)
(* opened, ended, received, sent: what the application was told and said.  *)
Init ==
  server = [service |-> "new", phase |-> "none", frame |-> NoFrame,
            fragmented_message |-> <<>>, posted |-> <<>>, send_queue |-> <<>>,
            writing |-> "none", closed |-> FALSE, armed |-> FALSE,
            queued |-> FALSE, connection |-> FALSE, opened |-> 0,
            ended |-> 0, received |-> <<>>, sent |-> <<>>]

Running == server.service \in {"running", "stopping"}
In(phase) == Running /\ server.phase = phase

-----------------------------------------------------------------------------
(* Start and stop.                                                         *)
Start ==
  /\ server.service = "new"
  /\ server' = [server EXCEPT !.service = "running"]
  /\ listening' = TRUE
  /\ UNCHANGED <<socket, wire>>

(* stop, up to io_service->stop().                                         *)
Stopped(s) == [s EXCEPT !.service = "stopping", !.connection = FALSE]

Stop ==
  /\ server.service = "running"
  /\ server' = Stopped(server)
  /\ listening' = FALSE
  /\ socket' = IF server.connection THEN Closed("server") ELSE socket
  /\ UNCHANGED wire

StopService ==
  /\ server.service = "stopping"
  /\ server' = [server EXCEPT !.service = "stopped"]
  /\ UNCHANGED tcp

(* The threads have left run(), the server is destroyed.                   *)
Exit ==
  /\ server.service = "stopped"
  /\ socket["server"] # "closed"
  /\ socket' = Closed("server")
  /\ UNCHANGED <<server, wire, listening>>

-----------------------------------------------------------------------------
(* The application's side: connection_open, _close and _error, send.       *)
ConnectionOpen(s) ==
  [s EXCEPT !.armed = FALSE, !.connection = TRUE, !.opened = @ + 1]

ConnectionClose(s) ==
  [s EXCEPT !.armed = FALSE, !.connection = FALSE, !.ended = @ + 1, !.phase = "done"]

(* WsTransportServer's on_error stops the server.                          *)
ConnectionError == server' = Stopped(ConnectionClose(server)) /\ listening' = FALSE

Send(s, f) == [s EXCEPT !.posted = Append(@, f)]

SendClose(s) ==
  IF s.closed THEN s
  ELSE [Send(s, Frame(TRUE, "close", FALSE, <<>>)) EXCEPT !.closed = TRUE]

(* WsProtocol, which has the connection from on_message, answers and       *)
(* pushes whenever it likes: also after the connection's end, as long as   *)
(* the connection exists.                                                  *)
AppSends ==
  /\ Running
  /\ server.phase = "done" => socket["server"] # "closed"
  /\ server.received # <<>>
  /\ Len(server.sent) < Len(Pushes)
  /\ LET m == <<Pushes[Len(server.sent) + 1]>>
     IN server' = [Send(server, Frame(TRUE, "text", FALSE, m)) EXCEPT !.sent = Append(@, m)]
  /\ UNCHANGED tcp

-----------------------------------------------------------------------------
(* The handshake and its timer.                                            *)

Accept ==
  /\ In("none")
  /\ listening
  /\ socket["client"] # "none"
  /\ socket' = [socket EXCEPT !["server"] = "open"]
  /\ server' = [server EXCEPT !.phase = "readHandshake", !.armed = TRUE]
  /\ UNCHANGED <<wire, listening>>

(* A request that does not parse, names no endpoint or has no key is left  *)
(* without an answer.                                                      *)
ReadHandshake ==
  /\ In("readHandshake")
  /\ Arrived("server", "request")
  /\ wire' = Taken("server")
  /\ server' = IF Head(wire["server"]).good
               THEN [server EXCEPT !.phase = "writeHandshake", !.armed = TRUE]
               ELSE [server EXCEPT !.phase = "done", !.armed = FALSE]
  /\ UNCHANGED <<socket, listening>>

ReadHandshakeFails ==
  /\ In("readHandshake")
  /\ CanFail("server")
  /\ server' = [server EXCEPT !.phase = "done", !.armed = FALSE]
  /\ UNCHANGED tcp

WriteHandshake ==
  /\ In("writeHandshake")
  /\ socket["server"] = "open"
  /\ wire' = Written("server", <<Response(TRUE)>>)
  /\ server' = [server EXCEPT !.phase = "opening"]
  /\ UNCHANGED <<socket, listening>>

WriteHandshakeFails ==
  /\ In("writeHandshake")
  /\ CanFail("server")
  /\ ConnectionError
  /\ UNCHANGED <<socket, wire>>

Open ==
  /\ In("opening")
  /\ server' = [ConnectionOpen(server) EXCEPT !.phase = "header"]
  /\ UNCHANGED tcp

TimerExpires ==
  /\ Running
  /\ server.armed
  /\ server' = [server EXCEPT !.armed = FALSE, !.queued = TRUE]
  /\ UNCHANGED tcp

TimerCloses ==
  /\ Running
  /\ server.queued
  /\ server' = [server EXCEPT !.queued = FALSE]
  /\ socket' = Closed("server")
  /\ UNCHANGED <<wire, listening>>

Handshake ==
  \/ Accept \/ ReadHandshake \/ ReadHandshakeFails \/ WriteHandshake
  \/ WriteHandshakeFails \/ Open \/ TimerExpires \/ TimerCloses

-----------------------------------------------------------------------------
(* The chain of reads.                                                     *)
ReadHeader ==
  /\ In("header")
  /\ Arrived("server", "header")
  /\ wire' = Taken("server")
  /\ LET f == Head(wire["server"]).frame
     IN server' = IF ~f.masked THEN ConnectionClose(SendClose(server))
                  ELSE [server EXCEPT !.frame = f,
                          !.phase = IF HasLongLength(f) THEN "length" ELSE "content"]
  /\ UNCHANGED <<socket, listening>>

ReadLength ==
  /\ In("length")
  /\ socket["server"] = "open"
  /\ server' = [server EXCEPT !.phase = "content"]
  /\ UNCHANGED tcp

ReadFails ==
  /\ In("header") \/ In("length") \/ In("content")
  /\ CanFail("server")
  /\ ConnectionError
  /\ UNCHANGED <<socket, wire>>

ReadContent(opcodes) ==
  /\ In("content")
  /\ server.frame.opcode \in opcodes
  /\ Arrived("server", "content")
  /\ wire' = Taken("server")
  /\ UNCHANGED <<socket, listening>>

(* A slip: the next frame is read after a close.                           *)
ReadCloseAndGoOn ==
  /\ ReadContent({"close"})
  /\ server' = [ConnectionClose(SendClose(server)) EXCEPT !.phase = "header"]

ReadClose ==
  /\ ReadContent({"close"})
  /\ server' = ConnectionClose(SendClose(server))

ReadPing ==
  /\ ReadContent({"ping"})
  /\ server' = [Send(server, Frame(TRUE, "pong", FALSE, <<>>)) EXCEPT !.phase = "header"]

ReadPong ==
  /\ ReadContent({"pong"})
  /\ server' = [server EXCEPT !.phase = "header"]

(* A frame that is not final, or a continuation, joins fragmented_message. *)
Joined == server.fragmented_message \o server.frame.payload

ReadFragment ==
  /\ ReadContent({"text", "continuation"})
  /\ ~server.frame.fin
  /\ server' = [server EXCEPT !.phase = "header", !.fragmented_message = Joined]

(* A slip: fragmented_message is kept for the next message.                *)
ReadMessageUnreset ==
  /\ ReadContent({"text", "continuation"})
  /\ server.frame.fin
  /\ LET m == IF server.frame.opcode = "continuation" THEN Joined ELSE server.frame.payload
     IN server' = [server EXCEPT !.phase = "header", !.fragmented_message = m,
                     !.received = Append(@, m)]

ReadMessage ==
  /\ ReadContent({"text", "continuation"})
  /\ server.frame.fin
  /\ LET m == IF server.frame.opcode = "continuation" THEN Joined ELSE server.frame.payload
     IN server' = [server EXCEPT !.phase = "header", !.fragmented_message = <<>>,
                     !.received = Append(@, m)]

Read ==
  \/ ReadHeader \/ ReadLength \/ ReadFails \/ ReadClose \/ ReadPing
  \/ ReadPong \/ ReadFragment \/ ReadMessage

-----------------------------------------------------------------------------
(* The chain of writes.                                                    *)

(* A slip: every send starts a write of its own.                           *)
RunSendAtOnce ==
  /\ Running
  /\ server.posted # <<>>
  /\ server' = [server EXCEPT !.posted = Tail(@), !.writing = "posted",
                  !.send_queue = Append(@, Head(server.posted))]
  /\ UNCHANGED tcp

(* The strand runs a send: the first of the queue starts the writing.      *)
RunSend ==
  /\ Running
  /\ server.posted # <<>>
  /\ server' = [server EXCEPT !.posted = Tail(@),
                  !.send_queue = Append(@, Head(server.posted)),
                  !.writing = IF server.send_queue = <<>> THEN "posted" ELSE @]
  /\ UNCHANGED tcp

Write(from, pieces, to) ==
  /\ Running
  /\ server.writing = from
  /\ socket["server"] = "open"
  /\ wire' = Written("server", pieces)
  /\ server' = [server EXCEPT !.writing = to]
  /\ UNCHANGED <<socket, listening>>

WriteHeader == Write("posted", <<Header(Head(server.send_queue))>>, "header")
WriteContent == Write("header", <<Content(Head(server.send_queue))>>, "content")

FinishWrite ==
  /\ Running
  /\ server.writing = "content"
  /\ server' = [server EXCEPT !.send_queue = Tail(@),
                  !.writing = IF Len(server.send_queue) > 1 THEN "posted" ELSE "none"]
  /\ UNCHANGED tcp

(* The first callback is told of an error, the others are never called.    *)
WriteFails ==
  /\ Running
  /\ server.writing \in {"posted", "header", "content"}
  /\ CanFail("server")
  /\ server' = [server EXCEPT !.send_queue = <<>>, !.writing = "none"]
  /\ UNCHANGED tcp

(* No handler holds the connection any more: its socket goes with it.      *)
Release ==
  /\ In("done")
  /\ server.posted = <<>> /\ server.writing = "none"
  /\ socket["server"] # "closed"
  /\ socket' = Closed("server")
  /\ UNCHANGED <<server, wire, listening>>

Writing == RunSend \/ WriteHeader \/ WriteContent \/ FinishWrite \/ WriteFails

(* What the threads of the io_service do without being asked.              *)
Handlers == Handshake \/ Read \/ Writing \/ Release \/ StopService \/ Exit

Next == Start \/ Stop \/ AppSends \/ Handlers
=============================================================================
