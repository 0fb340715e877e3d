------------------------------ MODULE WsFrames ------------------------------
(***************************************************************************)
(* What the two ends of SimpleWeb's WebSocket library (server_ws.hpp,      *)
(* client_ws.hpp) share: the frames, and the TCP connection they go over.  *)
(*                                                                         *)
(* A payload is a sequence of parts, so that a message can be cut into     *)
(* fragments.  A frame crosses the wire as two pieces, because the server  *)
(* writes it in two operations and both ends read it in several: its       *)
(* header (opcode, mask bit, length) and its content.                      *)
(***************************************************************************)
EXTENDS Naturals, Sequences

CONSTANTS Part,         \* what payloads are made of
          LengthBytes   \* how many bytes of extended length a part needs

ASSUME LengthAssumption == LengthBytes \in [Part -> {0, 2, 8}]

VARIABLES socket,       \* each end of the TCP connection
          wire,         \* the pieces on their way to each end
          listening     \* does the server accept connections?

tcp == <<socket, wire, listening>>

End == {"server", "client"}
Peer(e) == IF e = "server" THEN "client" ELSE "server"

TcpInit ==
  /\ socket = [e \in End |-> "none"]
  /\ wire = [e \in End |-> <<>>]
  /\ listening = FALSE

Frame(fin, opcode, masked, payload) ==
  [fin |-> fin, opcode |-> opcode, masked |-> masked, payload |-> payload]
NoFrame == Frame(TRUE, "none", FALSE, <<>>)

Header(f) == [piece |-> "header", frame |-> f]
Content(f) == [piece |-> "content", frame |-> f]
Request(good) == [piece |-> "request", good |-> good]
Response(good) == [piece |-> "response", good |-> good]

(* Length bytes 126 and 127 announce an extended length.                   *)
HasLongLength(f) == f.payload # <<>> /\ LengthBytes[f.payload[1]] > 0

Closed(e) == [socket EXCEPT ![e] = "closed"]

(* The next piece that end e can read.                                     *)
Arrived(e, piece) ==
  /\ socket[e] = "open"
  /\ wire[e] # <<>>
  /\ Head(wire[e]).piece = piece

Taken(e) == [wire EXCEPT ![e] = Tail(@)]

(* What end e writes goes to its peer, or nowhere if that has closed.      *)
Written(e, pieces) ==
  IF socket[Peer(e)] = "open"
  THEN [wire EXCEPT ![Peer(e)] = @ \o pieces] ELSE wire

(* An operation of e fails: its own socket was closed under it, the peer   *)
(* has closed (what it wrote before may still be read, or be lost), or the *)
(* connection broke.                                                       *)
CanFail(e) == socket[e] # "open" \/ socket[Peer(e)] \in {"closed", "broken"}
=============================================================================
