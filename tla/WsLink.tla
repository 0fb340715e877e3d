------------------------------- MODULE WsLink -------------------------------
(***************************************************************************)
(* The two ends of SimpleWeb's WebSocket library over one TCP connection,  *)
(* and each of them with another implementation of the protocol at the     *)
(* far end: a browser that came to the server, a server that --address     *)
(* points the test client at.  The foreign end keeps to RFC 6455 (it may   *)
(* fragment, put control frames in between and close whenever it likes),   *)
(* but for its handshake and the mask of a frame, which may be wrong.  A   *)
(* foreign server speaks when spoken to, as WsTransportServer does.        *)
(***************************************************************************)
EXTENDS WsFrames, SequencesExt

CONSTANTS Pushes, Requests,  \* the parts that server and client send, in order
          Parts,             \* those that a foreign end sends
          Frames,            \* how many frames it sends,
          Controls           \* and how many of them are control frames

ASSUME PartsAssumption ==
  Pushes \in Seq(Part) /\ Requests \in Seq(Part) /\ Parts \in Seq(Part)

VARIABLES server, client,    \* the ends that SimpleWeb implements
          foreign,           \* the end that it does not
          link               \* which end that is, if any

S == INSTANCE SocketServer
C == INSTANCE SocketClient

vars == <<tcp, server, client, foreign, link>>

Link == {"simple", "client", "server"}

(* may: has it been spoken to?  parts: of its message so far.  cut: is     *)
(* that open?  used, controls, wrong: what it has sent.                    *)
Init ==
  /\ TcpInit /\ S!Init /\ C!Init
  /\ link \in Link
  /\ foreign = [may |-> FALSE, parts |-> <<>>, cut |-> FALSE, used |-> 0,
                controls |-> 0, over |-> FALSE, sent |-> <<>>]

-----------------------------------------------------------------------------
(* The foreign end.                                                        *)
Other == IF link = "server" THEN "server" ELSE "client"

ForeignListens ==
  /\ ~listening /\ socket["server"] = "none"
  /\ listening' = TRUE
  /\ UNCHANGED <<socket, wire, foreign>>

ForeignAccepts ==
  /\ socket["server"] = "none" /\ socket["client"] # "none"
  /\ socket' = [socket EXCEPT !["server"] = "open"]
  /\ UNCHANGED <<wire, listening, foreign>>

ForeignConnects ==
  /\ listening /\ socket["client"] = "none"
  /\ socket' = [socket EXCEPT !["client"] = "open"]
  /\ UNCHANGED <<wire, listening, foreign>>

(* A client may also connect and say nothing.                              *)
ForeignRequests ==
  /\ socket["client"] = "open" /\ ~foreign.over
  /\ ~foreign.may /\ foreign.used = 0
  /\ \E good \in BOOLEAN :
       wire' = [wire EXCEPT !["server"] = Append(@, Request(good))]
  /\ foreign' = [foreign EXCEPT !.used = 1]
  /\ UNCHANGED <<socket, listening>>

(* It takes what has arrived; a request it answers, rightly or not.        *)
ForeignTakes ==
  /\ socket[Other] = "open" /\ wire[Other] # <<>>
  /\ LET pieces == {piece.piece : piece \in ToSet(wire[Other])}
     IN /\ foreign' = [foreign EXCEPT !.may = @ \/ pieces \cap {"response", "content"} # {}]
        /\ IF "request" \in pieces
           THEN \E good \in BOOLEAN :
                  wire' = [Written(Other, <<Response(good)>>) EXCEPT ![Other] = Tail(@)]
           ELSE wire' = [wire EXCEPT ![Other] = <<>>]
  /\ UNCHANGED <<socket, listening>>

(* The frames of data that it has sent: a client's request is not one.     *)
Used == foreign.used - (IF Other = "client" THEN 1 ELSE 0)

ForeignSends(f) ==
  /\ Used + foreign.controls < Frames
  /\ foreign.may /\ ~foreign.over /\ socket[Other] = "open"
  /\ wire' = Written(Other, <<Header(f), Content(f)>>)
  /\ UNCHANGED <<socket, listening>>

MayMask == Other = "client"

(* A data frame; the message is sent with its last fragment.               *)
ForeignSendsData ==
  /\ Used < Len(Parts)
  /\ \E fin, masked \in BOOLEAN :
       LET payload == <<Parts[Used + 1]>>
           opcode == IF foreign.cut THEN "continuation" ELSE "text"
       IN /\ ForeignSends(Frame(fin, opcode, masked, payload))
          /\ foreign' = [foreign EXCEPT
               !.used = @ + 1, !.cut = ~fin, !.over = (masked # MayMask),
               !.parts = IF fin THEN <<>> ELSE @ \o payload,
               !.sent = IF fin /\ masked = MayMask THEN Append(@, foreign.parts \o payload) ELSE @]

ForeignSendsControl ==
  /\ foreign.controls < Controls
  /\ \E opcode \in {"ping", "pong", "close"} :
       /\ ForeignSends(Frame(TRUE, opcode, MayMask, <<>>))
       /\ foreign' = [foreign EXCEPT !.controls = @ + 1, !.over = (opcode = "close")]

ForeignCloses ==
  /\ socket[Other] = "open"
  /\ socket' = Closed(Other)
  /\ UNCHANGED <<wire, listening, foreign>>

Foreign ==
  /\ \/ /\ link = "client"
        /\ ForeignConnects \/ ForeignRequests
     \/ /\ link = "server"
        /\ ForeignListens \/ ForeignAccepts
     \/ /\ link # "simple"
        /\ ForeignTakes \/ ForeignSendsData \/ ForeignSendsControl \/ ForeignCloses
  /\ UNCHANGED <<server, client, link>>

-----------------------------------------------------------------------------
(* The connection is reset.                                                *)
Break ==
  /\ \A e \in End : socket[e] = "open"
  /\ socket' = [e \in End |-> "broken"]
  /\ UNCHANGED <<wire, listening, server, client, foreign, link>>

ServerSteps(Steps) == link # "server" /\ Steps /\ UNCHANGED <<client, foreign, link>>
ClientSteps(Steps) == link # "client" /\ Steps /\ UNCHANGED <<server, foreign, link>>

Next == ServerSteps(S!Next) \/ ClientSteps(C!Next) \/ Foreign \/ Break

(* Handlers run as long as their io_service does; nobody has to send,      *)
(* close or stop.                                                          *)
Spec ==
  /\ Init /\ [][Next]_vars
  /\ WF_vars(ServerSteps(S!Handlers))
  /\ WF_vars(ClientSteps(C!Handlers))

-----------------------------------------------------------------------------
(* What an end delivers is what the other end sent, message by message,    *)
(* each put together from its own fragments and no other's, whatever       *)
(* comes in between and wherever it ends.                                  *)
InOrder ==
  /\ IsPrefix(server.received, IF link = "simple" THEN client.sent ELSE foreign.sent)
  /\ IsPrefix(client.received, IF link = "simple" THEN server.sent ELSE foreign.sent)

(* A header is followed by its own content, whichever threads send at the  *)
(* same time, and a response by nothing that its reader would have to hand *)
(* on with it.                                                             *)
FramesWhole ==
  \A e \in End :
    /\ \A i \in 2..Len(wire[e]) :
         LET before == wire[e][i - 1]
             here == wire[e][i]
         IN /\ before.piece = "header" => here = Content(before.frame)
            /\ here.piece = "content" => before = Header(here.frame)
    /\ client.phase = "readHandshake" => Len(wire["client"]) <= 1

(* After an end is told no message is and no open, and no second end.      *)
EndsOnce ==
  [][\A told \in {<<server, server'>>, <<client, client'>>} :
       told[1].ended > 0 =>
         \A field \in {"opened", "ended", "received"} : told[1][field] = told[2][field]]_vars

(* A connection that was opened and is closed by its peer, by a reset or   *)
(* by the request timer's late handler is ended, unless its end is stopped *)
(* first; and a client that has connected is not waited for for ever.      *)
EndsAreTold ==
  /\ \A e \in End :
       LET c == IF e = "server" THEN server ELSE client
       IN (c.opened > 0 /\ link # e /\ (socket[e] # "open" \/ socket[Peer(e)] # "open"))
            ~> (c.ended > 0 \/ c.service \in {"stopping", "stopped"})
  /\ server.phase = "readHandshake" ~> (server.phase # "readHandshake" \/ server.service = "stopped")
=============================================================================
