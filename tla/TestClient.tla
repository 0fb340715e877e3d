----------------------------- MODULE TestClient -----------------------------
(***************************************************************************)
(* The test client (testClient/src/main.cpp): the main thread connects     *)
(* over one of the two transports, waits for the connection, starts a      *)
(* thread that registers the users, and makes requests for those there     *)
(* are.  Messages cross the network as the transport writes and reads      *)
(* them; the server answers with ratings.                                  *)
(*                                                                         *)
(* Assumed: a write of gRPC does not block, the server reads its streams.  *)
(***************************************************************************)
EXTENDS RequestGenerator

CONSTANTS UserNumbers,       \* the values that --users may have
          MaxRequests,       \* bounds the requests of the main thread
          Ratings            \* what the server may push

(* Users are counted, times and amounts are written, in the same numbers.  *)
ASSUME ClientAssumption ==
  UserNumbers \subseteq Number /\ 1 \in Number /\ Ratings \subseteq RelativeRating

VARIABLES transport, nUsers, \* the command line
          ws, rpc,           \* the transport that was chosen
          main,              \* where the main thread is
          registrar,         \* where usersRegisterThread is
          pending,           \* the message each thread is about to send
          announced,         \* how many registrations have been sent
          requests,          \* how many requests main has tried to send
          crossing           \* the last message and what it is on the wire

W == INSTANCE WsTransportClient
R == INSTANCE GrpcTransportClient

links == <<ws, rpc>>
threads == <<main, registrar, pending, announced, requests, crossing>>
clientVars == <<transport, nUsers, links, users, waiting, threads>>

Thread == {"main", "registrar"}

(* The generator's state is set by its Init.                                *)
ClientInit ==
  /\ GeneratorInit /\ W!Init /\ R!Init
  /\ transport \in {"ws", "grpc"} /\ nUsers \in UserNumbers
  /\ main = "connect" /\ registrar = "none"
  /\ pending = [t \in Thread |-> <<>>]
  /\ announced = 0 /\ requests = 0
  /\ crossing = <<>>

-----------------------------------------------------------------------------
(* The transport's side of a call that the main thread makes.              *)
Via(WsCall, RpcCall) ==
  IF transport = "ws" THEN WsCall /\ UNCHANGED rpc ELSE RpcCall /\ UNCHANGED ws

Waited == IF transport = "ws" THEN ws.wait ELSE rpc.wait
Joined == IF transport = "ws" THEN W!Joined ELSE R!Joined
CanSend == IF transport = "ws" THEN W!CanSend ELSE R!CanSend

Goto(place) == main' = place

Connect ==
  /\ main = "connect" /\ Goto("connecting")
  /\ Via(W!Connect, R!Connect)
  /\ UNCHANGED <<registrar, pending, announced, requests, crossing, users, waiting>>

ConnectReturns ==
  /\ main = "connecting" /\ Goto("waitForConnection")
  /\ Via(W!Connected, R!Connected)
  /\ UNCHANGED <<registrar, pending, announced, requests, crossing, users, waiting>>

WaitForConnection ==
  /\ main = "waitForConnection" /\ Goto("waiting")
  /\ Via(W!WaitForConnection, R!WaitForConnection)
  /\ UNCHANGED <<registrar, pending, announced, requests, crossing, users, waiting>>

(* Connected, or about to leave main: the transport's destructor           *)
(* disconnects.                                                            *)
ConnectionAwaited ==
  /\ main = "waiting"
  /\ \/ Waited = "connected" /\ Goto("waitForUsers") /\ registrar' = "next"
     \/ Waited = "givenUp" /\ Goto("disconnect") /\ UNCHANGED registrar
  /\ UNCHANGED <<links, pending, announced, requests, crossing, users, waiting>>

Disconnect ==
  /\ main = "disconnect" /\ Goto("join")
  /\ Via(W!Disconnect, R!Disconnect)
  /\ UNCHANGED <<registrar, pending, announced, requests, crossing, users, waiting>>

Exit ==
  /\ main = "join" /\ Joined /\ Goto("exited")
  /\ UNCHANGED <<links, registrar, pending, announced, requests, crossing, users, waiting>>

-----------------------------------------------------------------------------
(* sendMessage, and what the far end makes of what arrives.                *)
ToServer(m) ==
  [from |-> "client", message |-> m,
   wire |-> IF transport = "ws" THEN FromWsMessage(WsData(announced + requests, m)) ELSE toClientEvent(m)]

ToClient(m) ==
  [from |-> "server", message |-> m,
   wire |-> IF transport = "ws" THEN FromWsMessage(WsData(0, m)) ELSE toServerEvent(m)]

Understood(c) ==
  CASE transport = "ws" -> ToWsMessage(c.wire).data
    [] transport = "grpc" /\ c.from = "client" -> parseClientEvent(c.wire)
    [] transport = "grpc" /\ c.from = "server" -> fromServerEvent(c.wire)

Send(thread) ==
  /\ pending[thread] # <<>>
  /\ pending' = [pending EXCEPT ![thread] = <<>>]
  /\ crossing' = IF CanSend THEN <<ToServer(Head(pending[thread]))>> ELSE crossing
  /\ UNCHANGED <<links, users, waiting>>

MessageHandler ==
  /\ announced > 0 /\ CanSend
  /\ \E rating \in Ratings : crossing' = <<ToClient(Message("UserRelativeRating", rating))>>
  /\ UNCHANGED <<links, users, waiting, main, registrar, pending, announced, requests>>

-----------------------------------------------------------------------------
(* usersRegisterThread.                                                    *)

(* A slip the checks must catch: all are added before they are announced.  *)
RegisterAhead ==
  /\ registrar \in {"next", "send"} /\ Len(users) < nUsers
  /\ registrar' = "send"
  /\ pending' = [pending EXCEPT !["registrar"] =
                   IF @ = <<>> THEN <<generateUserRegisteredMessage>> ELSE @]
  /\ Register
  /\ UNCHANGED <<links, main, announced, requests, crossing>>

RegisterUser ==
  /\ registrar = "next" /\ Len(users) # nUsers
  /\ registrar' = "send"
  /\ pending' = [pending EXCEPT !["registrar"] = <<generateUserRegisteredMessage>>]
  /\ Register
  /\ UNCHANGED <<links, main, announced, requests, crossing>>

SendRegistration ==
  /\ Send("registrar")
  /\ registrar' = "next"
  /\ announced' = IF CanSend THEN announced + 1 ELSE announced
  /\ UNCHANGED <<main, requests>>

-----------------------------------------------------------------------------
(* The loop of main.                                                       *)
WaitForUsers ==
  /\ main = "waitForUsers" /\ ~waiting
  /\ IF users = <<>> THEN waiting' = TRUE /\ UNCHANGED main
                     ELSE UNCHANGED waiting /\ Goto("request")
  /\ UNCHANGED <<links, users, registrar, pending, announced, requests, crossing>>

SpuriousWakeup ==
  /\ waiting /\ waiting' = FALSE
  /\ UNCHANGED <<links, users, threads>>

MakeRequest ==
  /\ main = "request" /\ requests < MaxRequests
  /\ \E type \in DOMAIN MessageTypeText \ {"UserRegistered", "UserRelativeRating"},
        u \in UserIds, timestamp, amount \in 0..1 :
       /\ pending' = [pending EXCEPT !["main"] =
                        <<generateUserCommonMessage(type, u, timestamp, amount)>>]
       /\ ApplyRequest(type, u)
  /\ Goto("send")
  /\ UNCHANGED <<links, waiting, registrar, announced, requests, crossing>>

SendRequest ==
  /\ Send("main")
  /\ Goto("waitForUsers") /\ requests' = requests + 1
  /\ UNCHANGED <<registrar, announced>>

-----------------------------------------------------------------------------
Scheduled == Via(W!Scheduled, R!Scheduled) /\ UNCHANGED <<users, waiting, threads>>
Network == Via(W!Network, R!Network) /\ UNCHANGED <<users, waiting, threads>>

Main ==
  \/ Connect \/ ConnectReturns \/ WaitForConnection \/ ConnectionAwaited \/ Disconnect \/ Exit
  \/ WaitForUsers \/ MakeRequest \/ SendRequest
Registrar == RegisterUser \/ SendRegistration

Given(Steps) == Steps /\ UNCHANGED <<transport, nUsers>>
ClientNext ==
  Given(Main \/ Registrar \/ MessageHandler \/ SpuriousWakeup \/ Scheduled \/ Network)

(* Threads are scheduled and timeouts pass; the server need not answer.    *)
ClientSpec ==
  /\ ClientInit /\ [][ClientNext]_clientVars
  /\ WF_clientVars(Given(Main)) /\ WF_clientVars(Given(Registrar)) /\ WF_clientVars(Given(Scheduled))

-----------------------------------------------------------------------------
(* Whichever transport: what the far end reads is what was sent.           *)
WireMeansMessage ==
  crossing # <<>> => Understood(crossing[1]) = crossing[1].message

(* A request can overtake the registration of the newest user only: the    *)
(* two threads send in no order, but while messages can be sent a user is  *)
(* added when all before it have been announced.                           *)
OnlyNewestUnannounced ==
  CanSend =>
    \A m \in {pending["main"][i] : i \in DOMAIN pending["main"]} :
      (IF m.type = "UserDealWon" THEN m.data.userId ELSE m.data.id) <= announced

RequestCrosses ==
  crossing # <<>> /\ crossing[1].from = "client" /\ crossing[1].message.type # "UserRegistered"

(* With a server that refuses, hangs up or says nothing, the client gets   *)
(* to its loop or exits; and with more than four users, though the         *)
(* generator does not notify of the first four, the loop goes on to send   *)
(* requests for as long as anything can be sent.                           *)
GetsGoing ==
  /\ main = "connect" ~> main \in {"waitForUsers", "exited"}
  /\ nUsers > 4 /\ main = "waitForUsers" /\ requests < MaxRequests ~>
       RequestCrosses \/ ~CanSend
=============================================================================
