-------------------------- MODULE TransportServers --------------------------
(***************************************************************************)
(* core::ITransportServer as the application has it: the transport that    *)
(* --transport names (Application.cpp:102-110), the WebSocket or the gRPC  *)
(* one.  Both are asked the same: a user's messages go where the user came *)
(* from, though connections are shared, left and lost meanwhile.           *)
(***************************************************************************)
EXTENDS FiniteSets

CONSTANTS User, Connection,   \* over gRPC, a connection is a stream
          Sender

VARIABLES transport,          \* the one chosen
          \* of the WebSocket server
          phase, userToConnection, connectionToUser, answering, target,
          serverThread, halted, stopRequested, announced, last,
          \* of the gRPC server
          session, sessionUsers, made, streamHandles, userToHandle, replying,
          handle, writing, lastStream, crashed

wsVars == <<phase, userToConnection, connectionToUser, answering, target,
            serverThread, halted, stopRequested, announced, last>>
grpcVars == <<session, sessionUsers, made, streamHandles, userToHandle, replying,
              handle, writing, lastStream, crashed>>
vars == <<transport, wsVars, grpcVars>>

Ws == INSTANCE WsTransportServer

Grpc ==
  INSTANCE GrpcTransportServer
    WITH Stream <- Connection, answering <- replying, target <- handle,
         last <- lastStream

Init ==
  /\ transport \in {"ws", "grpc"}
  /\ Ws!Init /\ Grpc!Init

WsServer == transport = "ws" /\ Ws!Next /\ UNCHANGED <<transport, grpcVars>>
GrpcServer == transport = "grpc" /\ Grpc!Next /\ UNCHANGED <<transport, wsVars>>

Next == WsServer \/ GrpcServer

(* Threads run.  A server that is not chosen has none.                     *)
Spec == Init /\ [][Next]_vars /\ Grpc!Fairness

-----------------------------------------------------------------------------
(* The WebSocket server: no raw pointer outlives its connection, and a     *)
(* message goes over a connection that its user came over.                 *)
KeysPointToConnections == Ws!KeysPointToConnections
SentToOwnConnection == Ws!SentToOwnConnection

(* The gRPC server: no two threads write to one stream, no map leads to an *)
(* ended one, and a call of Connect whose client has gone returns.         *)
OneWriterPerStream == Grpc!OneWriterPerStream
NoRouteToEndedStream == Grpc!NoRouteToEndedStream
ConnectReturns == Grpc!ConnectReturns

(* A user that keeps to one connection is routed to it while that lives.   *)
LoyalUserRouted == Ws!LoyalUserRouted /\ Grpc!LoyalUserRouted

-----------------------------------------------------------------------------
Either(ws, grpc) == IF transport = "ws" THEN ws ELSE grpc

Router ==
  INSTANCE Routing
    WITH Endpoint <- Connection, Actor <- Ws!Actor,
         route <- Either(userToConnection, Grpc!route),
         came <- Either(announced, Grpc!came),
         ended <- Either(Ws!ended, Grpc!ended),
         aim <- Either(Ws!aim, Grpc!aim)

(* Whichever transport is chosen, its tables are one routing table to the  *)
(* application, which the events of a user and the ends of the connections *)
(* that these came over change, and nothing else.                          *)
ImplementsRouting == Router!Spec
=============================================================================
