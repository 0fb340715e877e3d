-------------------------- MODULE WsTransportServer --------------------------
(***************************************************************************)
(* webapi::transport::WsTransportServer                                    *)
(* (webapi/src/transport/WsTransportServer.cpp): the handlers of the       *)
(* WebSocket server, run by its pool of threads, keep two tables under     *)
(* connectionsMutex_ by which sendToUser finds the connection of a user.   *)
(* One connection may carry several users, and a user may come over        *)
(* another connection before its first one is closed.                      *)
(*                                                                         *)
(* The SimpleWeb server is external: it handles the messages of one        *)
(* connection one at a time and its close after them, and those of         *)
(* different connections in parallel; its stop does nothing before it      *)
(* listens.  What WsProtocol does with a message is left to WsProtocol.    *)
(***************************************************************************)
EXTENDS Functions, FiniteSets

CONSTANTS User, Connection,
          Sender    \* the threads that push: the broadcaster

(* A handler runs on behalf of its connection.                             *)
Actor == Sender \cup Connection

VARIABLES phase,              \* what has become of each connection
          userToConnection,   \* userToConnection_, weak pointers
          connectionToUser,   \* connectionToUser_, by raw pointers
          answering,          \* the user a handler's messageHandler_ answers
          target,             \* where sendToUser is about to send, per thread
          serverThread,       \* where serverThread_ is
          halted,             \* server_.stop() reached a listening server
          stopRequested,      \* the stop token of serverThread_
          announced,          \* the pairs <<u, c>>: u ever came over c
          last                \* u -> the connection it came over last

vars == <<phase, userToConnection, connectionToUser, answering, target,
          serverThread, halted, stopRequested, announced, last>>

tableVars  == <<userToConnection, connectionToUser, announced, last>>
serverVars == <<serverThread, halted, stopRequested>>

Empty == [x \in {} |-> {}]
Without(f, x) == Restrict(f, DOMAIN f \ {x})
Extended(f, x, y) == [z \in DOMAIN f \cup {x} |-> IF z = x THEN y ELSE f[z]]

Init ==
  /\ phase = [c \in Connection |-> "new"]
  /\ userToConnection = Empty
  /\ connectionToUser = Empty
  /\ answering = [c \in Connection |-> {}]
  /\ target = [a \in Actor |-> {}]
  /\ serverThread = "starting"
  /\ halted = FALSE
  /\ stopRequested = FALSE
  /\ announced = {}
  /\ last = Empty

-----------------------------------------------------------------------------
(* The life of the server and of the connections.                          *)
Listen ==
  /\ serverThread = "starting"
  /\ serverThread' = "running"
  /\ UNCHANGED <<phase, answering, target, tableVars, halted, stopRequested>>

(* stop: request_stop runs the stop callback, server_.stop().  Before the  *)
(* server listens there is nothing for it to close.                        *)
Stop ==
  /\ ~stopRequested
  /\ stopRequested' = TRUE
  /\ halted' = (halted \/ serverThread = "running")
  /\ UNCHANGED <<phase, answering, target, tableVars, serverThread>>

(* server_.start() returns when the handlers that run have returned.       *)
Idle(c) == answering[c] = {} /\ target[c] = {}

StartReturns ==
  /\ serverThread = "running"
  /\ halted
  /\ \A c \in Connection : Idle(c)
  /\ serverThread' = "done"
  /\ UNCHANGED <<phase, answering, target, tableVars, halted, stopRequested>>

Serving == serverThread = "running" /\ ~halted

OnOpen(c) ==
  /\ Serving
  /\ phase[c] = "new"
  /\ phase' = [phase EXCEPT ![c] = "open"]
  /\ UNCHANGED <<answering, target, tableVars, serverVars>>

(* The object goes when nobody holds it.                                   *)
Free(c) ==
  /\ phase[c] = "closed"
  /\ \A a \in Actor : \A t \in target[a] : t[2] # c
  /\ phase' = [phase EXCEPT ![c] = "freed"]
  /\ UNCHANGED <<answering, target, tableVars, serverVars>>

-----------------------------------------------------------------------------
(* on_message, on_close and on_error.                                      *)
Handles(c) == Serving /\ phase[c] = "open" /\ Idle(c)

(* The application answers it, unless its handler threw before that.       *)
OnUserConnected(c, u) ==
  /\ Handles(c)
  /\ userToConnection' = Extended(userToConnection, u, c)
  /\ connectionToUser' = Extended(connectionToUser, c, u)
  /\ announced' = announced \cup {<<u, c>>}
  /\ last' = Extended(last, u, c)
  /\ \/ answering' = [answering EXCEPT ![c] = {u}]
     \/ UNCHANGED answering
  /\ UNCHANGED <<phase, target, serverVars>>

(* A slip: the users of the connection are dropped with the one that       *)
(* leaves.                                                                 *)
OnUserDisconnectedAll(c, u) ==
  /\ Handles(c)
  /\ userToConnection' =
       Restrict(userToConnection,
                {v \in DOMAIN userToConnection : v # u /\ userToConnection[v] # c})
  /\ connectionToUser' = Without(connectionToUser, c)
  /\ last' = Without(last, u)
  /\ UNCHANGED <<phase, answering, target, announced, serverVars>>

OnUserDisconnected(c, u) ==
  /\ Handles(c)
  /\ userToConnection' = Without(userToConnection, u)
  /\ connectionToUser' = Without(connectionToUser, c)
  /\ last' = Without(last, u)
  /\ UNCHANGED <<phase, answering, target, announced, serverVars>>

(* A slip: the raw pointer is left behind.                                 *)
OnCloseUserOnly(c) ==
  /\ Handles(c)
  /\ phase' = [phase EXCEPT ![c] = "closed"]
  /\ userToConnection' =
       IF c \in DOMAIN connectionToUser
         THEN Without(userToConnection, connectionToUser[c]) ELSE userToConnection
  /\ UNCHANGED <<answering, target, connectionToUser, announced, last, serverVars>>

(* The route of the connection's user goes, wherever it leads by now.      *)
OnClose(c) ==
  /\ Handles(c)
  /\ phase' = [phase EXCEPT ![c] = "closed"]
  /\ userToConnection' =
       IF c \in DOMAIN connectionToUser
         THEN Without(userToConnection, connectionToUser[c]) ELSE userToConnection
  /\ connectionToUser' = Without(connectionToUser, c)
  /\ UNCHANGED <<answering, target, announced, last, serverVars>>

(* An error of one connection, a reset by its peer, say, stops the server; *)
(* so does one whose handshake cannot be written, which was never open.  A *)
(* stop that is under way closes the sockets, which may be such errors.    *)
OnError(c) ==
  /\ serverThread = "running"
  /\ phase[c] \in {"new", "open"}
  /\ Idle(c)
  /\ phase' = [phase EXCEPT ![c] = "closed"]
  /\ halted' = TRUE
  /\ UNCHANGED <<answering, target, tableVars, serverThread, stopRequested>>

-----------------------------------------------------------------------------
(* sendToUser.  The lookup locks the weak pointer under the mutex; the     *)
(* message is sent after it.                                               *)

(* A slip: the weak pointer is not asked.                                  *)
ReachableAnyway(u) == u \in DOMAIN userToConnection

Reachable(u) ==
  /\ u \in DOMAIN userToConnection
  /\ phase[userToConnection[u]] # "freed"

LookUp(a, u) ==
  /\ target[a] = {}
  /\ target' = [target EXCEPT ![a] =
                  IF Reachable(u) THEN {<<u, userToConnection[u]>>} ELSE {}]

Push(s, u) ==
  /\ LookUp(s, u)
  /\ UNCHANGED <<phase, answering, tableVars, serverVars>>

(* The application answers a UserConnected from within its handler.        *)
Answer(c) ==
  /\ \E u \in answering[c] : LookUp(c, u)
  /\ answering' = [answering EXCEPT ![c] = {}]
  /\ UNCHANGED <<phase, tableVars, serverVars>>

Send(a) ==
  /\ target[a] # {}
  /\ target' = [target EXCEPT ![a] = {}]
  /\ UNCHANGED <<phase, answering, tableVars, serverVars>>

Handler(c) == Answer(c) \/ Send(c)

Next ==
  \/ Listen \/ Stop \/ StartReturns
  \/ \E c \in Connection :
       \/ OnOpen(c) \/ OnClose(c) \/ OnError(c) \/ Free(c) \/ Handler(c)
       \/ \E u \in User : OnUserConnected(c, u) \/ OnUserDisconnected(c, u)
  \/ \E s \in Sender : Send(s) \/ \E u \in User : Push(s, u)

Spec == Init /\ [][Next]_vars

-----------------------------------------------------------------------------
Routed == DOMAIN userToConnection
AtMostOne(S) == {{}} \cup {{x} : x \in S}

TypeOK ==
  /\ phase \in [Connection -> {"new", "open", "closed", "freed"}]
  /\ Routed \subseteq User
  /\ userToConnection \in [Routed -> Connection]
  /\ DOMAIN connectionToUser \subseteq Connection
  /\ connectionToUser \in [DOMAIN connectionToUser -> User]
  /\ answering \in [Connection -> AtMostOne(User)]
  /\ target \in [Actor -> AtMostOne(User \X Connection)]
  /\ serverThread \in {"starting", "running", "done"}
  /\ halted \in BOOLEAN /\ stopRequested \in BOOLEAN
  /\ announced \subseteq User \X Connection
  /\ DOMAIN last \subseteq User
  /\ last \in [DOMAIN last -> Connection]

(* A connection is keyed by a raw pointer, which the next one may get: no  *)
(* key outlives its connection while the server goes on.                   *)
KeysPointToConnections ==
  Serving => \A c \in DOMAIN connectionToUser : phase[c] = "open"

(* A message is about to be sent over a connection its user came over, and *)
(* never over a connection that exists no more: with users sharing, moving *)
(* and leaving between lookup and sending, nobody reads another's rating.  *)
SentToOwnConnection ==
  \A a \in Actor : \A t \in target[a] : t \in announced /\ phase[t[2]] # "freed"

(* A user that keeps to one connection is routed to it while it is open,   *)
(* whoever else shares that connection, leaves it or loses another.        *)
Loyal(u) ==
  /\ u \in DOMAIN last
  /\ phase[last[u]] = "open"
  /\ \A c \in Connection \ {last[u]} : <<u, c>> \notin announced

LoyalUserRouted ==
  \A u \in User : Loyal(u) => u \in Routed /\ userToConnection[u] = last[u]

-----------------------------------------------------------------------------
(* What the application can tell of the connections: those that are no     *)
(* more, and where each thread is about to send.                           *)
ended == {c \in Connection : phase[c] \in {"closed", "freed"}}
aim == [a \in Actor |-> {t[2] : t \in target[a]}]
=============================================================================
