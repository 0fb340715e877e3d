---------------------- MODULE TransportServers_proofs ----------------------
(* Proofs about TransportServers, for every set of users, connections and  *)
(* senders: first about each of the two servers, then about the one that   *)
(* is chosen, beside which the other does nothing.                         *)
EXTENDS TransportServers, TLAPS

-----------------------------------------------------------------------------
(* What the invariants of the WebSocket server rest on.                    *)

(* Until the server is halted a key is that of an open connection, which   *)
(* its user has come over.                                                 *)
KeysAreOpen == ~halted => \A c \in DOMAIN connectionToUser : phase[c] = "open"
KeysAnnounced == \A c \in DOMAIN connectionToUser : <<connectionToUser[c], c>> \in announced

(* A user is routed over connections only that it has come over; so is its *)
(* last one, and all of them have been opened.                             *)
RoutesAnnounced ==
  /\ \A u \in DOMAIN userToConnection : <<u, userToConnection[u]>> \in announced
  /\ \A u \in DOMAIN last : <<u, last[u]>> \in announced
  /\ \A u \in User, c \in Connection : <<u, c>> \in announced => phase[c] # "new"

WsInv ==
  /\ Ws!TypeOK
  /\ KeysAreOpen
  /\ KeysAnnounced
  /\ RoutesAnnounced
  /\ Ws!SentToOwnConnection
  /\ Ws!LoyalUserRouted

-----------------------------------------------------------------------------
LEMMA WsInitHolds == Ws!Init => WsInv
<1>. SUFFICES ASSUME Ws!Init PROVE WsInv
  OBVIOUS
<1>1. DOMAIN userToConnection = {} /\ DOMAIN connectionToUser = {} /\ DOMAIN last = {}
  BY DEF Ws!Init, Ws!Empty
<1>2. /\ userToConnection \in [DOMAIN userToConnection -> Connection]
      /\ connectionToUser \in [DOMAIN connectionToUser -> User]
      /\ last \in [DOMAIN last -> Connection]
  BY DEF Ws!Init, Ws!Empty
<1>3. /\ answering \in [Connection -> Ws!AtMostOne(User)]
      /\ target \in [Ws!Actor -> Ws!AtMostOne(User \X Connection)]
  BY DEF Ws!Init, Ws!AtMostOne
<1>4. Ws!TypeOK
  BY <1>1, <1>2, <1>3 DEF Ws!Init, Ws!TypeOK, Ws!Routed
<1>5. KeysAreOpen /\ KeysAnnounced /\ RoutesAnnounced
  BY <1>1 DEF Ws!Init, KeysAreOpen, KeysAnnounced, RoutesAnnounced
<1>6. Ws!SentToOwnConnection /\ Ws!LoyalUserRouted
  BY <1>1 DEF Ws!Init, Ws!SentToOwnConnection, Ws!LoyalUserRouted, Ws!Loyal
<1>. QED  BY <1>4, <1>5, <1>6 DEF WsInv

(* Steps of the server and of a connection that leave the tables alone.    *)
LEMMA PhaseStep ==
  ASSUME WsInv,
         \/ Ws!Listen \/ Ws!Stop \/ Ws!StartReturns
         \/ \E c \in Connection : Ws!OnOpen(c) \/ Ws!OnError(c) \/ Ws!Free(c)
  PROVE  WsInv'
<1>1. UNCHANGED <<answering, target, Ws!tableVars>>
  BY DEF Ws!Listen, Ws!Stop, Ws!StartReturns, Ws!OnOpen, Ws!OnError, Ws!Free
<1>2. \/ phase' = phase
      \/ \E c \in Connection :
           \/ phase[c] = "new" /\ phase' = [phase EXCEPT ![c] = "open"]
           \/ phase[c] \in {"new", "open"} /\ halted' /\ phase' = [phase EXCEPT ![c] = "closed"]
           \/ /\ phase[c] = "closed" /\ phase' = [phase EXCEPT ![c] = "freed"]
              /\ \A a \in Ws!Actor : \A t \in target[a] : t[2] # c
  BY DEF Ws!Listen, Ws!Stop, Ws!StartReturns, Ws!OnOpen, Ws!OnError, Ws!Free
<1>3. (halted => halted') /\ halted' \in BOOLEAN /\ stopRequested' \in BOOLEAN
      /\ serverThread' \in {"starting", "running", "done"}
  BY DEF Ws!Listen, Ws!Stop, Ws!StartReturns, Ws!OnOpen, Ws!OnError, Ws!Free,
         Ws!serverVars, WsInv, Ws!TypeOK
<1>4. phase' \in [Connection -> {"new", "open", "closed", "freed"}]
  BY <1>2 DEF WsInv, Ws!TypeOK
<1>5. Ws!TypeOK'
  BY <1>1, <1>3, <1>4 DEF WsInv, Ws!TypeOK, Ws!tableVars, Ws!Routed
<1>6. KeysAreOpen'
  BY <1>1, <1>2, <1>3 DEF WsInv, Ws!TypeOK, KeysAreOpen, Ws!tableVars
<1>7. KeysAnnounced' /\ RoutesAnnounced'
  BY <1>1, <1>2 DEF WsInv, Ws!TypeOK, KeysAnnounced, RoutesAnnounced, Ws!tableVars
<1>8. Ws!SentToOwnConnection'
  BY <1>1, <1>2 DEF WsInv, Ws!TypeOK, Ws!SentToOwnConnection, Ws!tableVars
<1>9. Ws!LoyalUserRouted'
  <2>. SUFFICES ASSUME NEW u \in User, Ws!Loyal(u)'
                PROVE  (u \in Ws!Routed /\ userToConnection[u] = last[u])'
    BY DEF Ws!LoyalUserRouted
  <2>1. u \in DOMAIN last /\ last[u] \in Connection /\ phase[last[u]] # "new"
    BY <1>1 DEF Ws!Loyal, WsInv, Ws!TypeOK, RoutesAnnounced, Ws!tableVars
  <2>2. phase[last[u]] = "open"
    BY <1>1, <1>2, <2>1 DEF Ws!Loyal, WsInv, Ws!TypeOK, Ws!tableVars
  <2>. QED
    BY <1>1, <2>1, <2>2 DEF Ws!Loyal, WsInv, Ws!LoyalUserRouted, Ws!Routed,
                            Ws!tableVars
<1>. QED  BY <1>5, <1>6, <1>7, <1>8, <1>9 DEF WsInv

LEMMA ConnectedStep ==
  ASSUME WsInv, NEW c \in Connection, NEW u \in User, Ws!OnUserConnected(c, u)
  PROVE  WsInv'
<1>1. /\ phase[c] = "open"
      /\ userToConnection' = Ws!Extended(userToConnection, u, c)
      /\ connectionToUser' = Ws!Extended(connectionToUser, c, u)
      /\ announced' = announced \cup {<<u, c>>}
      /\ last' = Ws!Extended(last, u, c)
      /\ UNCHANGED <<phase, target, serverThread, halted, stopRequested>>
  BY DEF Ws!OnUserConnected, Ws!Handles, Ws!serverVars
<1>2. answering' \in [Connection -> Ws!AtMostOne(User)]
  BY DEF Ws!OnUserConnected, WsInv, Ws!TypeOK, Ws!AtMostOne
<1>3. Ws!TypeOK'
  <2>1. Ws!Routed' \subseteq User /\ userToConnection' \in [Ws!Routed' -> Connection]
    BY <1>1 DEF WsInv, Ws!TypeOK, Ws!Extended, Ws!Routed
  <2>2. /\ DOMAIN connectionToUser' \subseteq Connection
        /\ connectionToUser' \in [DOMAIN connectionToUser' -> User]
    BY <1>1 DEF WsInv, Ws!TypeOK, Ws!Extended
  <2>3. DOMAIN last' \subseteq User /\ last' \in [DOMAIN last' -> Connection]
    BY <1>1 DEF WsInv, Ws!TypeOK, Ws!Extended
  <2>4. announced' \subseteq User \X Connection
    BY <1>1 DEF WsInv, Ws!TypeOK
  <2>. QED  BY <1>1, <1>2, <2>1, <2>2, <2>3, <2>4 DEF WsInv, Ws!TypeOK
<1>4. KeysAreOpen' /\ KeysAnnounced'
  BY <1>1 DEF WsInv, Ws!TypeOK, KeysAreOpen, KeysAnnounced, Ws!Extended
<1>5. RoutesAnnounced'
  BY <1>1 DEF WsInv, Ws!TypeOK, RoutesAnnounced, Ws!Extended
<1>6. Ws!SentToOwnConnection'
  BY <1>1 DEF WsInv, Ws!SentToOwnConnection
<1>7. Ws!LoyalUserRouted'
  <2>. SUFFICES ASSUME NEW v \in User, Ws!Loyal(v)'
                PROVE  (v \in Ws!Routed /\ userToConnection[v] = last[v])'
    BY DEF Ws!LoyalUserRouted
  <2>1. CASE v = u
    BY <1>1, <2>1 DEF Ws!Extended, Ws!Routed
  <2>2. CASE v # u
    <3>1. v \in DOMAIN last /\ last'[v] = last[v] /\ phase[last[v]] = "open"
      BY <1>1, <2>2 DEF Ws!Loyal, Ws!Extended
    <3>2. \A d \in Connection \ {last[v]} : <<v, d>> \notin announced
      BY <1>1, <3>1 DEF Ws!Loyal
    <3>3. v \in DOMAIN userToConnection /\ userToConnection[v] = last[v]
      BY <3>1, <3>2 DEF WsInv, Ws!LoyalUserRouted, Ws!Loyal, Ws!Routed
    <3>. QED
      BY <1>1, <2>2, <3>1, <3>3 DEF Ws!Extended, Ws!Routed
  <2>. QED  BY <2>1, <2>2
<1>. QED  BY <1>3, <1>4, <1>5, <1>6, <1>7 DEF WsInv

LEMMA DisconnectedStep ==
  ASSUME WsInv, NEW c \in Connection, NEW u \in User, Ws!OnUserDisconnected(c, u)
  PROVE  WsInv'
<1>1. /\ userToConnection' = Ws!Without(userToConnection, u)
      /\ connectionToUser' = Ws!Without(connectionToUser, c)
      /\ last' = Ws!Without(last, u)
      /\ UNCHANGED <<phase, answering, target, announced, serverThread, halted, stopRequested>>
  BY DEF Ws!OnUserDisconnected, Ws!serverVars
<1>2. Ws!TypeOK'
  BY <1>1 DEF WsInv, Ws!TypeOK, Ws!Without, Ws!Restrict, Ws!Routed
<1>3. KeysAreOpen' /\ KeysAnnounced' /\ RoutesAnnounced'
  BY <1>1 DEF WsInv, KeysAreOpen, KeysAnnounced, RoutesAnnounced, Ws!Without,
              Ws!Restrict
<1>4. Ws!SentToOwnConnection'
  BY <1>1 DEF WsInv, Ws!SentToOwnConnection
<1>5. Ws!LoyalUserRouted'
  BY <1>1 DEF WsInv, Ws!LoyalUserRouted, Ws!Loyal, Ws!Routed, Ws!Without,
              Ws!Restrict
<1>. QED  BY <1>2, <1>3, <1>4, <1>5 DEF WsInv

LEMMA CloseStep ==
  ASSUME WsInv, NEW c \in Connection, Ws!OnClose(c)
  PROVE  WsInv'
<1>1. /\ phase[c] = "open" /\ phase' = [phase EXCEPT ![c] = "closed"]
      /\ connectionToUser' = Ws!Without(connectionToUser, c)
      /\ UNCHANGED <<answering, target, announced, last, serverThread, halted, stopRequested>>
  BY DEF Ws!OnClose, Ws!Handles, Ws!serverVars
<1>2. /\ DOMAIN userToConnection' \subseteq DOMAIN userToConnection
      /\ userToConnection' \in [DOMAIN userToConnection' -> Connection]
      /\ \A v \in DOMAIN userToConnection' : userToConnection'[v] = userToConnection[v]
      /\ \A v \in DOMAIN userToConnection :
           v \in DOMAIN userToConnection' \/ <<v, c>> \in announced
  BY DEF Ws!OnClose, Ws!Without, Ws!Restrict, WsInv, Ws!TypeOK, KeysAnnounced,
         Ws!Routed
<1>3. Ws!TypeOK'
  BY <1>1, <1>2 DEF WsInv, Ws!TypeOK, Ws!Without, Ws!Restrict, Ws!Routed
<1>4. KeysAreOpen' /\ KeysAnnounced'
  BY <1>1 DEF WsInv, Ws!TypeOK, KeysAreOpen, KeysAnnounced, Ws!Without, Ws!Restrict
<1>5. RoutesAnnounced'
  BY <1>1, <1>2 DEF WsInv, Ws!TypeOK, RoutesAnnounced
<1>6. Ws!SentToOwnConnection'
  BY <1>1 DEF WsInv, Ws!TypeOK, Ws!SentToOwnConnection
<1>7. Ws!LoyalUserRouted'
  <2>. SUFFICES ASSUME NEW v \in User, Ws!Loyal(v)'
                PROVE  (v \in Ws!Routed /\ userToConnection[v] = last[v])'
    BY DEF Ws!LoyalUserRouted
  <2>1. last[v] \in Connection /\ last[v] # c /\ Ws!Loyal(v)
    BY <1>1 DEF Ws!Loyal, WsInv, Ws!TypeOK
  <2>2. <<v, c>> \notin announced
    BY <2>1 DEF Ws!Loyal
  <2>. QED
    BY <1>1, <1>2, <2>1, <2>2 DEF WsInv, Ws!LoyalUserRouted, Ws!Routed
<1>. QED  BY <1>3, <1>4, <1>5, <1>6, <1>7 DEF WsInv

LEMMA WsSendStep ==
  ASSUME WsInv, NEW a \in Ws!Actor,
         \/ \E u \in User : Ws!Push(a, u)
         \/ a \in Connection /\ Ws!Answer(a)
         \/ Ws!Send(a)
  PROVE  WsInv'
<1>1. UNCHANGED <<phase, Ws!tableVars, Ws!serverVars>>
  BY DEF Ws!Push, Ws!Answer, Ws!Send
<1>2. answering' \in [Connection -> Ws!AtMostOne(User)]
  BY DEF Ws!Push, Ws!Answer, Ws!Send, WsInv, Ws!TypeOK, Ws!AtMostOne
<1>3. PICK T : /\ target' = [target EXCEPT ![a] = T]
               /\ \/ T = {}
                  \/ \E u \in DOMAIN userToConnection :
                       T = {<<u, userToConnection[u]>>} /\ phase[userToConnection[u]] # "freed"
  BY DEF Ws!Push, Ws!Answer, Ws!Send, Ws!LookUp, Ws!Reachable
<1>4. T \in Ws!AtMostOne(User \X Connection) /\ \A t \in T : t \in announced /\ phase[t[2]] # "freed"
  BY <1>3 DEF WsInv, Ws!TypeOK, RoutesAnnounced, Ws!Routed, Ws!AtMostOne
<1>5. Ws!TypeOK'
  BY <1>1, <1>2, <1>3, <1>4 DEF WsInv, Ws!TypeOK, Ws!Routed, Ws!tableVars,
                                Ws!serverVars
<1>6. Ws!SentToOwnConnection'
  BY <1>1, <1>3, <1>4 DEF WsInv, Ws!TypeOK, Ws!SentToOwnConnection, Ws!tableVars
<1>7. KeysAreOpen' /\ KeysAnnounced' /\ RoutesAnnounced' /\ Ws!LoyalUserRouted'
  BY <1>1 DEF WsInv, KeysAreOpen, KeysAnnounced, RoutesAnnounced,
              Ws!LoyalUserRouted,
              Ws!Loyal, Ws!Routed, Ws!tableVars, Ws!serverVars
<1>. QED  BY <1>5, <1>6, <1>7 DEF WsInv

LEMMA WsStepPreserves == WsInv /\ [Ws!Next]_(Ws!vars) => WsInv'
<1>. SUFFICES ASSUME WsInv, [Ws!Next]_(Ws!vars) PROVE WsInv'
  OBVIOUS
<1>1. CASE Ws!Next
  <2>1. CASE \/ Ws!Listen \/ Ws!Stop \/ Ws!StartReturns
             \/ \E c \in Connection : Ws!OnOpen(c) \/ Ws!OnError(c) \/ Ws!Free(c)
    BY <2>1, PhaseStep
  <2>2. CASE \E c \in Connection, u \in User : Ws!OnUserConnected(c, u)
    BY <2>2, ConnectedStep
  <2>3. CASE \E c \in Connection, u \in User : Ws!OnUserDisconnected(c, u)
    BY <2>3, DisconnectedStep
  <2>4. CASE \E c \in Connection : Ws!OnClose(c)
    BY <2>4, CloseStep
  <2>5. CASE \E a \in Ws!Actor : \/ \E u \in User : Ws!Push(a, u)
                                 \/ a \in Connection /\ Ws!Answer(a)
                                 \/ Ws!Send(a)
    BY <2>5, WsSendStep
  <2>. QED
    BY <1>1, <2>1, <2>2, <2>3, <2>4, <2>5 DEF Ws!Next, Ws!Handler, Ws!Actor
<1>2. CASE UNCHANGED Ws!vars
  BY <1>2 DEF Ws!vars, WsInv, Ws!TypeOK, KeysAreOpen, KeysAnnounced,
              RoutesAnnounced,
              Ws!SentToOwnConnection, Ws!LoyalUserRouted, Ws!Loyal, Ws!Routed
<1>. QED  BY <1>1, <1>2

-----------------------------------------------------------------------------
(* What the invariants of the gRPC server rest on, over which a connection *)
(* is a stream.                                                            *)

(* A stream that can be written to has one handle, its first.              *)
FirstHandle(s) == <<s, 1>>
OneHandle ==
  /\ \A s \in DOMAIN streamHandles :
       streamHandles[s] = FirstHandle(s) /\ session[s] \in {"reading", "over"}
  /\ \A s \in Connection \ DOMAIN streamHandles :
       session[s] \in {"new", "reading"} => made[s] = 0

(* A route leads to a stream that has noted its user and has not ended.    *)
RoutesNoted ==
  \A u \in DOMAIN userToHandle : \E s \in Connection :
    /\ userToHandle[u] = FirstHandle(s)
    /\ u \in sessionUsers[s]
    /\ session[s] \in {"reading", "over"}

TargetsAreFirst ==
  \A a \in Grpc!Actor : handle[a] = {} \/ \E s \in Connection : handle[a] = {FirstHandle(s)}

(* The mutex: of the threads that hold theirs no two hold the same.        *)
Exclusive ==
  /\ \A a \in writing : handle[a] # {}
  /\ \A a, b \in writing : handle[a] = handle[b] => a = b

(* The stream of a user's last event has noted it, and no stream notes a   *)
(* user before it is read.                                                 *)
LastNoted ==
  /\ \A u \in DOMAIN lastStream : u \in sessionUsers[lastStream[u]]
  /\ \A s \in Connection : session[s] = "new" => sessionUsers[s] = {}

GrpcInv ==
  /\ Grpc!TypeOK
  /\ OneHandle
  /\ RoutesNoted
  /\ TargetsAreFirst
  /\ Exclusive
  /\ LastNoted
  /\ Grpc!LoyalUserRouted

-----------------------------------------------------------------------------
LEMMA GrpcInitHolds == Grpc!Init => GrpcInv
<1>. SUFFICES ASSUME Grpc!Init PROVE GrpcInv
  OBVIOUS
<1>1. DOMAIN userToHandle = {} /\ DOMAIN streamHandles = {} /\ DOMAIN lastStream = {}
  BY DEF Grpc!Init, Grpc!Empty
<1>2. lastStream \in [DOMAIN lastStream -> Connection]
  BY DEF Grpc!Init, Grpc!Empty
<1>3. replying \in [Connection -> Grpc!AtMostOne(User)]
  BY DEF Grpc!Init, Grpc!AtMostOne
<1>4. Grpc!TypeOK
  BY <1>1, <1>2, <1>3 DEF Grpc!Init, Grpc!TypeOK, Grpc!Routed
<1>5. OneHandle /\ RoutesNoted /\ TargetsAreFirst /\ Exclusive /\ LastNoted
  BY <1>1 DEF Grpc!Init, OneHandle, RoutesNoted, TargetsAreFirst, Exclusive,
              LastNoted
<1>6. Grpc!LoyalUserRouted
  BY <1>1 DEF Grpc!LoyalUserRouted, Grpc!Loyal
<1>. QED  BY <1>4, <1>5, <1>6 DEF GrpcInv

(* What looking up a user leaves in the hands of the thread.               *)
LEMMA LookUpPreserves ==
  ASSUME GrpcInv, NEW a \in Grpc!Actor, NEW u, Grpc!LookUp(a, u)
  PROVE  /\ handle' \in [Grpc!Actor -> SUBSET Grpc!Handle]
         /\ TargetsAreFirst'
         /\ a \notin writing
         /\ \A b \in writing : handle'[b] = handle[b]
<1>1. a \notin writing
  BY DEF GrpcInv, Exclusive, Grpc!LookUp
<1>2. writing \subseteq Grpc!Actor
  BY DEF GrpcInv, Grpc!TypeOK
<1>3. PICK H : handle' = [handle EXCEPT ![a] = H] /\ (H = {} \/ \E s \in Connection : H = {FirstHandle(s)})
  <2>1. CASE u \in DOMAIN userToHandle
    BY <2>1 DEF Grpc!LookUp, GrpcInv, RoutesNoted
  <2>2. CASE u \notin DOMAIN userToHandle
    BY <2>2 DEF Grpc!LookUp
  <2>. QED  BY <2>1, <2>2
<1>4. TargetsAreFirst'
  BY <1>3 DEF GrpcInv, TargetsAreFirst
<1>5. handle' \in [Grpc!Actor -> SUBSET Grpc!Handle]
  BY <1>3 DEF GrpcInv, Grpc!TypeOK, Grpc!Handle, FirstHandle
<1>6. \A b \in writing : handle'[b] = handle[b]
  BY <1>1, <1>2, <1>3
<1>. QED  BY <1>1, <1>4, <1>5, <1>6

LEMMA SessionStep ==
  ASSUME GrpcInv, NEW s \in Connection, Grpc!Connect(s) \/ Grpc!ReadFails(s)
  PROVE  GrpcInv'
<1>1. Grpc!TypeOK'
  BY DEF GrpcInv, Grpc!TypeOK, Grpc!Connect, Grpc!ReadFails, Grpc!Goto,
         Grpc!mapVars, Grpc!sendVars, Grpc!Routed
<1>2. OneHandle' /\ RoutesNoted' /\ LastNoted'
  BY DEF GrpcInv, Grpc!TypeOK, OneHandle, RoutesNoted, LastNoted, FirstHandle,
         Grpc!Connect, Grpc!ReadFails, Grpc!Goto, Grpc!mapVars, Grpc!Routed
<1>3. TargetsAreFirst' /\ Exclusive'
  BY DEF GrpcInv, TargetsAreFirst, Exclusive, Grpc!Connect, Grpc!ReadFails,
         Grpc!sendVars
<1>4. Grpc!LoyalUserRouted'
  BY DEF GrpcInv, Grpc!TypeOK, LastNoted, Grpc!LoyalUserRouted, Grpc!Loyal,
         Grpc!Routed,
         Grpc!Connect, Grpc!ReadFails, Grpc!Goto, Grpc!mapVars
<1>. QED  BY <1>1, <1>2, <1>3, <1>4 DEF GrpcInv

LEMMA ReadStep ==
  ASSUME GrpcInv, NEW s \in Connection, NEW u \in User, Grpc!ReadEvent(s, u)
  PROVE  GrpcInv'
<1>1. Grpc!HandleOf(s) = FirstHandle(s)
  BY DEF GrpcInv, Grpc!TypeOK, OneHandle, Grpc!ReadEvent, Grpc!HandleOf,
         Grpc!NewHandle, FirstHandle
<1>2. /\ streamHandles' = Grpc!Extended(streamHandles, s, FirstHandle(s))
      /\ userToHandle' = Grpc!Extended(userToHandle, u, FirstHandle(s))
      /\ made' = [made EXCEPT ![s] = 1]
      /\ sessionUsers' = [sessionUsers EXCEPT ![s] = sessionUsers[s] \cup {u}]
      /\ lastStream' = Grpc!Extended(lastStream, u, s)
      /\ session[s] = "reading"
      /\ session' = session /\ handle' = handle /\ writing' = writing /\ crashed' = crashed
  BY <1>1 DEF Grpc!ReadEvent, Grpc!Noted, FirstHandle, Grpc!sendVars
<1>3. replying' \in [Connection -> Grpc!AtMostOne(User)]
  BY DEF GrpcInv, Grpc!TypeOK, Grpc!ReadEvent, Grpc!AtMostOne
<1>4. FirstHandle(s) \in Grpc!Handle
  BY DEF FirstHandle, Grpc!Handle
<1>5. Grpc!TypeOK'
  BY <1>2, <1>3, <1>4 DEF GrpcInv, Grpc!TypeOK, Grpc!Extended, Grpc!Routed
<1>6. OneHandle'
  BY <1>2 DEF GrpcInv, Grpc!TypeOK, OneHandle, Grpc!Extended
<1>7. RoutesNoted'
  BY <1>2 DEF GrpcInv, Grpc!TypeOK, RoutesNoted, Grpc!Extended
<1>8. TargetsAreFirst' /\ Exclusive'
  BY <1>2 DEF GrpcInv, TargetsAreFirst, Exclusive
<1>9. LastNoted'
  BY <1>2 DEF GrpcInv, Grpc!TypeOK, LastNoted, Grpc!Extended
<1>10. Grpc!LoyalUserRouted'
  <2>. SUFFICES ASSUME NEW v \in User, Grpc!Loyal(v)'
                PROVE  (v \in Grpc!Routed /\ Grpc!StreamOf(userToHandle[v]) = lastStream[v])'
    BY DEF Grpc!LoyalUserRouted
  <2>1. CASE v = u
    BY <1>2, <2>1 DEF Grpc!Extended, Grpc!Routed, Grpc!StreamOf, FirstHandle
  <2>2. CASE v # u
    <3>1. v \in DOMAIN lastStream /\ lastStream'[v] = lastStream[v] /\ session[lastStream[v]] = "reading"
      BY <1>2, <2>2 DEF Grpc!Loyal, Grpc!Extended
    <3>2. \A t \in Connection \ {lastStream[v]} : v \notin sessionUsers[t]
      BY <1>2, <2>2, <3>1 DEF Grpc!Loyal, GrpcInv, Grpc!TypeOK
    <3>3. v \in DOMAIN userToHandle /\ Grpc!StreamOf(userToHandle[v]) = lastStream[v]
      BY <3>1, <3>2 DEF GrpcInv, Grpc!LoyalUserRouted, Grpc!Loyal, Grpc!Routed
    <3>. QED
      BY <1>2, <2>2, <3>1, <3>3 DEF Grpc!Extended, Grpc!Routed
  <2>. QED  BY <2>1, <2>2
<1>. QED  BY <1>5, <1>6, <1>7, <1>8, <1>9, <1>10 DEF GrpcInv

LEMMA CleanupStep ==
  ASSUME GrpcInv, NEW s \in Connection, Grpc!Cleanup(s)
  PROVE  GrpcInv'
<1>1. /\ session[s] = "over" /\ session' = [session EXCEPT ![s] = "returned"]
      /\ DOMAIN userToHandle' = DOMAIN userToHandle \ sessionUsers[s]
      /\ \A v \in DOMAIN userToHandle' : userToHandle'[v] = userToHandle[v]
      /\ DOMAIN streamHandles' = DOMAIN streamHandles \ {s}
      /\ \A t \in DOMAIN streamHandles' : streamHandles'[t] = streamHandles[t]
      /\ UNCHANGED <<sessionUsers, made, lastStream, replying, handle, writing, crashed>>
  BY DEF Grpc!Cleanup, Grpc!Goto, Grpc!Dropped, Grpc!Restrict, Grpc!sendVars
<1>2. Grpc!TypeOK'
  BY <1>1 DEF GrpcInv, Grpc!TypeOK, Grpc!Routed
<1>3. OneHandle'
  BY <1>1 DEF GrpcInv, Grpc!TypeOK, OneHandle
<1>4. RoutesNoted'
  BY <1>1 DEF GrpcInv, Grpc!TypeOK, RoutesNoted
<1>5. TargetsAreFirst' /\ Exclusive'
  BY <1>1 DEF GrpcInv, TargetsAreFirst, Exclusive
<1>6. LastNoted'
  BY <1>1 DEF GrpcInv, Grpc!TypeOK, LastNoted
<1>7. Grpc!LoyalUserRouted'
  <2>. SUFFICES ASSUME NEW v \in User, Grpc!Loyal(v)'
                PROVE  (v \in Grpc!Routed /\ Grpc!StreamOf(userToHandle[v]) = lastStream[v])'
    BY DEF Grpc!LoyalUserRouted
  <2>1. lastStream[v] \in Connection /\ lastStream[v] # s /\ Grpc!Loyal(v)
    BY <1>1 DEF Grpc!Loyal, GrpcInv, Grpc!TypeOK
  <2>2. v \notin sessionUsers[s]
    BY <2>1 DEF Grpc!Loyal
  <2>. QED
    BY <1>1, <2>1, <2>2 DEF GrpcInv, Grpc!LoyalUserRouted, Grpc!Routed
<1>. QED  BY <1>2, <1>3, <1>4, <1>5, <1>6, <1>7 DEF GrpcInv

LEMMA GrpcSendStep ==
  ASSUME GrpcInv, NEW a \in Grpc!Actor,
         \/ \E u \in User : Grpc!Push(a, u)
         \/ a \in Connection /\ Grpc!Answer(a)
         \/ Grpc!LockHandle(a)
         \/ Grpc!Write(a)
  PROVE  GrpcInv'
<1>0. UNCHANGED <<session, Grpc!mapVars>>
  BY DEF Grpc!Push, Grpc!Answer, Grpc!LockHandle, Grpc!Write
<1>1. OneHandle' /\ RoutesNoted' /\ LastNoted' /\ Grpc!LoyalUserRouted'
  BY <1>0 DEF GrpcInv, OneHandle, RoutesNoted, LastNoted, Grpc!LoyalUserRouted,
              Grpc!Loyal, Grpc!Routed, Grpc!mapVars
<1>2. Grpc!TypeOK' /\ TargetsAreFirst' /\ Exclusive'
  <2>1. CASE \E u \in User : Grpc!Push(a, u)
    <3>1. PICK u \in User : Grpc!Push(a, u)
      BY <2>1
    <3>2. /\ handle' \in [Grpc!Actor -> SUBSET Grpc!Handle]
          /\ TargetsAreFirst'
          /\ \A b \in writing : handle'[b] = handle[b]
      BY <3>1, LookUpPreserves DEF Grpc!Push
    <3>3. Grpc!TypeOK' /\ Exclusive'
      BY <1>0, <3>1, <3>2 DEF Grpc!Push, GrpcInv, Grpc!TypeOK, Exclusive,
                              Grpc!Routed, Grpc!mapVars
    <3>. QED  BY <3>2, <3>3
  <2>2. CASE a \in Connection /\ Grpc!Answer(a)
    <3>1. PICK u \in replying[a] : Grpc!LookUp(a, u)
      BY <2>2 DEF Grpc!Answer
    <3>2. replying' \in [Connection -> Grpc!AtMostOne(User)]
      BY <2>2 DEF Grpc!Answer, GrpcInv, Grpc!TypeOK, Grpc!AtMostOne
    <3>. QED
      BY <1>0, <2>2, <3>1, <3>2, LookUpPreserves
         DEF Grpc!Answer, GrpcInv, Grpc!TypeOK, Exclusive, Grpc!Routed, Grpc!mapVars
  <2>3. CASE Grpc!LockHandle(a)
    <3>1. Grpc!TypeOK' /\ TargetsAreFirst'
      BY <1>0, <2>3 DEF Grpc!LockHandle, GrpcInv, Grpc!TypeOK, TargetsAreFirst,
                        Grpc!Routed, Grpc!mapVars
    <3>2. Exclusive'
      BY <2>3 DEF Grpc!LockHandle, GrpcInv, Exclusive
    <3>. QED  BY <3>1, <3>2
  <2>4. CASE Grpc!Write(a)
    <3>1. Grpc!TypeOK'
      BY <1>0, <2>4 DEF Grpc!Write, GrpcInv, Grpc!TypeOK, Grpc!Routed, Grpc!mapVars
    <3>2. TargetsAreFirst' /\ Exclusive'
      BY <2>4 DEF Grpc!Write, GrpcInv, Grpc!TypeOK, TargetsAreFirst, Exclusive
    <3>. QED  BY <3>1, <3>2
  <2>. QED  BY <2>1, <2>2, <2>3, <2>4
<1>. QED  BY <1>1, <1>2 DEF GrpcInv

LEMMA GrpcStepPreserves == GrpcInv /\ [Grpc!Next]_(Grpc!vars) => GrpcInv'
<1>. SUFFICES ASSUME GrpcInv, [Grpc!Next]_(Grpc!vars) PROVE GrpcInv'
  OBVIOUS
<1>1. CASE Grpc!Next
  <2>1. CASE \E s \in Connection : Grpc!Connect(s) \/ Grpc!ReadFails(s)
    BY <2>1, SessionStep
  <2>2. CASE \E s \in Connection, u \in User : Grpc!ReadEvent(s, u)
    BY <2>2, ReadStep
  <2>3. CASE \E s \in Connection : Grpc!Cleanup(s)
    BY <2>3, CleanupStep
  <2>4. CASE \E a \in Grpc!Actor : \/ \E u \in User : Grpc!Push(a, u)
                                   \/ a \in Connection /\ Grpc!Answer(a)
                                   \/ Grpc!LockHandle(a)
                                   \/ Grpc!Write(a)
    BY <2>4, GrpcSendStep
  <2>. QED
    BY <1>1, <2>1, <2>2, <2>3, <2>4 DEF Grpc!Next, Grpc!Handler, Grpc!Actor
<1>2. CASE UNCHANGED Grpc!vars
  BY <1>2 DEF Grpc!vars, Grpc!mapVars, Grpc!sendVars, GrpcInv, Grpc!TypeOK,
              OneHandle, RoutesNoted,
              TargetsAreFirst, Exclusive, LastNoted, Grpc!LoyalUserRouted, Grpc!Loyal, Grpc!Routed
<1>. QED  BY <1>1, <1>2
-----------------------------------------------------------------------------
(* The servers side by side.                                               *)
IInv == WsInv /\ GrpcInv

LEMMA ServersStep == [Next]_vars => [Ws!Next]_(Ws!vars) /\ [Grpc!Next]_(Grpc!vars)
  BY DEF Next, WsServer, GrpcServer, vars, wsVars, grpcVars, Ws!vars, Grpc!vars

LEMMA InvariantHolds == Spec => []IInv
<1>1. Init => IInv
  BY WsInitHolds, GrpcInitHolds DEF Init, IInv
<1>2. IInv /\ [Next]_vars => IInv'
  BY ServersStep, WsStepPreserves, GrpcStepPreserves DEF IInv
<1>. QED  BY <1>1, <1>2, PTL DEF Spec

-----------------------------------------------------------------------------
(* The tables and maps, and what the threads hold of them, keep their      *)
(* types.                                                                  *)
THEOREM TypeCorrect == Spec => [](Ws!TypeOK /\ Grpc!TypeOK)
<1>1. IInv => Ws!TypeOK /\ Grpc!TypeOK
  BY DEF IInv, WsInv, GrpcInv
<1>. QED  BY <1>1, InvariantHolds, PTL

(* No raw pointer in the table of the WebSocket server outlives its        *)
(* connection while the server goes on.                                    *)
THEOREM NoDanglingKey == Spec => []KeysPointToConnections
<1>1. IInv => KeysPointToConnections
  BY DEF IInv, WsInv, KeysAreOpen, KeysPointToConnections,
         Ws!KeysPointToConnections, Ws!Serving
<1>. QED  BY <1>1, InvariantHolds, PTL

(* A message goes over a connection that exists and that its user came     *)
(* over, however the tables change between lookup and sending.             *)
THEOREM NobodyElsesConnection == Spec => []SentToOwnConnection
<1>1. IInv => SentToOwnConnection
  BY DEF IInv, WsInv, SentToOwnConnection
<1>. QED  BY <1>1, InvariantHolds, PTL

(* No two threads write to one stream: events of a stream find the handle, *)
(* and the mutex, that its first event made.                               *)
THEOREM WritersExclusive == Spec => []OneWriterPerStream
<1>1. IInv => OneWriterPerStream
  <2>. SUFFICES ASSUME GrpcInv, NEW a \in writing, NEW b \in writing,
                       NEW g \in handle[a], NEW h \in handle[b],
                       Grpc!StreamOf(g) = Grpc!StreamOf(h)
                PROVE  a = b
    BY DEF IInv, OneWriterPerStream, Grpc!OneWriterPerStream
  <2>1. a \in Grpc!Actor /\ b \in Grpc!Actor
    BY DEF GrpcInv, Grpc!TypeOK
  <2>2. PICK s \in Connection : handle[a] = {FirstHandle(s)}
    BY <2>1 DEF GrpcInv, TargetsAreFirst
  <2>3. PICK t \in Connection : handle[b] = {FirstHandle(t)}
    BY <2>1 DEF GrpcInv, TargetsAreFirst
  <2>4. s = t
    BY <2>2, <2>3 DEF Grpc!StreamOf, FirstHandle
  <2>. QED  BY <2>2, <2>3, <2>4 DEF GrpcInv, Exclusive
<1>. QED  BY <1>1, InvariantHolds, PTL

(* No map leads to a stream whose call of Connect has returned.            *)
THEOREM RoutesAreLive == Spec => []NoRouteToEndedStream
<1>1. IInv => NoRouteToEndedStream
  BY DEF IInv, GrpcInv, OneHandle, RoutesNoted, NoRouteToEndedStream,
         Grpc!NoRouteToEndedStream, Grpc!Routed, Grpc!StreamOf, FirstHandle
<1>. QED  BY <1>1, InvariantHolds, PTL

(* A user that keeps to one connection, or to one stream, is routed to it  *)
(* while it is open.                                                       *)
THEOREM LoyalUsersKeepRoute == Spec => []LoyalUserRouted
<1>1. IInv => LoyalUserRouted
  BY DEF IInv, WsInv, GrpcInv, LoyalUserRouted
<1>. QED  BY <1>1, InvariantHolds, PTL

-----------------------------------------------------------------------------
(* The mapping to Routing, action by action, while a transport is chosen.  *)
OverWs == transport = "ws" /\ transport' = "ws"
OverGrpc == transport = "grpc" /\ transport' = "grpc"

LEMMA TableStepRoutes ==
  ASSUME WsInv, OverWs, NEW c \in Connection, NEW u \in User,
         Ws!OnUserConnected(c, u) \/ Ws!OnUserDisconnected(c, u)
  PROVE  Router!Arrive(u, c) \/ Router!Leave(u)
<1>1. UNCHANGED <<phase, target>> /\ c \notin Ws!ended
  BY DEF Ws!OnUserConnected, Ws!OnUserDisconnected, Ws!Handles, Ws!ended
<1>2. UNCHANGED <<Ws!ended, Ws!aim>>
  BY <1>1 DEF Ws!ended, Ws!aim
<1>3. CASE Ws!OnUserConnected(c, u)
  BY <1>1, <1>2, <1>3 DEF Ws!OnUserConnected, Ws!Extended, OverWs, Either,
                          Router!Arrive, Router!Routed, Ws!ended, Ws!aim
<1>4. CASE Ws!OnUserDisconnected(c, u)
  <2>1. userToConnection' = [v \in DOMAIN userToConnection \ {u} |-> userToConnection[v]]
    BY <1>4 DEF Ws!OnUserDisconnected, Ws!Without, Ws!Restrict
  <2>2. announced' = announced
    BY <1>4 DEF Ws!OnUserDisconnected
  <2>. QED  BY <1>2, <2>1, <2>2 DEF OverWs, Either, Router!Leave, Router!Routed,
                                    Ws!ended, Ws!aim
<1>. QED  BY <1>3, <1>4

LEMMA EndRoutes ==
  ASSUME WsInv, OverWs, NEW c \in Connection, Ws!OnClose(c) \/ Ws!OnError(c)
  PROVE  Router!End(c)
<1>1. /\ phase[c] \in {"new", "open"} /\ phase' = [phase EXCEPT ![c] = "closed"]
      /\ UNCHANGED <<target, announced>>
  BY DEF Ws!OnClose, Ws!OnError, Ws!Handles, Ws!tableVars
<1>2. c \notin Ws!ended /\ Ws!ended' = Ws!ended \cup {c} /\ Ws!aim' = Ws!aim
  BY <1>1 DEF Ws!ended, Ws!aim, WsInv, Ws!TypeOK
<1>3. userToConnection \in [DOMAIN userToConnection -> Connection]
  BY DEF WsInv, Ws!TypeOK, Ws!Routed
<1>4. \E lost \in SUBSET {u \in User : <<u, c>> \in announced} :
        userToConnection' = [v \in DOMAIN userToConnection \ lost |-> userToConnection[v]]
  <2>1. CASE Ws!OnClose(c) /\ c \in DOMAIN connectionToUser
    <3>1. connectionToUser[c] \in User /\ <<connectionToUser[c], c>> \in announced
      BY <2>1 DEF WsInv, Ws!TypeOK, KeysAnnounced
    <3>2. userToConnection' =
            [v \in DOMAIN userToConnection \ {connectionToUser[c]} |-> userToConnection[v]]
      BY <2>1 DEF Ws!OnClose, Ws!Without, Ws!Restrict
    <3>. QED  BY <3>1, <3>2
  <2>2. CASE UNCHANGED userToConnection
    <3>1. userToConnection' = [v \in DOMAIN userToConnection \ {} |-> userToConnection[v]]
      BY <1>3, <2>2
    <3>. QED  BY <3>1
  <2>. QED  BY <2>1, <2>2 DEF Ws!OnClose, Ws!OnError, Ws!tableVars
<1>. QED  BY <1>1, <1>2, <1>4 DEF OverWs, Either, Router!End, Router!Routed,
                                  Ws!ended, Ws!aim

LEMMA WsSendRoutes ==
  ASSUME WsInv, OverWs, NEW a \in Ws!Actor,
         \/ \E u \in User : Ws!Push(a, u)
         \/ a \in Connection /\ Ws!Answer(a)
         \/ Ws!Send(a)
  PROVE  \/ Router!Send(a) \/ \E u \in User : Router!LookUp(a, u)
         \/ UNCHANGED <<userToConnection, announced, Ws!ended, Ws!aim>>
<1>1. UNCHANGED <<phase, userToConnection, announced>> /\ Ws!ended' = Ws!ended
  BY DEF Ws!Push, Ws!Answer, Ws!Send, Ws!tableVars, Ws!ended
<1>2. target \in [Ws!Actor -> Ws!AtMostOne(User \X Connection)]
  BY DEF WsInv, Ws!TypeOK
<1>3. CASE Ws!Send(a)
  <2>1. /\ target' = [target EXCEPT ![a] = {}] /\ target[a] # {}
    BY <1>3 DEF Ws!Send
  <2>2. Ws!aim[a] # {} /\ Ws!aim' = [Ws!aim EXCEPT ![a] = {}]
    BY <1>2, <2>1 DEF Ws!aim
  <2>. QED  BY <1>1, <2>2 DEF OverWs, Either, Router!Send, Ws!ended, Ws!aim
<1>4. ASSUME NEW u \in User, Ws!LookUp(a, u)
      PROVE  Router!LookUp(a, u) \/ Ws!aim' = Ws!aim
  <2>1. CASE Ws!Reachable(u)
    <3>1. target[a] = {} /\ target' = [target EXCEPT ![a] = {<<u, userToConnection[u]>>}]
      BY <1>4, <2>1 DEF Ws!LookUp
    <3>2. Ws!aim[a] = {} /\ Ws!aim' = [Ws!aim EXCEPT ![a] = {userToConnection[u]}]
      <4>1. \A x, y : {t[2] : t \in {<<x, y>>}} = {y}
        OBVIOUS
      <4>2. \A b \in Ws!Actor :
              target'[b] = IF b = a THEN {<<u, userToConnection[u]>>} ELSE target[b]
        BY <1>2, <3>1
      <4>3. \A b \in Ws!Actor :
              {t[2] : t \in target'[b]} =
                IF b = a THEN {userToConnection[u]} ELSE {t[2] : t \in target[b]}
        BY <4>1, <4>2
      <4>. QED  BY <3>1, <4>3 DEF Ws!aim
    <3>. QED  BY <1>1, <2>1, <3>2 DEF Ws!Reachable, OverWs, Either,
                                      Router!LookUp, Router!Routed, Ws!ended, Ws!aim
  <2>2. CASE ~Ws!Reachable(u)
    BY <1>2, <1>4, <2>2 DEF Ws!LookUp, Ws!aim
  <2>. QED  BY <2>1, <2>2
<1>5. CASE ~Ws!Send(a)
  <2>1. PICK u \in User : Ws!LookUp(a, u)
    BY <1>5 DEF Ws!Push, Ws!Answer, WsInv, Ws!TypeOK, Ws!AtMostOne
  <2>. QED  BY <1>1, <1>4, <2>1
<1>. QED  BY <1>3, <1>5

LEMMA WsStepRoutes ==
  ASSUME WsInv, OverWs, [Ws!Next]_(Ws!vars)
  PROVE  Router!Next \/ UNCHANGED <<userToConnection, announced, Ws!ended, Ws!aim>>
<1>1. CASE \/ Ws!Listen \/ Ws!Stop \/ Ws!StartReturns \/ UNCHANGED Ws!vars
           \/ \E c \in Connection : Ws!OnOpen(c) \/ Ws!Free(c)
  <2>1. UNCHANGED <<target, userToConnection, announced>>
    BY <1>1 DEF Ws!Listen, Ws!Stop, Ws!StartReturns, Ws!OnOpen, Ws!Free,
                Ws!tableVars, Ws!vars
  <2>2. Ws!ended' = Ws!ended
    BY <1>1 DEF Ws!Listen, Ws!Stop, Ws!StartReturns, Ws!OnOpen, Ws!Free, Ws!vars,
                Ws!ended, WsInv, Ws!TypeOK
  <2>. QED  BY <2>1, <2>2 DEF Ws!aim
<1>2. ASSUME NEW c \in Connection, NEW u \in User,
             Ws!OnUserConnected(c, u) \/ Ws!OnUserDisconnected(c, u)
      PROVE  Router!Next
  BY <1>2, TableStepRoutes DEF Router!Next
<1>3. ASSUME NEW c \in Connection, Ws!OnClose(c) \/ Ws!OnError(c) PROVE Router!Next
  BY <1>3, EndRoutes DEF Router!Next
<1>4. ASSUME NEW a \in Ws!Actor,
             \/ \E u \in User : Ws!Push(a, u)
             \/ a \in Connection /\ Ws!Answer(a)
             \/ Ws!Send(a)
      PROVE  Router!Next \/ UNCHANGED <<userToConnection, announced, Ws!ended, Ws!aim>>
  BY <1>4, WsSendRoutes DEF Router!Next
<1>. QED  BY <1>1, <1>2, <1>3, <1>4 DEF Ws!Next, Ws!Handler, Ws!Actor

LEMMA EventRoutes ==
  ASSUME GrpcInv, OverGrpc, NEW s \in Connection, NEW u \in User, Grpc!ReadEvent(s, u)
  PROVE  Router!Arrive(u, s)
<1>1. Grpc!HandleOf(s) = FirstHandle(s)
  BY DEF GrpcInv, Grpc!TypeOK, OneHandle, Grpc!ReadEvent, Grpc!HandleOf,
         Grpc!NewHandle, FirstHandle
<1>2. /\ userToHandle' = Grpc!Extended(userToHandle, u, FirstHandle(s))
      /\ sessionUsers' = [sessionUsers EXCEPT ![s] = sessionUsers[s] \cup {u}]
      /\ session[s] = "reading" /\ session' = session /\ handle' = handle
  BY <1>1 DEF Grpc!ReadEvent, Grpc!Noted, Grpc!sendVars
<1>3. s \notin Grpc!ended /\ Grpc!ended' = Grpc!ended /\ Grpc!aim' = Grpc!aim
  BY <1>2 DEF Grpc!ended, Grpc!aim
<1>4. Grpc!came' = Grpc!came \cup {<<u, s>>}
  <2>1. \A v \in User, t \in Connection :
          v \in sessionUsers'[t] <=> v \in sessionUsers[t] \/ <<v, t>> = <<u, s>>
    BY <1>2 DEF GrpcInv, Grpc!TypeOK
  <2>2. \A v \in User, t \in Connection : <<v, t>> \in Grpc!came' <=> <<v, t>> \in Grpc!came \cup {<<u, s>>}
    BY <2>1 DEF Grpc!came
  <2>3. Grpc!came \subseteq User \X Connection /\ Grpc!came' \subseteq User \X Connection
    BY DEF Grpc!came
  <2>. QED  BY <2>2, <2>3
<1>5. Grpc!route' = [v \in Grpc!Routed \cup {u} |-> IF v = u THEN s ELSE Grpc!route[v]]
  BY <1>2 DEF Grpc!route, Grpc!Routed, Grpc!Extended, Grpc!StreamOf, FirstHandle
<1>6. DOMAIN Grpc!route = Grpc!Routed
  BY DEF Grpc!route
<1>. QED  BY <1>3, <1>4, <1>5, <1>6 DEF OverGrpc, Either, Router!Arrive,
                                        Router!Routed, Grpc!route, Grpc!came, Grpc!ended, Grpc!aim

LEMMA CleanupRoutes ==
  ASSUME GrpcInv, OverGrpc, NEW s \in Connection, Grpc!Cleanup(s)
  PROVE  Router!End(s)
<1>1. /\ session[s] = "over" /\ session' = [session EXCEPT ![s] = "returned"]
      /\ DOMAIN userToHandle' = DOMAIN userToHandle \ sessionUsers[s]
      /\ \A v \in DOMAIN userToHandle' : userToHandle'[v] = userToHandle[v]
      /\ UNCHANGED <<sessionUsers, handle>>
  BY DEF Grpc!Cleanup, Grpc!Goto, Grpc!Dropped, Grpc!Restrict, Grpc!sendVars
<1>2. s \notin Grpc!ended /\ Grpc!ended' = Grpc!ended \cup {s} /\ Grpc!aim' = Grpc!aim /\ Grpc!came' = Grpc!came
  BY <1>1 DEF Grpc!ended, Grpc!aim, Grpc!came, GrpcInv, Grpc!TypeOK
<1>3. sessionUsers[s] \in SUBSET {u \in User : <<u, s>> \in Grpc!came}
  BY DEF GrpcInv, Grpc!TypeOK, Grpc!came
<1>4. Grpc!route' = [v \in Grpc!Routed \ sessionUsers[s] |-> Grpc!route[v]]
  BY <1>1 DEF Grpc!route, Grpc!Routed
<1>5. DOMAIN Grpc!route = Grpc!Routed
  BY DEF Grpc!route
<1>. QED  BY <1>2, <1>3, <1>4, <1>5 DEF OverGrpc, Either, Router!End,
                                        Router!Routed, Grpc!route, Grpc!came, Grpc!ended, Grpc!aim

LEMMA GrpcSendRoutes ==
  ASSUME GrpcInv, OverGrpc, NEW a \in Grpc!Actor,
         \/ \E u \in User : Grpc!Push(a, u)
         \/ a \in Connection /\ Grpc!Answer(a)
         \/ Grpc!Write(a)
  PROVE  \/ Router!Send(a) \/ \E u \in User : Router!LookUp(a, u)
         \/ UNCHANGED <<Grpc!route, Grpc!came, Grpc!ended, Grpc!aim>>
<1>1. UNCHANGED <<Grpc!route, Grpc!came, Grpc!ended>>
  BY DEF Grpc!Push, Grpc!Answer, Grpc!Write, Grpc!mapVars, Grpc!route, Grpc!came,
         Grpc!ended, Grpc!Routed
<1>2. handle \in [Grpc!Actor -> SUBSET Grpc!Handle]
  BY DEF GrpcInv, Grpc!TypeOK
<1>3. CASE Grpc!Write(a)
  <2>1. /\ handle' = [handle EXCEPT ![a] = {}] /\ handle[a] # {}
    BY <1>3 DEF Grpc!Write, GrpcInv, Grpc!TypeOK
  <2>2. Grpc!aim[a] # {} /\ Grpc!aim' = [Grpc!aim EXCEPT ![a] = {}]
    BY <1>2, <2>1 DEF Grpc!aim
  <2>. QED  BY <1>1, <2>2 DEF OverGrpc, Either, Router!Send, Grpc!route,
                              Grpc!came, Grpc!ended, Grpc!aim
<1>4. ASSUME NEW u \in User, Grpc!LookUp(a, u)
      PROVE  Router!LookUp(a, u) \/ Grpc!aim' = Grpc!aim
  <2>1. CASE u \in Grpc!Routed
    <3>1. handle[a] = {} /\ handle' = [handle EXCEPT ![a] = {userToHandle[u]}]
      BY <1>4, <2>1 DEF Grpc!LookUp, Grpc!Routed
    <3>2. \A b \in Grpc!Actor : handle'[b] = IF b = a THEN {userToHandle[u]} ELSE handle[b]
      BY <1>2, <3>1
    <3>3. \A b \in Grpc!Actor :
            {Grpc!StreamOf(h) : h \in handle'[b]} =
              IF b = a THEN {Grpc!route[u]} ELSE {Grpc!StreamOf(h) : h \in handle[b]}
      BY <2>1, <3>2 DEF Grpc!route
    <3>4. Grpc!aim[a] = {} /\ Grpc!aim' = [Grpc!aim EXCEPT ![a] = {Grpc!route[u]}]
      BY <3>1, <3>3 DEF Grpc!aim
    <3>5. DOMAIN Grpc!route = Grpc!Routed
      BY DEF Grpc!route
    <3>. QED  BY <1>1, <2>1, <3>4, <3>5 DEF OverGrpc, Either, Router!LookUp,
                                            Router!Routed, Grpc!route, Grpc!came, Grpc!ended, Grpc!aim
  <2>2. CASE u \notin Grpc!Routed
    BY <1>2, <1>4, <2>2 DEF Grpc!LookUp, Grpc!Routed, Grpc!aim
  <2>. QED  BY <2>1, <2>2
<1>5. CASE ~Grpc!Write(a)
  <2>1. PICK u \in User : Grpc!LookUp(a, u)
    BY <1>5 DEF Grpc!Push, Grpc!Answer, GrpcInv, Grpc!TypeOK, Grpc!AtMostOne
  <2>. QED  BY <1>1, <1>4, <2>1
<1>. QED  BY <1>3, <1>5

LEMMA GrpcStepRoutes ==
  ASSUME GrpcInv, OverGrpc, [Grpc!Next]_(Grpc!vars)
  PROVE  Router!Next \/ UNCHANGED <<Grpc!route, Grpc!came, Grpc!ended, Grpc!aim>>
<1>1. CASE \/ UNCHANGED Grpc!vars
           \/ \E s \in Connection : Grpc!Connect(s) \/ Grpc!ReadFails(s)
           \/ \E a \in Grpc!Actor : Grpc!LockHandle(a)
  <2>1. UNCHANGED <<handle, userToHandle, sessionUsers>>
    BY <1>1 DEF Grpc!Connect, Grpc!ReadFails, Grpc!LockHandle, Grpc!mapVars,
                Grpc!sendVars, Grpc!vars
  <2>2. Grpc!ended' = Grpc!ended
    BY <1>1 DEF Grpc!Connect, Grpc!ReadFails, Grpc!LockHandle, Grpc!Goto,
                Grpc!vars, Grpc!ended, GrpcInv, Grpc!TypeOK
  <2>. QED  BY <2>1, <2>2 DEF Grpc!route, Grpc!Routed, Grpc!came, Grpc!aim
<1>2. ASSUME NEW s \in Connection, NEW u \in User, Grpc!ReadEvent(s, u) PROVE Router!Next
  BY <1>2, EventRoutes DEF Router!Next
<1>3. ASSUME NEW s \in Connection, Grpc!Cleanup(s) PROVE Router!Next
  BY <1>3, CleanupRoutes DEF Router!Next
<1>4. ASSUME NEW a \in Grpc!Actor,
             \/ \E u \in User : Grpc!Push(a, u)
             \/ a \in Connection /\ Grpc!Answer(a)
             \/ Grpc!Write(a)
      PROVE  Router!Next \/ UNCHANGED <<Grpc!route, Grpc!came, Grpc!ended, Grpc!aim>>
  BY <1>4, GrpcSendRoutes DEF Router!Next, Grpc!Actor, Ws!Actor
<1>. QED  BY <1>1, <1>2, <1>3, <1>4 DEF Grpc!Next, Grpc!Handler, Grpc!Actor

(* A user is routed by what its own events and the ends of its own         *)
(* connections do, and a thread sends where the tables led it, over either *)
(* transport.                                                              *)
THEOREM ServersRoute == Spec => ImplementsRouting
<1>1. Init => Router!Init
  <2>. SUFFICES ASSUME Init PROVE Router!Init
    OBVIOUS
  <2>. USE DEF Init
  <2>1. Ws!aim = [a \in Ws!Actor |-> {}] /\ Ws!ended = {}
    BY DEF Ws!Init, Ws!aim, Ws!ended
  <2>2. userToConnection = [u \in {} |-> {}] /\ announced = {}
    BY DEF Ws!Init, Ws!Empty
  <2>3. Grpc!aim = [a \in Ws!Actor |-> {}] /\ Grpc!ended = {} /\ Grpc!came = {}
    BY DEF Grpc!Init, Grpc!aim, Grpc!ended, Grpc!came, Grpc!Actor, Ws!Actor
  <2>4. Grpc!route = [u \in {} |-> {}]
    BY DEF Grpc!Init, Grpc!Empty, Grpc!route, Grpc!Routed
  <2>. QED  BY <2>1, <2>2, <2>3, <2>4 DEF Router!Init, Either
<1>2. IInv /\ [Next]_vars => [Router!Next]_(Router!vars)
  <2>. SUFFICES ASSUME IInv, [Next]_vars PROVE [Router!Next]_(Router!vars)
    OBVIOUS
  <2>1. CASE WsServer
    <3>1. OverWs /\ WsInv /\ [Ws!Next]_(Ws!vars)
      BY <2>1 DEF WsServer, OverWs, IInv
    <3>2. CASE UNCHANGED <<userToConnection, announced, Ws!ended, Ws!aim>>
      BY <3>1, <3>2 DEF OverWs, Either, Router!vars
    <3>. QED  BY <3>1, <3>2, WsStepRoutes
  <2>2. CASE GrpcServer
    <3>1. OverGrpc /\ GrpcInv /\ [Grpc!Next]_(Grpc!vars)
      BY <2>2 DEF GrpcServer, OverGrpc, IInv
    <3>2. CASE UNCHANGED <<Grpc!route, Grpc!came, Grpc!ended, Grpc!aim>>
      BY <3>1, <3>2 DEF OverGrpc, Either, Router!vars
    <3>. QED  BY <3>1, <3>2, GrpcStepRoutes
  <2>3. CASE UNCHANGED vars
    BY <2>3 DEF vars, wsVars, grpcVars, Router!vars, Either, Ws!ended, Ws!aim,
                Grpc!route, Grpc!Routed, Grpc!came, Grpc!ended, Grpc!aim
  <2>. QED  BY <2>1, <2>2, <2>3 DEF Next
<1>. QED  BY <1>1, <1>2, InvariantHolds, PTL DEF Spec, Router!Spec,
                                                 ImplementsRouting
=============================================================================
