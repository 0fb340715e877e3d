--------------------------- MODULE Serialization ---------------------------
(***************************************************************************)
(* What crosses the network: the JSON of the WebSocket transport           *)
(* (webapi/serialization) and the events of the gRPC one (grpcapi), each   *)
(* written by one side of the service and read by the other.               *)
(*                                                                         *)
(* A property tree is its data, a text, and its children; the texts of     *)
(* numbers are those of its translator.  write_json and read_json, and     *)
(* protobuf's encoding, are external and keep a tree or an event as it is. *)
(* What is thrown for trees that no serializer here makes is left out.     *)
(***************************************************************************)
EXTENDS Naturals, Sequences, TLC

CONSTANT MaxNumber           \* the numbers that instances use are 0..MaxNumber

Number == 0..MaxNumber

(* The translator writes different numbers as different texts.             *)
ASSUME NumeralsAssumption ==
  /\ MaxNumber \in Nat
  /\ \A m, n \in Number : ToString(m) = ToString(n) => m = n

-----------------------------------------------------------------------------
(* The model's data: core/Types.hpp and core/Model.hpp.                    *)
UserIdInformation(id) == [id |-> id]
UserInformation(id, name) == [id |-> id, name |-> name]
DealInformation(userId, timestamp, amount) ==
  [userId |-> userId, timestamp |-> timestamp, amount |-> amount]
UserPosition(userInformation, position, amount) ==
  [userInformation |-> userInformation, position |-> position, amount |-> amount]
UserRelativeRating(userPosition, head, high, low) ==
  [userPosition |-> userPosition, headPositions |-> head,
   highPositions |-> high, lowPositions |-> low]
Message(type, data) == [type |-> type, data |-> data]

(* The types of a position and of a rating.                                *)
Position ==
  [userInformation : [id : Number, name : STRING], position : Number, amount : Number]
RelativeRating ==
  [userPosition : Position, headPositions : Seq(Position),
   highPositions : Seq(Position), lowPositions : Seq(Position)]

(* The conversions that EnumConverter keeps in its two maps.               *)
MessageTypeText ==
  [UserRegistered |-> "user_registered", UserRenamed |-> "user_renamed",
   UserConnected |-> "user_connected", UserDealWon |-> "user_deal_won",
   UserDisconnected |-> "user_disconnected", UserRelativeRating |-> "user_rating"]
WsMessageTypeText == [Data |-> "data", Ack |-> "ack", Error |-> "error"]

ToEnum(texts, text) == CHOOSE value \in DOMAIN texts : texts[value] = text

OfUser == {"UserRegistered", "UserRenamed"}
OfUserId == {"UserConnected", "UserDisconnected"}

-----------------------------------------------------------------------------
(* JsonSerializer.                                                         *)
Text(text) == [data |-> text, children |-> <<>>]
Numeral(number) == Text(ToString(number))
Node(children) == [data |-> "", children |-> children]

FromUserInformation(v) == Node([id |-> Numeral(v.id), name |-> Text(v.name)])

FromDealInformation(v) ==
  Node([userId |-> Numeral(v.userId), timestamp |-> Numeral(v.timestamp),
        amount |-> Numeral(v.amount)])

FromUserIdInformation(v) == Node([id |-> Numeral(v.id)])

FromUserPosition(v) ==
  Node([userInfo |-> FromUserInformation(v.userInformation),
        position |-> Numeral(v.position), amount |-> Numeral(v.amount)])

FromUserPositions(vs) == Node([i \in DOMAIN vs |-> FromUserPosition(vs[i])])

(* A slip the checks must catch: two of the three lists change places.     *)
FromUserRelativeRatingSwapped(v) ==
  Node([userPosition |-> FromUserPosition(v.userPosition),
        headPositions |-> FromUserPositions(v.headPositions),
        highPositions |-> FromUserPositions(v.lowPositions),
        lowPositions |-> FromUserPositions(v.highPositions)])

FromUserRelativeRating(v) ==
  Node([userPosition |-> FromUserPosition(v.userPosition),
        headPositions |-> FromUserPositions(v.headPositions),
        highPositions |-> FromUserPositions(v.highPositions),
        lowPositions |-> FromUserPositions(v.lowPositions)])

FromBaseMessage(m) ==
  Node([type |-> Text(MessageTypeText[m.type]),
        payload |-> CASE m.type \in OfUser -> FromUserInformation(m.data)
                      [] m.type \in OfUserId -> FromUserIdInformation(m.data)
                      [] m.type = "UserDealWon" -> FromDealInformation(m.data)
                      [] m.type = "UserRelativeRating" -> FromUserRelativeRating(m.data)])

WsAck(id) == [type |-> "Ack", id |-> id]
WsError(id, text, code) == [type |-> "Error", id |-> id, message |-> text, errorCode |-> code]
WsData(id, m) == [type |-> "Data", id |-> id, data |-> m]

FromWsMessage(w) ==
  LET id == Numeral(w.id)
      type == Text(WsMessageTypeText[w.type])
  IN Node(CASE w.type = "Ack" -> [id |-> id, type |-> type]
            [] w.type = "Error" ->
                 [id |-> id, type |-> type,
                  error |-> Node([message |-> Text(w.message), errorCode |-> Numeral(w.errorCode)])]
            [] w.type = "Data" -> [id |-> id, type |-> type, data |-> FromBaseMessage(w.data)])

-----------------------------------------------------------------------------
(* JsonDeserializer.                                                       *)
ToNumber(tree) == CHOOSE number \in Number : ToString(number) = tree.data
Child(tree, key) == tree.children[key]
NumberOf(tree, key) == ToNumber(Child(tree, key))
TextOf(tree, key) == Child(tree, key).data

ToUserInformation(tree) == UserInformation(NumberOf(tree, "id"), TextOf(tree, "name"))

ToDealInformation(tree) ==
  DealInformation(NumberOf(tree, "userId"), NumberOf(tree, "timestamp"), NumberOf(tree, "amount"))

ToUserIdInformation(tree) == UserIdInformation(NumberOf(tree, "id"))

ToUserPosition(tree) ==
  UserPosition(ToUserInformation(Child(tree, "userInfo")),
               NumberOf(tree, "position"), NumberOf(tree, "amount"))

ToUserPositions(tree) ==
  [i \in DOMAIN tree.children |-> ToUserPosition(tree.children[i])]

ToUserRelativeRating(tree) ==
  UserRelativeRating(ToUserPosition(Child(tree, "userPosition")),
                     ToUserPositions(Child(tree, "headPositions")),
                     ToUserPositions(Child(tree, "highPositions")),
                     ToUserPositions(Child(tree, "lowPositions")))

ToBaseMessage(tree) ==
  LET type == ToEnum(MessageTypeText, TextOf(tree, "type"))
      payload == Child(tree, "payload")
  IN Message(type, CASE type \in OfUser -> ToUserInformation(payload)
                     [] type \in OfUserId -> ToUserIdInformation(payload)
                     [] type = "UserDealWon" -> ToDealInformation(payload)
                     [] type = "UserRelativeRating" -> ToUserRelativeRating(payload))

ToWsMessage(tree) ==
  LET type == ToEnum(WsMessageTypeText, TextOf(tree, "type"))
      id == NumberOf(tree, "id")
  IN CASE type = "Ack" -> WsAck(id)
       [] type = "Error" -> WsError(id, TextOf(Child(tree, "error"), "message"),
                                    NumberOf(Child(tree, "error"), "errorCode"))
       [] type = "Data" -> WsData(id, ToBaseMessage(Child(tree, "data")))

-----------------------------------------------------------------------------
(* The events of rating.proto; payload_case says which of a oneof is set.  *)
toClientEvent(m) ==
  CASE m.type = "UserRegistered" ->
         [payload_case |-> "user_registered", user_id |-> m.data.id, name |-> m.data.name]
    [] m.type = "UserRenamed" ->
         [payload_case |-> "user_renamed", user_id |-> m.data.id, name |-> m.data.name]
    [] m.type = "UserConnected" -> [payload_case |-> "user_connected", user_id |-> m.data.id]
    [] m.type = "UserDisconnected" -> [payload_case |-> "user_disconnected", user_id |-> m.data.id]
    [] m.type = "UserDealWon" ->
         [payload_case |-> "user_deal_won", user_id |-> m.data.userId,
          timestamp |-> m.data.timestamp, amount |-> m.data.amount]
    [] OTHER -> [payload_case |-> "not_set"]

(* The user whose route the server keeps; that of no event is user 0's.    *)
extractUserId(event) == IF event.payload_case = "not_set" THEN 0 ELSE event.user_id

NoMessage == [type |-> "none"]

parseClientEvent(event) ==
  CASE event.payload_case = "user_registered" ->
         Message("UserRegistered", UserInformation(event.user_id, event.name))
    [] event.payload_case = "user_renamed" ->
         Message("UserRenamed", UserInformation(event.user_id, event.name))
    [] event.payload_case = "user_connected" ->
         Message("UserConnected", UserIdInformation(event.user_id))
    [] event.payload_case = "user_disconnected" ->
         Message("UserDisconnected", UserIdInformation(event.user_id))
    [] event.payload_case = "user_deal_won" ->
         Message("UserDealWon", DealInformation(event.user_id, event.timestamp, event.amount))
    [] OTHER -> NoMessage

fillRpcPosition(pos) ==
  [user_id |-> pos.userInformation.id, user_name |-> pos.userInformation.name,
   position |-> pos.position, amount |-> pos.amount]

fromRpcPosition(p) == UserPosition(UserInformation(p.user_id, p.user_name), p.position, p.amount)

fillRpcPositions(positions) == [i \in DOMAIN positions |-> fillRpcPosition(positions[i])]
fromRpcPositions(ps) == [i \in DOMAIN ps |-> fromRpcPosition(ps[i])]

(* Ratings are all that the server has an event for.                       *)
toServerEvent(m) ==
  IF m.type = "UserRelativeRating"
    THEN [payload_case |-> "user_relative_rating",
          user_position |-> fillRpcPosition(m.data.userPosition),
          head_positions |-> fillRpcPositions(m.data.headPositions),
          high_positions |-> fillRpcPositions(m.data.highPositions),
          low_positions |-> fillRpcPositions(m.data.lowPositions)]
    ELSE [payload_case |-> "not_set"]

fromServerEvent(event) ==
  IF event.payload_case = "user_relative_rating"
    THEN Message("UserRelativeRating",
           UserRelativeRating(fromRpcPosition(event.user_position),
             fromRpcPositions(event.head_positions),
             fromRpcPositions(event.high_positions),
             fromRpcPositions(event.low_positions)))
    ELSE NoMessage
=============================================================================
