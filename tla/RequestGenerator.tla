-------------------------- MODULE RequestGenerator --------------------------
(***************************************************************************)
(* test_client::RequestGenerator (testClient/src/RequestGenerator.cpp):    *)
(* the simulated users, which one thread registers and another makes       *)
(* requests for.  Amounts and times are small numbers.                     *)
(***************************************************************************)
EXTENDS Serialization

VARIABLES users,             \* users, a user's identifier is its index
          waiting            \* does a thread sleep in waitForUsersToRegister?

GeneratorInit == users = <<>> /\ waiting = FALSE

UserName(userId) == "user" \o ToString(userId)
UserIds == 0..(Len(users) - 1)

(* A slip the checks must catch: off by one.                               *)
NotifiesLate(userId) == userId > 4

(* "Otherwise we notify before message reaches recipient."                 *)
Notifies(userId) == userId > 3

generateUserRegisteredMessage ==
  LET userId == Len(users)
  IN Message("UserRegistered", UserInformation(userId, UserName(userId)))

Register ==
  /\ users' = Append(users, [name |-> UserName(Len(users)), connected |-> FALSE])
  /\ waiting' = (waiting /\ ~Notifies(Len(users)))

(* users is read without usersMutex; reserve keeps the elements in place.  *)
Connects(u) == users' = [users EXCEPT ![u + 1].connected = ~@]
Renames(u) == users' = [users EXCEPT ![u + 1].name = @ \o "_"]

(* What generateUserCommonMessage makes of its random numbers.             *)
generateUserCommonMessage(type, u, timestamp, amount) ==
  CASE type \in {"UserConnected", "UserDisconnected"} ->
         Message(IF users[u + 1].connected THEN "UserDisconnected" ELSE "UserConnected",
                 UserIdInformation(u))
    [] type = "UserRenamed" ->
         Message(type, UserInformation(u, users[u + 1].name \o "_"))
    [] type = "UserDealWon" -> Message(type, DealInformation(u, timestamp, amount))

ApplyRequest(type, u) ==
  CASE type \in {"UserConnected", "UserDisconnected"} -> Connects(u)
    [] type = "UserRenamed" -> Renames(u)
    [] type = "UserDealWon" -> UNCHANGED users
=============================================================================
