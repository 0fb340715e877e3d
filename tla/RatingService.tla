--------------------------- MODULE RatingService ---------------------------
(***************************************************************************)
(* The service as its threads run it: the transport's workers dispatch     *)
(* client messages (ApplicationService::dispatchMessage), the broadcaster  *)
(* pushes ratings to connected users (UserRatingWatcher), and both read    *)
(* and write the user store, the rating table and the set of connected     *)
(* users.  Every lock section of the code is one action; what the code     *)
(* does without a lock is an action that another thread may stand next to. *)
(*                                                                         *)
(* sendUserRelativeRating, run by a worker for a user that connects and by *)
(* the broadcaster for every connected user, calls the rating provider and *)
(* the transport up to seven times; of each call, what it reads without a  *)
(* lock and what it does under one are steps of their own.                 *)
(* The rating table is the container of MultiKeyVolatileContainer, whose   *)
(* operations and queries the threads call.                                *)
(*                                                                         *)
(* The rating period is reduced to what the calls can tell: "open", "over" *)
(* (the clock has passed endTime_ and the watcher has not cleared the      *)
(* table), "cleared" (it has) and "started" (it has also moved startTime_, *)
(* but not endTime_).  The period itself is the subject of                 *)
(* UserRatingProvider, which implements this view of it (RatingPeriod);    *)
(* the waiting and stopping of the broadcaster is that of                  *)
(* UserRatingWatcher.                                                      *)
(***************************************************************************)
EXTENDS Integers

CONSTANTS User,              \* the users' identifiers
          SortKey, Modify(_, _),   \* amounts, and how one is added
          Worker,            \* the transport's threads
          Broadcaster,       \* ratingUpdateThread_
          nRatingPositions,  \* nRatingPositions_
          Environments       \* what clients and clock may be like

Actor == Worker \cup {Broadcaster}

ASSUME ActorAssumption == Broadcaster \notin Worker
ASSUME nRatingPositionsAssumption == nRatingPositions \in Nat
ASSUME SortKeyAssumption == SortKey \subseteq Int /\ 0 \in SortKey
ASSUME ModifyAssumption ==
  \A old, delta \in SortKey : Modify(old, delta) \in SortKey /\ Modify(old, 0) = old

(* Does every client register its user before it deals or connects?  Does  *)
(* the rating period end?                                                  *)
Environment == [orderly : BOOLEAN, rotating : BOOLEAN]
ASSUME EnvironmentAssumption == Environments \subseteq Environment

VARIABLES environment,     \* the one this behaviour is in
          users,           \* UserDataStore: the registered users
          sortData,        \* the rating table,
          accessData,      \* as in MultiKeyVolatileContainer
          window,          \* the rating period
          connectedUsers,  \* UserRatingWatcher::connectedUsers_
          snapshot,        \* the users the broadcaster's round has yet to serve
          at,              \* where each thread is
          user,            \* the user it is dealing with: a set of one, or empty
          message,         \* the users its UserRelativeRating names so far
          stamp,           \* when its zero deal was made: where the window is from then
          terminated       \* std::terminate was called

Container == INSTANCE MultiKeyVolatileContainer
               WITH AccessKey <- User, MaxPositions <- nRatingPositions

table == <<sortData, accessData>>
vars == <<environment, users, table, window, connectedUsers, snapshot, at, user, message,
          stamp, terminated>>

(* The time of a zero deal is before, in or after the present window.      *)
Stamp == {"before", "in", "after"}

Init ==
  /\ environment \in Environments
  /\ users = {}
  /\ Container!Init
  /\ window = "open"
  /\ connectedUsers = {}
  /\ snapshot = {}
  /\ at = [a \in Actor |-> IF a = Broadcaster THEN "wait" ELSE "idle"]
  /\ user = [a \in Actor |-> {}]
  /\ message = [a \in Actor |-> {}]
  /\ stamp = [a \in Actor |-> "before"]
  /\ terminated = FALSE

-----------------------------------------------------------------------------
(* Threads.                                                                *)

Goto(a, place) == at' = [at EXCEPT ![a] = place]

(* Back to the loop the thread came from.                                  *)
Return(a) ==
  /\ Goto(a, IF a = Broadcaster THEN "broadcast" ELSE "idle")
  /\ user' = [user EXCEPT ![a] = {}]
  /\ message' = [message EXCEPT ![a] = {}]
  /\ UNCHANGED stamp

(* dispatchMessage catches an exception and drops the message.  Nothing    *)
(* catches one in the broadcaster's thread function.                       *)
Throw(a) ==
  /\ Return(a)
  /\ terminated' = (a = Broadcaster)
  /\ UNCHANGED <<users, table, window, connectedUsers, snapshot>>

Begin(w, u, place) ==
  /\ at[w] = "idle"
  /\ Goto(w, place)
  /\ user' = [user EXCEPT ![w] = {u}]
  /\ UNCHANGED <<users, table, window, snapshot, message, stamp, terminated>>

(* What an orderly client sees to before it deals or connects.             *)
MayServe(u) == environment.orderly => u \in users

-----------------------------------------------------------------------------
(* The messages a worker dispatches.                                       *)
UserRegistered(w, u) ==
  /\ Begin(w, u, "addUser")
  /\ UNCHANGED connectedUsers

UserRenamed(w, u) ==
  /\ Begin(w, u, "renameUser")
  /\ UNCHANGED connectedUsers

(* A deal that UserRatingProvider::addDeal accepts: its timestamp is the   *)
(* client's, so it may be within any window.  One it ignores changes       *)
(* nothing.                                                                *)
UserDealWon(w, u) ==
  /\ MayServe(u)
  /\ Begin(w, u, "insertDeal")
  /\ UNCHANGED connectedUsers

UserConnected(w, u) ==
  /\ MayServe(u)
  /\ Begin(w, u, "isPresent")
  /\ connectedUsers' = connectedUsers \cup {u}

UserDisconnected(w, u) ==
  /\ at[w] = "idle"
  /\ connectedUsers' = connectedUsers \ {u}
  /\ UNCHANGED <<users, table, window, snapshot, at, user, message, stamp, terminated>>

(* UserDataStore::addUser.  It throws for a user that is registered.       *)
AddUser(w) ==
  /\ at[w] = "addUser"
  /\ users' = users \cup user[w]
  /\ Return(w)
  /\ UNCHANGED <<table, window, connectedUsers, snapshot, terminated>>

(* UserDataStore::renameUser.  The name is not kept in this model.         *)
RenameUser(w) ==
  /\ at[w] = "renameUser"
  /\ Return(w)
  /\ UNCHANGED <<users, table, window, connectedUsers, snapshot, terminated>>

(* sortedDealContainer_.insert under storeMutex_.                          *)
InsertIntoTable(u, amount) ==
  Container!UpdateItem(u, amount) \/ Container!InsertItem(u, amount)

InsertDeal(w) ==
  /\ at[w] = "insertDeal"
  /\ \E u \in user[w], amount \in SortKey : InsertIntoTable(u, amount)
  /\ Return(w)
  /\ UNCHANGED <<users, window, connectedUsers, snapshot, terminated>>

Dispatch(w) ==
  \/ \E u \in User : \/ UserRegistered(w, u) \/ UserRenamed(w, u)
                     \/ UserDealWon(w, u)
                     \/ UserConnected(w, u) \/ UserDisconnected(w, u)
  \/ AddUser(w) \/ RenameUser(w) \/ InsertDeal(w)

-----------------------------------------------------------------------------
(* The broadcaster's round.                                                *)
TakeSnapshot ==
  /\ at[Broadcaster] = "wait"
  /\ connectedUsers # {}
  /\ snapshot' = connectedUsers
  /\ Goto(Broadcaster, "broadcast")
  /\ UNCHANGED <<users, table, window, connectedUsers, user, message, stamp, terminated>>

(* A slip the checks must catch: the loop is left after its first user.    *)
BeginPushFirst ==
  /\ at[Broadcaster] = "broadcast"
  /\ \E u \in snapshot : user' = [user EXCEPT ![Broadcaster] = {u}]
  /\ snapshot' = {}
  /\ Goto(Broadcaster, "isPresent")
  /\ UNCHANGED <<users, table, window, connectedUsers, message, stamp, terminated>>

BeginPush ==
  /\ at[Broadcaster] = "broadcast"
  /\ \E u \in snapshot :
       /\ snapshot' = snapshot \ {u}
       /\ user' = [user EXCEPT ![Broadcaster] = {u}]
  /\ Goto(Broadcaster, "isPresent")
  /\ UNCHANGED <<users, table, window, connectedUsers, message, stamp, terminated>>

EndRound ==
  /\ at[Broadcaster] = "broadcast"
  /\ snapshot = {}
  /\ Goto(Broadcaster, "wait")
  /\ UNCHANGED <<users, table, window, connectedUsers, snapshot, user, message, stamp, terminated>>

Round == TakeSnapshot \/ BeginPush \/ EndRound

-----------------------------------------------------------------------------
(* sendUserRelativeRating.                                                 *)

(* A slip: a user without deals is not given the zero deal.                *)
IsUserPresentUnheeded(a) ==
  /\ at[a] = "isPresent"
  /\ Goto(a, "own")
  /\ UNCHANGED <<users, table, window, connectedUsers, snapshot, user, message, stamp, terminated>>

(* A thread about to put a user into the table or to clear it, which it    *)
(* does under a mutex that isUserPresent does not take: the hash table is  *)
(* changed while it is read, and any user may be missed.                   *)
TableChanging ==
  \/ window = "over"
  \/ \E b \in Actor :
       at[b] \in {"insertDeal", "insertZero"} /\ ~(user[b] \subseteq DOMAIN accessData)

(* isUserPresent, without the mutex.                                       *)
IsUserPresent(a) ==
  /\ at[a] = "isPresent"
  /\ \E u \in user[a] :
       \/ Container!IsPresent(accessData, u) /\ Goto(a, "own")
       \/ ~Container!IsPresent(accessData, u) /\ Goto(a, "zeroDeal")
       \/ TableChanging /\ Goto(a, "zeroDeal")
  /\ UNCHANGED <<users, table, window, connectedUsers, snapshot, user, message, stamp, terminated>>

(* The zero deal is made: the clock is read.                               *)
MakeZeroDeal(a) ==
  /\ at[a] = "zeroDeal"
  /\ stamp' = [stamp EXCEPT ![a] = IF window = "open" THEN "in" ELSE "after"]
  /\ Goto(a, "checkStart")
  /\ UNCHANGED <<users, table, window, connectedUsers, snapshot, user, message, terminated>>

(* addDeal compares it with startTime_ and then with endTime_, without the *)
(* mutex, and may ignore it.                                               *)
CheckStartTime(a) ==
  /\ at[a] = "checkStart"
  /\ Goto(a, IF stamp[a] = "before" THEN "own" ELSE "checkEnd")
  /\ UNCHANGED <<users, table, window, connectedUsers, snapshot, user, message, stamp, terminated>>

CheckEndTime(a) ==
  /\ at[a] = "checkEnd"
  /\ Goto(a, IF stamp[a] = "after" THEN "own" ELSE "insertZero")
  /\ stamp' = [stamp EXCEPT ![a] = "before"]   \* not looked at again
  /\ UNCHANGED <<users, table, window, connectedUsers, snapshot, user, message, terminated>>

(* A slip: the answer of isUserPresent is taken to be still true.          *)
InsertZeroDealUnchecked(a) ==
  /\ at[a] = "insertZero"
  /\ \E u \in user[a] :
       /\ sortData' = Container!InsertedSort(sortData, accessData, u, 0)
       /\ accessData' = Container!InsertedAccess(accessData, u, 0)
  /\ Goto(a, "own")
  /\ UNCHANGED <<users, window, connectedUsers, snapshot, user, message, stamp, terminated>>

InsertZeroDeal(a) ==
  /\ at[a] = "insertZero"
  /\ \E u \in user[a] : InsertIntoTable(u, 0)
  /\ Goto(a, "own")
  /\ UNCHANGED <<users, window, connectedUsers, snapshot, user, message, stamp, terminated>>

(* A thread about to insert into the user store, whose hash table has no   *)
(* lock: a lookup that runs meanwhile may miss any user.                   *)
UserStoreChanging == \E w \in Worker : at[w] = "addUser" /\ ~(user[w] \subseteq users)

(* What the query that makes a part of the message returns.               *)
QueryResult(part, u) ==
  CASE part = "own"  -> <<Container!GetPosition(sortData, accessData, u)>>
    [] part = "head" -> Container!HeadPositions(sortData, accessData, nRatingPositions)
    [] part = "high" -> Container!HighPositions(sortData, accessData, u, nRatingPositions)
    [] part = "low"  -> Container!LowPositions(sortData, accessData, u, nRatingPositions)

(* All but getHeadPositions throw if the user is not in the table.         *)
MissesUser(part, u) == part # "head" /\ ~Container!IsPresent(accessData, u)

(* A slip: a name that is not found is left empty.                         *)
FailsIfAbsent(part, u) == MissesUser(part, u)

(* A query throws also if getUserInformation does not know a user that it  *)
(* lists.                                                                  *)
Fails(part, u) ==
  IF MissesUser(part, u) THEN TRUE ELSE ~(Container!KeysOf(QueryResult(part, u)) \subseteq users)

(* One query of the rating provider, under storeMutex_: it throws, or its  *)
(* result becomes a part of the message.                                   *)
Query(a, part, next) ==
  /\ at[a] = part
  /\ \E u \in user[a] :
       \/ /\ ~Fails(part, u)
          /\ message' = [message EXCEPT ![a] = @ \cup Container!KeysOf(QueryResult(part, u))]
          /\ Goto(a, next)
          /\ UNCHANGED <<users, table, window, connectedUsers, snapshot, user, stamp, terminated>>
       \/ /\ Fails(part, u) \/ UserStoreChanging
          /\ Throw(a)

Asking == {"own", "head", "high", "low"}

GetUserPosition(a)  == Query(a, "own", "head")
GetHeadPositions(a) == Query(a, "head", "high")
GetHighPositions(a) == Query(a, "high", "low")
GetLowPositions(a)  == Query(a, "low", "send")

(* transport_->sendToUser.                                                 *)
SendToUser(a) ==
  /\ at[a] = "send"
  /\ Return(a)
  /\ UNCHANGED <<users, table, window, connectedUsers, snapshot, terminated>>

SendUserRelativeRating(a) ==
  \/ IsUserPresent(a)
  \/ MakeZeroDeal(a) \/ CheckStartTime(a) \/ CheckEndTime(a) \/ InsertZeroDeal(a)
  \/ GetUserPosition(a) \/ GetHeadPositions(a)
  \/ GetHighPositions(a) \/ GetLowPositions(a) \/ SendToUser(a)

-----------------------------------------------------------------------------
(* The end of the rating period, as UserRatingProvider's thread makes it.  *)
PeriodEnds ==
  /\ environment.rotating
  /\ window = "open"
  /\ window' = "over"
  /\ UNCHANGED <<users, table, connectedUsers, snapshot, at, user, message, stamp, terminated>>

ClearTable ==
  /\ window = "over"
  /\ window' = "cleared"
  /\ Container!Clear
  /\ UNCHANGED <<users, connectedUsers, snapshot, at, user, message, stamp, terminated>>

(* startTime_ moves to the old end: what was in the old window is before.  *)
WriteStartTime ==
  /\ window = "cleared"
  /\ window' = "started"
  /\ stamp' = [a \in Actor |-> IF stamp[a] = "in" THEN "before" ELSE stamp[a]]
  /\ UNCHANGED <<users, table, connectedUsers, snapshot, at, user, message, terminated>>

(* endTime_ moves: what was after the old window is in the new one, unless *)
(* the thread has overslept the new end as well.                           *)
WriteEndTime ==
  /\ window = "started"
  /\ window' \in {"open", "over"}
  /\ \E late \in SUBSET Actor :
       /\ window' = "open" => late = {}
       /\ stamp' = [a \in Actor |-> IF stamp[a] = "after" /\ a \notin late
                                      THEN "in" ELSE stamp[a]]
  /\ UNCHANGED <<users, table, connectedUsers, snapshot, at, user, message, terminated>>

Rotation == PeriodEnds \/ ClearTable \/ WriteStartTime \/ WriteEndTime

Broadcast == UNCHANGED environment /\ (Round \/ SendUserRelativeRating(Broadcaster))

Next ==
  /\ ~terminated
  /\ UNCHANGED environment
  /\ \/ \E w \in Worker : Dispatch(w) \/ SendUserRelativeRating(w)
     \/ Broadcast
     \/ Rotation

(* The broadcaster is scheduled, and gets the mutexes it waits for.        *)
Spec == Init /\ [][Next]_vars /\ WF_vars(~terminated /\ Broadcast)

-----------------------------------------------------------------------------
(* With clients that register before they deal or connect, and while no    *)
(* period ends, every push a thread begins gets to its sending, whatever   *)
(* others do to the table between its calls: a query throws only while the *)
(* registration of a newcomer is changing the map of users that it reads.  *)
PushesSucceed ==
  [][environment.orderly /\ ~environment.rotating =>
       \A a \in Actor : at[a] \in Asking /\ at'[a] \notin Asking \cup {"send"} =>
         UserStoreChanging]_vars

(* What the smoke test takes for the service's promise (test/smoke.sh:53): *)
(* with well-behaved clients it does not crash, periods that end or not.   *)
OrderlyClientsNeverCrashIt == environment.orderly => ~terminated

(* Asking for a rating never touches anybody's: the zero deal a push makes *)
(* for a user it found without one may come after the user's first deal,   *)
(* made by another thread, and then leaves totals and ranking as they are. *)
ZeroDealIsHarmless ==
  [][\A a \in Actor : at[a] = "insertZero" /\ at'[a] # "insertZero" =>
       /\ \A u \in DOMAIN accessData : u \in DOMAIN accessData' /\ accessData'[u] = accessData[u]
       /\ Container!RankedAhead = Container!RankedAhead' \cap ((DOMAIN accessData) \X (DOMAIN accessData))]_vars

(* The service pushes periodically to all connected users: one that stays  *)
(* connected is sent a rating again and again, whatever clients and the    *)
(* period do to the table between two of its steps, or the process ends.   *)
PushedAgainAndAgain ==
  \A u \in User :
    <>[](u \in connectedUsers) =>
      \/ []<>(at[Broadcaster] = "send" /\ u \in user[Broadcaster])
      \/ <>terminated

(* Nobody unknown is ever named to a client: users that deal or connect    *)
(* before they register are in the table, and no message lists them.       *)
NamedUsersRegistered ==
  \A a \in Actor : message[a] \subseteq users

-----------------------------------------------------------------------------
Period == INSTANCE RatingPeriod WITH Rated <- User, rated <- DOMAIN accessData

(* The period ends for the service as UserRatingProvider ends it, and no   *)
(* user leaves the table otherwise.                                        *)
ImplementsPeriod == Period!Spec
=============================================================================
