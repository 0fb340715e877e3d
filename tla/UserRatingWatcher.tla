------------------------- MODULE UserRatingWatcher -------------------------
(***************************************************************************)
(* The threads of service::UserRatingWatcher                               *)
(* (service/src/UserRatingWatcher.cpp): the broadcaster, which pushes a    *)
(* rating to every connected user round after round, and the transport's   *)
(* threads, which call userConnected and userDisconnected.  They share     *)
(* connectedUsers_ under mutex_, a condition variable the broadcaster      *)
(* waits on while nobody is connected, and a stop token.                   *)
(*                                                                         *)
(* Each critical section is one action.  What sendUserRelativeRating does  *)
(* inside is the subject of RatingService; here it is a call that returns. *)
(***************************************************************************)
EXTENDS Integers, FiniteSets

CONSTANTS User, Worker   \* Worker: the threads that deliver messages

VARIABLES connectedUsers,  \* connectedUsers_
          broadcaster,     \* where ratingUpdateThread_ is
          snapshot,        \* the users this round has yet to serve
          sending,         \* the user being served: a set of one, or empty
          stopRequested,   \* the stop token of ratingUpdateThread_
          call,            \* worker -> the user its userConnected is serving, or {}
          late             \* pushes a user got from the broadcaster after it left

vars == <<connectedUsers, broadcaster, snapshot, sending, stopRequested, call, late>>

(* A jthread that has not been assigned yet: the transport is started      *)
(* before the watcher, so users may connect before the thread exists.      *)
Init ==
  /\ connectedUsers = {}
  /\ broadcaster = "none"
  /\ snapshot = {}
  /\ sending = {}
  /\ stopRequested = FALSE
  /\ call = [w \in Worker |-> {}]
  /\ late = [u \in User |-> 0]

-----------------------------------------------------------------------------
(* start and stop, called by ApplicationService::run.                      *)
Start ==
  /\ broadcaster = "none"
  /\ broadcaster' = "wait"
  /\ UNCHANGED <<connectedUsers, snapshot, sending, stopRequested, call, late>>

(* request_stop runs the stop callback of cv_.wait, which wakes the waiter *)
(* (and that of the semaphore, whose sleep ends at once: see WakeUp).      *)
Stop ==
  /\ broadcaster # "none"
  /\ ~stopRequested
  /\ stopRequested' = TRUE
  /\ broadcaster' = IF broadcaster = "blocked" THEN "wait" ELSE broadcaster
  /\ UNCHANGED <<connectedUsers, snapshot, sending, call, late>>

-----------------------------------------------------------------------------
(* The transport's threads.                                                *)

(* notify_one wakes the broadcaster if it is blocked.                      *)
Notified == IF broadcaster = "blocked" THEN "wait" ELSE broadcaster

(* A slip the checks must catch: nobody is notified.                       *)
UserConnectedSilently(w, u) ==
  /\ call[w] = {}
  /\ connectedUsers' = connectedUsers \cup {u}
  /\ call' = [call EXCEPT ![w] = {u}]
  /\ late' = [late EXCEPT ![u] = 0]
  /\ UNCHANGED <<broadcaster, snapshot, sending, stopRequested>>

(* userConnected, the section under mutex_.  A duplicate does not notify.  *)
UserConnected(w, u) ==
  /\ call[w] = {}
  /\ connectedUsers' = connectedUsers \cup {u}
  /\ broadcaster' = IF u \in connectedUsers THEN broadcaster ELSE Notified
  /\ call' = [call EXCEPT ![w] = {u}]
  /\ late' = [late EXCEPT ![u] = 0]
  /\ UNCHANGED <<snapshot, sending, stopRequested>>

(* userConnected, sendUserRelativeRating after the section.                *)
AnswerConnect(w) ==
  /\ call[w] # {}
  /\ call' = [call EXCEPT ![w] = {}]
  /\ UNCHANGED <<connectedUsers, broadcaster, snapshot, sending, stopRequested, late>>

UserDisconnected(w, u) ==
  /\ call[w] = {}
  /\ connectedUsers' = connectedUsers \ {u}
  /\ UNCHANGED <<broadcaster, snapshot, sending, stopRequested, call, late>>

-----------------------------------------------------------------------------
(* The broadcaster.                                                        *)

(* cv_.wait under mutex_: with a user connected it returns true, even when *)
(* a stop is requested, and the section copies the set.                    *)
TakeSnapshot ==
  /\ broadcaster = "wait"
  /\ connectedUsers # {}
  /\ snapshot' = connectedUsers
  /\ broadcaster' = "broadcast"
  /\ UNCHANGED <<connectedUsers, sending, stopRequested, call, late>>

(* With nobody connected it returns false once a stop is requested ...     *)
WaitReturnsFalse ==
  /\ broadcaster = "wait"
  /\ connectedUsers = {}
  /\ stopRequested
  /\ broadcaster' = "done"
  /\ UNCHANGED <<connectedUsers, snapshot, sending, stopRequested, call, late>>

(* ... and gives the mutex up and blocks otherwise.                        *)
Block ==
  /\ broadcaster = "wait"
  /\ connectedUsers = {}
  /\ ~stopRequested
  /\ broadcaster' = "blocked"
  /\ UNCHANGED <<connectedUsers, snapshot, sending, stopRequested, call, late>>

(* A condition variable may wake for no reason.                            *)
SpuriousWakeup ==
  /\ broadcaster = "blocked"
  /\ broadcaster' = "wait"
  /\ UNCHANGED <<connectedUsers, snapshot, sending, stopRequested, call, late>>

(* Slips: a loop that does not advance; a loop left after its first user.  *)
BeginPushAgain ==
  /\ broadcaster = "broadcast"
  /\ ~stopRequested
  /\ \E u \in snapshot :
       /\ sending' = {u}
       /\ late' = IF u \in connectedUsers THEN late ELSE [late EXCEPT ![u] = @ + 1]
  /\ broadcaster' = "push"
  /\ UNCHANGED <<connectedUsers, snapshot, stopRequested, call>>

BeginPushFirst ==
  /\ broadcaster = "broadcast"
  /\ ~stopRequested
  /\ \E u \in snapshot :
       /\ sending' = {u}
       /\ snapshot' = {}
       /\ late' = IF u \in connectedUsers THEN late ELSE [late EXCEPT ![u] = @ + 1]
  /\ broadcaster' = "push"
  /\ UNCHANGED <<connectedUsers, stopRequested, call>>

(* The loop over the snapshot, which is not ordered and not looked up      *)
(* again: a user that left since is still served.                          *)
BeginPush ==
  /\ broadcaster = "broadcast"
  /\ ~stopRequested
  /\ \E u \in snapshot :
       /\ sending' = {u}
       /\ snapshot' = snapshot \ {u}
       /\ late' = IF u \in connectedUsers THEN late ELSE [late EXCEPT ![u] = @ + 1]
  /\ broadcaster' = "push"
  /\ UNCHANGED <<connectedUsers, stopRequested, call>>

EndPush ==
  /\ broadcaster = "push"
  /\ sending' = {}
  /\ broadcaster' = "broadcast"
  /\ UNCHANGED <<connectedUsers, snapshot, stopRequested, call, late>>

EndRound ==
  /\ broadcaster = "broadcast"
  /\ snapshot = {} \/ stopRequested
  /\ snapshot' = {}
  /\ broadcaster' = "sleep"
  /\ UNCHANGED <<connectedUsers, sending, stopRequested, call, late>>

(* A slip: the token is not looked at after the sleep.                     *)
WakeUpHeedless ==
  /\ broadcaster = "sleep"
  /\ broadcaster' = "wait"
  /\ UNCHANGED <<connectedUsers, snapshot, sending, stopRequested, call, late>>

(* try_acquire_for: the timeout, or the stop callback's release.           *)
WakeUp ==
  /\ broadcaster = "sleep"
  /\ broadcaster' = IF stopRequested THEN "done" ELSE "wait"
  /\ UNCHANGED <<connectedUsers, snapshot, sending, stopRequested, call, late>>

Broadcaster ==
  \/ TakeSnapshot \/ WaitReturnsFalse \/ Block
  \/ BeginPush \/ EndPush \/ EndRound \/ WakeUp

Next ==
  \/ Start
  \/ Stop
  \/ SpuriousWakeup
  \/ Broadcaster
  \/ \E w \in Worker :
       \/ AnswerConnect(w)
       \/ \E u \in User : UserConnected(w, u) \/ UserDisconnected(w, u)

(* ApplicationService::run starts the thread, and the thread is scheduled. *)
Spec == Init /\ [][Next]_vars /\ WF_vars(Start) /\ WF_vars(Broadcaster)

-----------------------------------------------------------------------------
AtMostOne == {{}} \cup {{u} : u \in User}

TypeOK ==
  /\ connectedUsers \in SUBSET User
  /\ broadcaster \in {"none", "wait", "blocked", "broadcast", "push", "sleep", "done"}
  /\ snapshot \in SUBSET User
  /\ sending \in AtMostOne
  /\ stopRequested \in BOOLEAN
  /\ call \in [Worker -> AtMostOne]
  /\ late \in [User -> Nat]

(* No wakeup is lost: the broadcaster is blocked only while there is       *)
(* nobody to serve and nothing to stop for, although a user may connect or *)
(* a stop be requested at any point around its wait, even before it runs.  *)
BlockedWithNothingToDo ==
  broadcaster = "blocked" => connectedUsers = {} /\ ~stopRequested

(* A user that disconnected gets at most one more push: the stale snapshot *)
(* of the round in progress is never used for a second one.                *)
AtMostOneLatePush == \A u \in User : late[u] <= 1

(* The service pushes periodically to all connected users: one that stays  *)
(* connected is served again and again, however others come and go.        *)
ServedAgainAndAgain ==
  \A u \in User :
    <>[](u \in connectedUsers /\ ~stopRequested) => []<>(u \in sending)

(* stop() joins a thread that ends, from whatever it was doing.            *)
StopCompletes == stopRequested ~> broadcaster = "done"
=============================================================================
