------------------------- MODULE WsTransportClient -------------------------
(***************************************************************************)
(* webapi::transport::WsTransportClient: the client's thread, its stop and *)
(* the wait for a connection (webapi/src/transport/WsTransportClient.cpp). *)
(* What goes on between the thread's start and its return is SocketClient; *)
(* here the server lets the client in, ends the connection, or is silent.  *)
(***************************************************************************)
VARIABLE ws

(* thread: where clientThread_ is.  assigned: has connect stored it?       *)
(* wait: where the caller of waitForConnection is.                         *)
Init ==
  ws = [thread |-> "none", assigned |-> FALSE, stopRequested |-> FALSE,
        connected |-> FALSE, connection |-> FALSE, wait |-> "no"]

Connect ==
  /\ ws.thread = "none"
  /\ ws' = [ws EXCEPT !.thread = "starting"]

(* The thread may run before its jthread is assigned to the member, the    *)
(* last that connect does.                                                 *)
Connected ==
  /\ ws.thread # "none" /\ ~ws.assigned
  /\ ws' = [ws EXCEPT !.assigned = TRUE]

ThreadStarts ==
  /\ ws.thread = "starting"
  /\ ws' = [ws EXCEPT !.thread = "connecting"]

Notified(wait) == IF wait = "blocked" THEN "check" ELSE wait

(* on_open, under connMutex_, which a waiter holds until it sleeps.        *)
Open ==
  /\ ws.thread = "connecting" /\ ws.wait # "toBlock"
  /\ ws' = [ws EXCEPT !.thread = "open", !.connection = TRUE, !.connected = TRUE,
                      !.wait = Notified(@)]

(* A slip the checks must catch: the stop does not reach the client.       *)
StopCallbackNotifiesOnly(w) == [w EXCEPT !.wait = Notified(@)]

(* The stop callback: client_.stop ends the thread's run of the            *)
(* io_service; the notification is not under connMutex_.                   *)
StopCallback(w) ==
  [w EXCEPT !.thread = IF @ \in {"connecting", "open"} THEN "returning" ELSE @,
            !.wait = Notified(@)]

RequestStop(w) ==
  IF w.stopRequested THEN w ELSE StopCallback([w EXCEPT !.stopRequested = TRUE])

(* on_close and on_error: nothing is left for the io_service to do.  The   *)
(* stop they request is lost on a clientThread_ that is not assigned yet.  *)
Ends ==
  /\ ws.thread \in {"connecting", "open"}
  /\ ws' = [(IF ws.assigned THEN RequestStop(ws) ELSE ws) EXCEPT !.thread = "returning"]

Returns ==
  /\ ws.thread = "returning"
  /\ ws' = [ws EXCEPT !.thread = "ended"]

-----------------------------------------------------------------------------
(* waitForConnection.                                                      *)
WaitForConnection ==
  /\ ws.wait = "no"
  /\ ws' = [ws EXCEPT !.wait = "check"]

Answer == IF ws.connected THEN "connected" ELSE "givenUp"

Check ==
  /\ ws.wait = "check"
  /\ ws' = [ws EXCEPT !.wait =
              IF ws.connected \/ ws.stopRequested THEN Answer ELSE "toBlock"]

Block ==
  /\ ws.wait = "toBlock"
  /\ ws' = [ws EXCEPT !.wait = "blocked"]

(* Assumed: a thread starts within the timeout.  A stop before that would  *)
(* find no io_service to stop.                                             *)
TimesOut ==
  /\ ws.wait = "blocked" /\ ws.thread # "starting"
  /\ ws' = [ws EXCEPT !.wait = Answer]

(* disconnect, up to the join, and the join.                               *)
Disconnect == ws' = RequestStop(ws)
Joined == ws.thread = "ended"

(* sendMessage.  connection_ is never reset: what is sent after the end    *)
(* waits in an io_service that nobody runs any more.                       *)
CanSend == ws.connection /\ ws.thread = "open"

Scheduled == ThreadStarts \/ Returns \/ Check \/ Block \/ TimesOut
Network == Open \/ Ends
=============================================================================
