----------------------------- MODULE WsProtocol -----------------------------
(***************************************************************************)
(* webapi::transport::WsProtocol (webapi/src/transport/WsProtocol.cpp):    *)
(* the acknowledgement and resend layer over WebSocket connections.  A     *)
(* call of sendMessage numbers a DATA message, sends it and puts it into   *)
(* resendStore, without a lock around the three; an acknowledgement takes  *)
(* the number out of the store; a thread sends again what stays there.     *)
(*                                                                         *)
(* A connection neither loses nor duplicates while it is open, and closing *)
(* it loses what it carries.  The peer acknowledges a DATA message, hands  *)
(* it over and keeps nothing to recognise a second copy by.                *)
(***************************************************************************)
EXTENDS Integers, Functions

CONSTANTS Message,       \* the calls of sendMessage
          Connection,
          To,            \* the connection each message is sent to
          Ids,           \* bound: the numbers 2^16 of WsMessageIdentifier
          resendNumber   \* resendNumber_

ASSUME ToAssumption == To \in [Message -> Connection]
ASSUME IdsAssumption == Ids \in Nat \ {0}
ASSUME resendNumberAssumption == resendNumber \in Nat

VARIABLES outCounter,     \* outCounter_, as far as an identifier shows it
          call,           \* where each call of sendMessage is
          id,             \* the identifier it took
          resendStore,    \* id -> the message and its resendCounter
          resender,       \* where resendStoreThread is
          stopRequested,  \* its stop token
          open,           \* the connections that are open
          data, acks,     \* copies of each message, of its ACK, under way
          sends,          \* times each message was handed to its connection
          received        \* the messages whose peers have handed them over

vars == <<outCounter, call, id, resendStore, resender, stopRequested, open,
          data, acks, sends, received>>

callVars == <<outCounter, call, id>>
netVars  == <<open, data, acks, received>>

Stored == DOMAIN resendStore

Init ==
  /\ outCounter = 0
  /\ call = [m \in Message |-> "idle"]
  /\ id = [m \in Message |-> 0]
  /\ resendStore = [i \in {} |-> 0]
  /\ resender = "head"
  /\ stopRequested = FALSE
  /\ open = Connection
  /\ data = [m \in Message |-> 0]
  /\ acks = [m \in Message |-> 0]
  /\ sends = [m \in Message |-> 0]
  /\ received = {}

-----------------------------------------------------------------------------
(* sendMessage.                                                            *)
At(m, from, to) ==
  /\ call[m] = from
  /\ call' = [call EXCEPT ![m] = to]

(* getNextOutCounter: outCounter_++ of a plain integer, so a read and a    *)
(* write that calls of other threads may come between.                     *)
ReadCounter(m) ==
  /\ At(m, "idle", "counting")
  /\ id' = [id EXCEPT ![m] = outCounter]
  /\ UNCHANGED <<outCounter, resendStore, resender, stopRequested, sends, netVars>>

WriteCounter(m) ==
  /\ At(m, "counting", "counted")
  /\ outCounter' = (id[m] + 1) % Ids
  /\ UNCHANGED <<id, resendStore, resender, stopRequested, sends, netVars>>

(* connection->send of the messages ms: to a closed one it only logs.      *)
Transmit(ms) ==
  /\ sends' = [m \in Message |-> IF m \in ms THEN sends[m] + 1 ELSE sends[m]]
  /\ data' = [m \in Message |->
                IF m \in ms /\ To[m] \in open THEN data[m] + 1 ELSE data[m]]

Send(m) ==
  /\ At(m, "counted", "sent")
  /\ Transmit({m})
  /\ UNCHANGED <<outCounter, id, resendStore, resender, stopRequested, open, acks, received>>

(* A slip the checks must catch: nobody is notified.                       *)
AddToResendStoreSilently(m) ==
  /\ At(m, "sent", "done")
  /\ resendStore' =
       IF id[m] \in Stored THEN resendStore
       ELSE [i \in Stored \cup {id[m]} |->
               IF i = id[m] THEN [message |-> m, resendCounter |-> 0] ELSE resendStore[i]]
  /\ UNCHANGED <<outCounter, id, resender, stopRequested, sends, netVars>>

(* addToResendStore, under resendStoreMutex.  insert leaves an identifier  *)
(* that is in the store as it is.                                          *)
AddToResendStore(m) ==
  /\ At(m, "sent", "done")
  /\ resendStore' =
       IF id[m] \in Stored THEN resendStore
       ELSE [i \in Stored \cup {id[m]} |->
               IF i = id[m] THEN [message |-> m, resendCounter |-> 0] ELSE resendStore[i]]
  /\ resender' = IF resender = "blocked" THEN "wait" ELSE resender
  /\ UNCHANGED <<outCounter, id, stopRequested, sends, netVars>>

SendMessage(m) ==
  ReadCounter(m) \/ WriteCounter(m) \/ Send(m) \/ AddToResendStore(m)

-----------------------------------------------------------------------------
(* parseMessage, at the peer for DATA and here for ACK, and the network.   *)
Remove(ids) == Restrict(resendStore, Stored \ ids)

ReceiveData(m) ==
  /\ data[m] > 0
  /\ data' = [data EXCEPT ![m] = @ - 1]
  /\ acks' = [acks EXCEPT ![m] = @ + 1]
  /\ received' = received \cup {m}
  /\ UNCHANGED <<callVars, resendStore, resender, stopRequested, open, sends>>

ReceiveAck(m) ==
  /\ acks[m] > 0
  /\ acks' = [acks EXCEPT ![m] = @ - 1]
  /\ resendStore' = Remove({id[m]})
  /\ UNCHANGED <<callVars, resender, stopRequested, open, data, sends, received>>

Close(c) ==
  /\ c \in open
  /\ open' = open \ {c}
  /\ data' = [m \in Message |-> IF To[m] = c THEN 0 ELSE data[m]]
  /\ acks' = [m \in Message |-> IF To[m] = c THEN 0 ELSE acks[m]]
  /\ UNCHANGED <<callVars, resendStore, resender, stopRequested, sends, received>>

-----------------------------------------------------------------------------
(* resendStoreThread.                                                      *)
MessageOf(i) == resendStore[i].message
Exhausted(i) == resendStore[i].resendCounter >= resendNumber
Closed(i) == To[MessageOf(i)] \notin open

(* The walk over the store, in the critical section of the wait.  "due"    *)
(* are the entries whose timeout is over, "gone" those of them whose       *)
(* connection, once closed, exists no more: others may still hold it.  An  *)
(* entry goes when its attempts are used up or it is due and gone; a due   *)
(* one that stays is sent again.                                           *)
Resent(due, gone) == {i \in due \ gone : ~Exhausted(i)}

(* Slips: every due entry goes; none goes; the attempts are not counted.   *)
RemovedIfDue(due, gone) == due
RemovedNever(due, gone) == {}

Removed(due, gone) == gone \cup {i \in Stored : Exhausted(i)}

CountedNever(due, gone) == Restrict(resendStore, Stored \ Removed(due, gone))

Counted(due, gone) ==
  [i \in Stored \ Removed(due, gone) |->
     IF i \in Resent(due, gone)
       THEN [resendStore[i] EXCEPT !.resendCounter = @ + 1] ELSE resendStore[i]]

Pass(due, gone) ==
  /\ resender = "wait"
  /\ Stored # {}
  /\ Transmit({MessageOf(i) : i \in Resent(due, gone)})
  /\ resendStore' = Counted(due, gone)
  /\ resender' = "head"
  /\ UNCHANGED <<callVars, stopRequested, open, acks, received>>

AnyPass ==
  \E due \in SUBSET Stored : \E gone \in SUBSET {i \in due : Closed(i)} : Pass(due, gone)

(* The passes that find the timeout of i over.                             *)
PassOver(i) ==
  \E due \in SUBSET Stored : \E gone \in SUBSET {j \in due : Closed(j)} :
    i \in due /\ Pass(due, gone)

Block ==
  /\ resender = "wait"
  /\ Stored = {}
  /\ ~stopRequested
  /\ resender' = "blocked"
  /\ UNCHANGED <<callVars, resendStore, stopRequested, sends, netVars>>

(* A slip: a wait that ends empty-handed is taken up again.                *)
WaitAgain ==
  /\ resender = "wait"
  /\ Stored = {}
  /\ stopRequested
  /\ UNCHANGED vars

WaitReturnsFalse ==
  /\ resender = "wait"
  /\ Stored = {}
  /\ stopRequested
  /\ resender' = "done"
  /\ UNCHANGED <<callVars, resendStore, stopRequested, sends, netVars>>

SpuriousWakeup ==
  /\ resender = "blocked"
  /\ resender' = "wait"
  /\ UNCHANGED <<callVars, resendStore, stopRequested, sends, netVars>>

(* try_acquire_for, but in the first round, and the head of the loop.      *)
WakeUp ==
  /\ resender = "head"
  /\ resender' = IF stopRequested THEN "done" ELSE "wait"
  /\ UNCHANGED <<callVars, resendStore, stopRequested, sends, netVars>>

(* stop: the destructor's request, heard by the wait and by the sleep.     *)
Stop ==
  /\ ~stopRequested
  /\ stopRequested' = TRUE
  /\ resender' = IF resender = "blocked" THEN "wait" ELSE resender
  /\ UNCHANGED <<callVars, resendStore, sends, netVars>>

Resender == Block \/ WaitReturnsFalse \/ WakeUp \/ AnyPass

Next ==
  \/ \E m \in Message : SendMessage(m) \/ ReceiveData(m) \/ ReceiveAck(m)
  \/ \E c \in Connection : Close(c)
  \/ Resender
  \/ SpuriousWakeup
  \/ Stop

(* The thread is scheduled, and an entry is not for ever found younger     *)
(* than the timeout: the thread sleeps for as long between two walks.      *)
Spec ==
  /\ Init /\ [][Next]_vars
  /\ WF_vars(Resender)
  /\ \A i \in 0 .. Ids - 1 : SF_vars(PassOver(i))

-----------------------------------------------------------------------------
TypeOK ==
  /\ outCounter \in 0 .. Ids - 1
  /\ call \in [Message -> {"idle", "counting", "counted", "sent", "done"}]
  /\ id \in [Message -> 0 .. Ids - 1]
  /\ Stored \subseteq 0 .. Ids - 1
  /\ resendStore \in [Stored -> [message : Message, resendCounter : 0 .. resendNumber]]
  /\ resender \in {"wait", "blocked", "head", "done"}
  /\ stopRequested \in BOOLEAN
  /\ open \subseteq Connection
  /\ data \in [Message -> Nat] /\ acks \in [Message -> Nat]
  /\ sends \in [Message -> Nat]
  /\ received \subseteq Message

(* A message is sent once and then at most resendNumber_ times, whatever   *)
(* identifiers are shared and whenever its acknowledgements come.          *)
SendsBounded == \A m \in Message : sends[m] <= 1 + resendNumber

(* The thread is blocked only while there is nothing to resend and no stop *)
(* to heed.                                                                *)
BlockedWithNothingToDo == resender = "blocked" => Stored = {} /\ ~stopRequested

(* A message is given up for a reason: its peer has it, its attempts are   *)
(* used up or its connection is gone.  Only a message that shares its      *)
(* identifier with another can lose its place to the other's ACK.          *)
SharesId(m) == \E n \in Message \ {m} : call[n] # "idle" /\ id[n] = id[m]

GivenUpForAReason ==
  [][\A i \in Stored \ Stored' :
       LET m == MessageOf(i)
       IN  m \in received \/ Exhausted(i) \/ Closed(i) \/ SharesId(m)]_vars

(* Nothing stays in the store for ever: unacknowledged, unanswered or      *)
(* orphaned, a message is given up in the end.                             *)
StoreDrains ==
  \A i \in 0 .. Ids - 1 : i \in Stored ~> i \notin Stored \/ stopRequested

(* The destructor's join returns.                                          *)
StopCompletes == stopRequested ~> resender = "done"
=============================================================================
